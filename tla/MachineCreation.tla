--------------------------- MODULE MachineCreation ---------------------------
(***************************************************************************)
(* Creating machines: create_machine_async (one machine) and               *)
(* create_machine_async_bulk (several in one call), with their disks, their *)
(* libvirt definitions, the transaction that records them and what each    *)
(* function does to undo a failure.                                        *)
(*                                                                         *)
(* Rows appear at the commit, all together.  Volumes and definitions are   *)
(* made before it by threads, which libvirt serves at any time, and        *)
(* nothing but the handlers below takes them back.  Every machine gets a   *)
(* fresh UUID, so two calls share nothing and one call is modelled.        *)
(***************************************************************************)
EXTENDS Naturals

CONSTANTS
    Count,      \* machines of the largest bulk call
    Disk        \* disks of a machine

ASSUME CreationAssumption == Count \in Nat \ {0} /\ Disk # {}

Machine == 1..Count     \* in the order of machine_clones, which gather() keeps
Volume == Machine \X Disk

VARIABLES
    mode,       \* which of the two functions was called
    batch,      \* the machines it was asked for
    pc,
    making,     \* the create_machine_disk thread of every volume
    defining,   \* the defineXMLFlags thread of every machine
    volumes,    \* volumes in the storage pools
    domains,    \* machines defined in libvirt
    known,      \* machines whose model holds the UUIDs of its disks
    created,    \* created_machines of the bulk function
    undo,       \* what undoing each machine has come to
    unmaking,   \* volumes that are still to be deleted again
    rows,       \* committed rows in the database
    slipped     \* history: the commit or a step of the undoing has failed

vars == <<mode, batch, pc, making, defining, volumes, domains, known, created,
          undo, unmaking, rows, slipped>>

Thread == {"none", "running", "done", "failed"}

TypeOK ==
    /\ mode \in {"single", "bulk"}
    /\ batch \in SUBSET Machine
    /\ pc \in {"idle", "insert", "disks", "define", "commit", "undo", "succeeded", "failed"}
    /\ making \in [Volume -> Thread] /\ defining \in [Machine -> Thread]
    /\ volumes \subseteq Volume /\ domains \subseteq Machine
    /\ known \subseteq Machine /\ created \subseteq Machine
    /\ undo \in [Machine -> {"no", "disks", "undefine", "undone"}]
    /\ unmaking \subseteq Volume
    /\ rows \subseteq Machine
    /\ slipped \in BOOLEAN

Init ==
    /\ mode = "single" /\ batch = {} /\ pc = "idle"
    /\ making = [v \in Volume |-> "none"] /\ defining = [m \in Machine |-> "none"]
    /\ volumes = {} /\ domains = {} /\ known = {} /\ created = {}
    /\ undo = [m \in Machine |-> "no"] /\ unmaking = {}
    /\ rows = {} /\ slipped = FALSE

Wanted == batch \X Disk
VolumesOf(m) == {m} \X Disk

-----------------------------------------------------------------------------
(* The handlers of the two functions.                                       *)

\* The machines a failure is going to undo: the one whose disks are known, or
\* those that the loop over the results has put in created_machines.
Undone == IF mode = "single" THEN known ELSE created

\* machine_disks_cleanup as it would be without its loop over additional disks.
RaiseOneDisk(undone) ==
    /\ pc' = "undo"
    /\ undo' = [m \in Machine |-> IF m \in undone THEN "disks" ELSE "no"]
    /\ unmaking' = undone \X {CHOOSE d \in Disk : TRUE}

\* except: start undoing; what is not in Undone is left as it is.
Raise(undone) ==
    /\ pc' = "undo"
    /\ undo' = [m \in Machine |-> IF m \in undone THEN "disks" ELSE "no"]
    /\ unmaking' = undone \X Disk

Begin ==
    /\ pc = "idle"
    /\ \/ mode' = "single" /\ batch' = {1}
       \/ mode' = "bulk" /\ batch' \in {1..n : n \in Machine}
    /\ pc' = "insert"
    /\ UNCHANGED <<making, defining, volumes, domains, known, created, undo, unmaking,
                   rows, slipped>>

\* The bridge IP is found and every row inserted, not yet committed: the threads
\* of all disks start at once.
Insert ==
    /\ pc = "insert"
    /\ pc' = "disks"
    /\ making' = [v \in Volume |-> IF v \in Wanted THEN "running" ELSE "none"]
    /\ UNCHANGED <<mode, batch, defining, volumes, domains, known, created, undo,
                   unmaking, rows, slipped>>

InsertFails ==
    /\ pc = "insert"
    /\ Raise({})
    /\ UNCHANGED <<mode, batch, making, defining, volumes, domains, known, created,
                   rows, slipped>>

\* A disk thread ends, maybe long after its request did.
DiskMade(v) ==
    /\ making[v] = "running"
    /\ making' = [making EXCEPT ![v] = "done"]
    /\ volumes' = volumes \cup {v}
    /\ UNCHANGED <<mode, batch, pc, defining, domains, known, created, undo, unmaking,
                   rows, slipped>>

DiskFails(v) ==
    /\ making[v] = "running"
    /\ making' = [making EXCEPT ![v] = "failed"]
    /\ UNCHANGED <<mode, batch, pc, defining, volumes, domains, known, created, undo,
                   unmaking, rows, slipped>>

AllMade(m) == \A v \in VolumesOf(m) : making[v] = "done"
SomeFailed(m) == \E v \in VolumesOf(m) : making[v] = "failed"

\* The gathers if they ended with the first disk of each machine.
DisksGatheredEarly ==
    /\ pc = "disks"
    /\ \A m \in batch : \E v \in VolumesOf(m) : making[v] = "done"
    /\ known' = batch
    /\ pc' = "define"
    /\ defining' = [m \in Machine |-> IF m \in batch THEN "running" ELSE "none"]
    /\ UNCHANGED <<mode, batch, making, volumes, domains, created, undo, unmaking, rows,
                   slipped>>

\* The gathers if a disk that fails never ended its thread.
DisksGatheredAllMade ==
    /\ pc = "disks"
    /\ \A m \in batch : AllMade(m)
    /\ known' = batch
    /\ pc' = "define"
    /\ defining' = [m \in Machine |-> IF m \in batch THEN "running" ELSE "none"]
    /\ UNCHANGED <<mode, batch, making, volumes, domains, created, undo, unmaking, rows,
                   slipped>>

\* gather() of one machine ends with its last disk or its first failure, and only
\* then are its UUIDs assigned; the bulk gather() waits for all machines.
DisksGathered ==
    /\ pc = "disks"
    /\ \A m \in batch : AllMade(m) \/ SomeFailed(m)
    /\ known' = {m \in batch : AllMade(m)}
    /\ IF known' = batch
         THEN /\ pc' = "define"
              /\ defining' = [m \in Machine |-> IF m \in batch THEN "running" ELSE "none"]
              /\ UNCHANGED <<undo, unmaking>>
         ELSE /\ Raise(IF mode = "single" THEN known' ELSE created)
              /\ UNCHANGED defining
    /\ UNCHANGED <<mode, batch, making, volumes, domains, created, rows, slipped>>

\* create_machine_xml and defineXMLFlags.
Define(m) ==
    /\ defining[m] = "running"
    /\ defining' = [defining EXCEPT ![m] = "done"]
    /\ domains' = domains \cup {m}
    /\ UNCHANGED <<mode, batch, pc, making, volumes, known, created, undo, unmaking,
                   rows, slipped>>

DefineFails(m) ==
    /\ defining[m] = "running"
    /\ defining' = [defining EXCEPT ![m] = "failed"]
    /\ UNCHANGED <<mode, batch, pc, making, volumes, domains, known, created, undo,
                   unmaking, rows, slipped>>

\* The loop over the results stops at the first exception.
Prefix == {m \in batch : \A k \in 1..m : defining[k] = "done"}

\* The step if it forgot to look for exceptions among the results.
DefinesGatheredUnchecked ==
    /\ pc = "define"
    /\ \A m \in batch : defining[m] # "running"
    /\ created' = IF mode = "bulk" THEN batch ELSE created
    /\ pc' = "commit"
    /\ UNCHANGED <<mode, batch, making, defining, volumes, domains, known, undo, unmaking,
                   rows, slipped>>

DefinesGathered ==
    /\ pc = "define"
    /\ \A m \in batch : defining[m] # "running"
    /\ created' = IF mode = "bulk" THEN Prefix ELSE created
    /\ IF Prefix = batch
         THEN pc' = "commit" /\ UNCHANGED <<undo, unmaking>>
         ELSE Raise(IF mode = "single" THEN known ELSE Prefix)
    /\ UNCHANGED <<mode, batch, making, defining, volumes, domains, known, rows, slipped>>

\* The commit if it recorded created_machines, which only the bulk call fills.
CommitCreated ==
    /\ pc = "commit"
    /\ rows' = created
    /\ pc' = "succeeded"
    /\ UNCHANGED <<mode, batch, making, defining, volumes, domains, known, created, undo,
                   unmaking, slipped>>

\* `return' leaves the transaction, which commits.
Commit ==
    /\ pc = "commit"
    /\ rows' = batch
    /\ pc' = "succeeded"
    /\ UNCHANGED <<mode, batch, making, defining, volumes, domains, known, created, undo,
                   unmaking, slipped>>

\* The commit is outside of every except.
CommitFails ==
    /\ pc = "commit"
    /\ pc' = "failed" /\ slipped' = TRUE
    /\ UNCHANGED <<mode, batch, making, defining, volumes, domains, known, created, undo,
                   unmaking, rows>>

-----------------------------------------------------------------------------
(* Undoing: machine_disks_cleanup for one machine; in bulk, one call of     *)
(* delete_machine_async for each machine in created_machines, all at once.  *)

Unmake(v) ==
    /\ v \in unmaking
    /\ volumes' = volumes \ {v}
    /\ unmaking' = unmaking \ {v}
    /\ UNCHANGED <<mode, batch, pc, making, defining, domains, known, created, undo, rows,
                   slipped>>

\* delete_machine_disk returns False, and the next disk is tried.
UnmakeFails(v) ==
    /\ v \in unmaking
    /\ unmaking' = unmaking \ {v}
    /\ slipped' = TRUE
    /\ UNCHANGED <<mode, batch, pc, making, defining, volumes, domains, known, created,
                   undo, rows>>

\* It raises.  machine_disks_cleanup gives up; a delete goes on to undefine while
\* its other threads are at work.
UnmakeRaises(m) ==
    /\ undo[m] = "disks" /\ unmaking \cap VolumesOf(m) # {}
    /\ \E v \in unmaking \cap VolumesOf(m) :
          IF mode = "single" THEN unmaking' = {}
                             ELSE unmaking' = unmaking \ {v}
    /\ undo' = [undo EXCEPT ![m] = "undefine"]
    /\ slipped' = TRUE
    /\ UNCHANGED <<mode, batch, pc, making, defining, volumes, domains, known, created, rows>>

\* delete_machine_async cannot read or parse the XML, and leaves the disks.
XmlUnread(m) ==
    /\ mode = "bulk" /\ undo[m] = "disks" /\ VolumesOf(m) \subseteq unmaking
    /\ unmaking' = unmaking \ VolumesOf(m)
    /\ undo' = [undo EXCEPT ![m] = "undefine"]
    /\ slipped' = TRUE
    /\ UNCHANGED <<mode, batch, pc, making, defining, volumes, domains, known, created, rows>>

DisksUnmade(m) ==
    /\ undo[m] = "disks" /\ unmaking \cap VolumesOf(m) = {}
    /\ undo' = [undo EXCEPT ![m] = "undefine"]
    /\ UNCHANGED <<mode, batch, pc, making, defining, volumes, domains, known, created,
                   unmaking, rows, slipped>>

\* A delete finds no committed rows, which it logs, and undefines the machine.
\* machine_disks_cleanup has no such step.
Undefine(m) ==
    /\ undo[m] = "undefine"
    /\ undo' = [undo EXCEPT ![m] = "undone"]
    /\ domains' = IF mode = "bulk" THEN domains \ {m} ELSE domains
    /\ UNCHANGED <<mode, batch, pc, making, defining, volumes, known, created, unmaking,
                   rows, slipped>>

UndefineFails(m) ==
    /\ mode = "bulk" /\ undo[m] = "undefine"
    /\ undo' = [undo EXCEPT ![m] = "undone"]
    /\ slipped' = TRUE
    /\ UNCHANGED <<mode, batch, pc, making, defining, volumes, domains, known, created,
                   unmaking, rows>>

\* The handler raises, which rolls the transaction back.
Undo ==
    /\ pc = "undo"
    /\ \A m \in Machine : undo[m] \in {"no", "undone"}
    /\ pc' = "failed"
    /\ UNCHANGED <<mode, batch, making, defining, volumes, domains, known, created, undo,
                   unmaking, rows, slipped>>

\* The process dies: threads and the open transaction go with it.
Crash ==
    /\ pc \notin {"idle", "succeeded", "failed"}
    /\ pc' = "failed" /\ slipped' = TRUE
    /\ making' = [v \in Volume |-> IF making[v] = "running" THEN "failed" ELSE making[v]]
    /\ defining' = [m \in Machine |-> IF defining[m] = "running" THEN "failed" ELSE defining[m]]
    /\ undo' = [m \in Machine |-> "no"] /\ unmaking' = {}
    /\ UNCHANGED <<mode, batch, volumes, domains, known, created, rows>>

-----------------------------------------------------------------------------
Handler ==
    \/ Begin \/ Insert \/ InsertFails \/ DisksGathered \/ DefinesGathered
    \/ Commit \/ CommitFails \/ Undo
    \/ \E m \in Machine : XmlUnread(m) \/ DisksUnmade(m) \/ UnmakeRaises(m)
                          \/ Undefine(m) \/ UndefineFails(m)

Threads ==
    \/ \E v \in Volume : DiskMade(v) \/ DiskFails(v) \/ Unmake(v) \/ UnmakeFails(v)
    \/ \E m \in Machine : Define(m) \/ DefineFails(m)

Next == Handler \/ Threads \/ Crash

Spec == Init /\ [][Next]_vars

\* The event loop runs the handler when it can run, and threads run to their end.
Fairness == WF_vars(Handler) /\ WF_vars(Threads)

FairSpec == Spec /\ Fairness
-----------------------------------------------------------------------------
(* Properties.                                                              *)

\* A row in the database always stands for a machine that libvirt has defined,
\* with every one of its disks, and a call records all of its machines or none:
\* whatever fails or dies on the way, no row is left without its machine.
RowsHaveMachines ==
    /\ rows \subseteq domains
    /\ \A m \in rows : VolumesOf(m) \subseteq volumes
    /\ rows # {} => rows = batch

\* If nothing fails while a failure is being undone, then nothing is left of the
\* machines the handler undoes: no volume, not the second one either, and in bulk
\* no definition, not that of the last machine of the prefix either.
UndoIsThorough ==
    pc = "failed" /\ ~slipped => \A m \in Undone :
        /\ VolumesOf(m) \cap volumes = {}
        /\ m \notin domains

\* No thread is still at work when the call succeeds: what it reports is final.
NothingAfterSuccess ==
    [][pc = "succeeded" => UNCHANGED <<volumes, domains, rows>>]_vars

\* To its caller a creation is atomic (AtomicBatch), although rows, volumes and
\* definitions are made one by one: a machine counts when its row is committed,
\* libvirt knows it and its disks are there.
Complete == {m \in rows : m \in domains /\ VolumesOf(m) \subseteq volumes}
Answered == CASE pc = "idle" -> "none"
              [] pc = "succeeded" -> "success"
              [] pc = "failed" -> "failure"
              [] OTHER -> "pending"

Promise == INSTANCE AtomicBatch WITH asked <- batch, machines <- Complete, answer <- Answered

\* Creation implements AtomicBatch: no step shows a caller half of a batch, or a
\* machine that is recorded and not there.
IsAtomic == Promise!Spec

\* Every call is answered: no gather waits for a thread that has ended.
CreationAnswered == pc = "insert" ~> pc \in {"succeeded", "failed"}
=============================================================================
