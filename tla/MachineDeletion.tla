--------------------------- MODULE MachineDeletion ---------------------------
(***************************************************************************)
(* Deleting one machine while other requests start and stop it:            *)
(* delete_machine_async and its endpoint, composed with MachinePower.      *)
(*                                                                         *)
(* A delete is a coroutine with five steps, and a step that fails does not *)
(* keep the next one from running: read the XML in a thread, stop_machine, *)
(* delete every disk in a thread of its own, delete the rows in one        *)
(* transaction, undefine the machine in a thread.  stop_machine is the one *)
(* of MachinePower, so a delete takes its turn in vm_tasks.                *)
(***************************************************************************)
EXTENDS MachinePower

CONSTANT Disk       \* the volumes of the machine, the system disk among them

VARIABLES
    disks,      \* the volumes that exist in their storage pools
    del,        \* the delete that each request runs, if it runs one
    announced   \* history: DELETE messages broadcast, counted up to two

deletionVars == <<disks, del, announced>>
allVars == <<vars, deletionVars>>

\* pc: idle, xml, stop, stopping, disks, db, undefine or answer; xml: it was read;
\* ok: the answer; left: the disk threads still at work, which outlive their request;
\* raised: one of them raised, and gather() no longer waits for the others.
NoDeletion == [pc |-> "idle", xml |-> FALSE, ok |-> TRUE, left |-> {}, raised |-> FALSE]

DeletionInit ==
    /\ Init
    /\ disks = Disk
    /\ del = [r \in Request |-> NoDeletion]
    /\ announced = 0

-----------------------------------------------------------------------------
\* del[r] goes on as d.
Deletes(r, d) == del' = [del EXCEPT ![r] = d]

\* A request slot is free when its coroutine and its threads are done.
Free(r) == del[r].pc = "idle" /\ del[r].left = {}

DeleteBegins(r) ==
    /\ loop = NoTask /\ call[r] = "idle" /\ Free(r) /\ Found
    /\ Deletes(r, [NoDeletion EXCEPT !.pc = "xml"])
    /\ UNCHANGED <<vars, disks, announced>>

\* The thread reads and the coroutine parses the XML; either may fail.
FetchXml(r) ==
    /\ del[r].pc = "xml"
    /\ \E got \in BOOLEAN :
          /\ got => Found
          /\ Deletes(r, [del[r] EXCEPT !.pc = "stop", !.xml = got, !.ok = got])
    /\ UNCHANGED <<vars, disks, announced>>

\* The disks that are left to delete once the machine is, or is not, stopped; the
\* XML is not looked at again.
ToDisks(r, ok) ==
    Deletes(r, [del[r] EXCEPT !.pc = "disks", !.ok = ok, !.xml = FALSE,
                              !.left = IF del[r].xml THEN Disk ELSE {}])

\* stop_machine answers False at once, which the delete ignores.
StopRefused(r) ==
    /\ loop = NoTask /\ del[r].pc = "stop" /\ Found
    /\ ~Wanted("stop") \/ Busy
    /\ ToDisks(r, del[r].ok)
    /\ UNCHANGED <<vars, disks, announced>>

\* is_vm_running raises: no such machine, or no connection to libvirt.
StopRaises(r) ==
    /\ loop = NoTask /\ del[r].pc = "stop"
    /\ ToDisks(r, FALSE)
    /\ UNCHANGED <<vars, disks, announced>>

\* Mutant: the delete stops the machine without a look at vm_tasks.
StopAcceptedBeside(r) ==
    /\ del[r].pc = "stop"
    /\ loop = NoTask /\ call[r] = "idle" /\ Found /\ Wanted("stop")
    /\ task' = [task EXCEPT ![r] = [NoJob EXCEPT !.pc = "ready", !.kind = "stop"]]
    /\ vmTask' = r /\ call' = [call EXCEPT ![r] = "stop"] /\ settled' = "none"
    /\ Deletes(r, [del[r] EXCEPT !.pc = "stopping"])
    /\ UNCHANGED <<libvirtVars, records, row, loop, stolen, disks, announced>>

StopAccepted(r) ==
    /\ del[r].pc = "stop"
    /\ Accept(r, "stop")
    /\ Deletes(r, [del[r] EXCEPT !.pc = "stopping"])
    /\ UNCHANGED <<disks, announced>>

\* The stop task is done: False, a value and the row are all the same to the
\* delete, only an exception is not.
StopReturns(r) ==
    /\ del[r].pc = "stopping"
    /\ Resume(r)
    /\ ToDisks(r, del[r].ok /\ task[r].pc # "crashed")
    /\ UNCHANGED <<disks, announced>>

-----------------------------------------------------------------------------
(* The disk threads, and the coroutine that gathers them.                   *)

\* delete_machine_disk deletes the volume, or finds none.
DeleteDisk(r, d) ==
    /\ d \in del[r].left
    /\ disks' = disks \ {d}
    /\ Deletes(r, [del[r] EXCEPT !.left = @ \ {d}])
    /\ UNCHANGED <<vars, announced>>

\* It returns False for a libvirt error, and raises without a connection.
DeleteDiskFails(r, d) ==
    /\ d \in del[r].left
    /\ \E raises \in BOOLEAN :
          Deletes(r, [del[r] EXCEPT !.left = @ \ {d},
                                    !.raised = (@ \/ raises) /\ del[r].pc = "disks"])
    /\ UNCHANGED <<vars, disks, announced>>

\* Neither False nor an exception of a disk thread makes the delete fail.
DisksGathered(r) ==
    /\ loop = NoTask /\ del[r].pc = "disks"
    /\ del[r].left = {} \/ del[r].raised
    /\ Deletes(r, [del[r] EXCEPT !.pc = "db", !.raised = FALSE])
    /\ UNCHANGED <<vars, disks, announced>>

-----------------------------------------------------------------------------
(* The rows and the definition.                                             *)

\* Mutant: rows that are gone already are no error.
DeleteRowsAgain(r) ==
    /\ loop = NoTask /\ del[r].pc = "db"
    /\ records' = FALSE
    /\ Deletes(r, [del[r] EXCEPT !.pc = "undefine"])
    /\ UNCHANGED <<libvirtVars, row, settled, loop, vmTask, call, task, stolen, disks, announced>>

\* One transaction.  Without a guacamole connection it raises and is rolled back.
DeleteRows(r) ==
    /\ loop = NoTask /\ del[r].pc = "db"
    /\ records' = FALSE
    /\ Deletes(r, [del[r] EXCEPT !.pc = "undefine", !.ok = @ /\ records])
    /\ UNCHANGED <<libvirtVars, row, settled, loop, vmTask, call, task, stolen, disks, announced>>

\* Mutant: the error of the transaction is not reported.
DeleteRowsFailsQuietly(r) ==
    /\ loop = NoTask /\ del[r].pc = "db"
    /\ Deletes(r, [del[r] EXCEPT !.pc = "undefine"])
    /\ UNCHANGED <<vars, disks, announced>>

DeleteRowsFails(r) ==
    /\ loop = NoTask /\ del[r].pc = "db"
    /\ Deletes(r, [del[r] EXCEPT !.pc = "undefine", !.ok = FALSE])
    /\ UNCHANGED <<vars, disks, announced>>

\* A machine that runs goes on running without a definition.
Undefine(r) ==
    /\ del[r].pc = "undefine" /\ defined
    /\ defined' = FALSE
    /\ Deletes(r, [del[r] EXCEPT !.pc = "answer"])
    /\ UNCHANGED <<dom, display, dbVars, loop, vmTask, call, task, stolen, disks, announced>>

\* A libvirt error is logged and swallowed; without a connection the delete fails.
UndefineFails(r) ==
    /\ del[r].pc = "undefine"
    /\ \E ok \in {del[r].ok, FALSE} : Deletes(r, [del[r] EXCEPT !.pc = "answer", !.ok = ok])
    /\ UNCHANGED <<vars, disks, announced>>

\* The endpoint broadcasts DELETE when delete_machine_async returned True.
DeleteAnswered(r) ==
    /\ loop = NoTask /\ del[r].pc = "answer"
    /\ announced' = IF del[r].ok /\ announced < 2 THEN announced + 1 ELSE announced
    /\ Deletes(r, [NoDeletion EXCEPT !.left = del[r].left])
    /\ UNCHANGED <<vars, disks>>

\* A restart loses every coroutine and every thread.
DeletionRestart ==
    /\ Restart
    /\ del' = [r \in Request |-> NoDeletion]
    /\ UNCHANGED <<disks, announced>>

-----------------------------------------------------------------------------
Threads(r) ==
    \/ FetchXml(r) \/ Undefine(r) \/ UndefineFails(r)
    \/ \E d \in Disk : DeleteDisk(r, d) \/ DeleteDiskFails(r, d)

Coroutine(r) ==
    \/ StopRefused(r) \/ StopRaises(r) \/ StopAccepted(r) \/ StopReturns(r)
    \/ DisksGathered(r) \/ DeleteRows(r) \/ DeleteRowsFails(r) \/ DeleteAnswered(r)

\* A task of MachinePower, or the start or stop request that awaits it.
PowerTurn(r) == TaskStep(r) \/ (del[r].pc = "idle" /\ Resume(r))

PowerStep ==
    /\ Guest \/ \E r \in Request : (Free(r) /\ Arrive(r)) \/ PowerTurn(r)
    /\ UNCHANGED deletionVars

DeletionServe ==
    \/ PowerStep
    \/ \E r \in Request : DeleteBegins(r) \/ Threads(r) \/ Coroutine(r)

DeletionNext == DeletionServe \/ DeletionRestart

DeletionSpec == DeletionInit /\ [][DeletionNext]_allVars
-----------------------------------------------------------------------------
(* Properties.                                                              *)

\* However many administrators delete the machine at once, and whatever fails on
\* the way, subscribers are told at most once that it is gone, and only when its
\* rows are: the transaction is the one step of a delete that must not fail.
DeleteAnnouncedOnce ==
    /\ announced <= 1
    /\ announced = 1 => ~records

\* Rows whose machine libvirt no longer knows cannot be deleted any more, since
\* the endpoint asks libvirt first.  Only a delete that will answer False may
\* leave such rows, never one that answers True and never a crash in between.
NoSilentOrphan ==
    [][defined /\ ~defined' /\ records =>
          \E r \in Request : del[r].pc = "undefine" /\ ~del[r].ok]_allVars
=============================================================================
