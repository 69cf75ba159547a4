----------------------- MODULE MachineCreation_proofs -----------------------
(***************************************************************************)
(* Proofs about MachineCreation for bulk calls of any size and machines    *)
(* with any number of disks.                                               *)
(***************************************************************************)
EXTENDS MachineCreation, TLAPS

Forward == {"idle", "insert", "disks", "define", "commit", "succeeded"}

\* Until something fails, nothing is being undone, every thread that is done has
\* left what it made, and no stage begins before the one in front of it is done.
Sound ==
    /\ pc \in Forward => unmaking = {} /\ \A m \in Machine : undo[m] = "no"
    /\ pc \in {"disks", "define", "commit", "succeeded"} =>
          \A v \in Volume : making[v] = "done" => v \in volumes
    /\ pc \in {"define", "commit", "succeeded"} =>
          /\ \A m \in Machine : defining[m] = "done" => m \in domains
          /\ \A v \in Wanted : making[v] = "done"
    /\ pc \in {"commit", "succeeded"} => \A m \in batch : defining[m] = "done"
    /\ rows = IF pc = "succeeded" THEN batch ELSE {}

-----------------------------------------------------------------------------
(* Type correctness.                                                        *)

LEMMA InitType == Init => TypeOK
BY DEF Init, TypeOK, Thread

LEMMA RaiseType ==
    ASSUME NEW undone \in SUBSET Machine, Raise(undone)
    PROVE  /\ pc' = "undo" /\ unmaking' \subseteq Volume
           /\ undo' \in [Machine -> {"no", "disks", "undefine", "undone"}]
BY DEF Raise, Volume

LEMMA HandlerType == TypeOK /\ Handler => TypeOK'
<1> SUFFICES ASSUME TypeOK, Handler PROVE TypeOK'
  OBVIOUS
<1>1. CASE Begin
  <2>1. 1 \in Machine /\ \A n \in Machine : 1..n \subseteq Machine
    BY CreationAssumption DEF Machine
  <2>2. batch' \in SUBSET Machine /\ mode' \in {"single", "bulk"}
    BY <1>1, <2>1 DEF Begin
  <2> QED
    BY <1>1, <2>2 DEF Begin, TypeOK
<1>2. CASE Insert
  BY <1>2 DEF Insert, TypeOK, Thread
<1>3. CASE InsertFails
  BY <1>3, RaiseType DEF InsertFails, TypeOK
<1>4. CASE DisksGathered
  <2>1. known' \in SUBSET Machine
    BY <1>4 DEF DisksGathered, TypeOK
  <2>2. CASE known' = batch
    BY <1>4, <2>1, <2>2 DEF DisksGathered, TypeOK, Thread
  <2>3. CASE known' # batch
    <3>1. Raise(IF mode = "single" THEN known' ELSE created) /\ UNCHANGED defining
      BY <1>4, <2>3 DEF DisksGathered
    <3>2. (IF mode = "single" THEN known' ELSE created) \in SUBSET Machine
      BY <2>1 DEF TypeOK
    <3>3. pc' = "undo" /\ unmaking' \subseteq Volume
          /\ undo' \in [Machine -> {"no", "disks", "undefine", "undone"}]
      BY <3>1, <3>2, RaiseType
    <3> QED
      BY <1>4, <2>1, <3>1, <3>3 DEF DisksGathered, TypeOK
  <2> QED
    BY <2>2, <2>3
<1>5. CASE DefinesGathered
  <2>1. Prefix \in SUBSET Machine
    BY DEF Prefix, TypeOK
  <2>2. created' \in SUBSET Machine
    BY <1>5, <2>1 DEF DefinesGathered, TypeOK
  <2>3. CASE Prefix = batch
    BY <1>5, <2>2, <2>3 DEF DefinesGathered, TypeOK
  <2>4. CASE Prefix # batch
    <3>1. Raise(IF mode = "single" THEN known ELSE Prefix)
      BY <1>5, <2>4 DEF DefinesGathered
    <3>2. (IF mode = "single" THEN known ELSE Prefix) \in SUBSET Machine
      BY <2>1 DEF TypeOK
    <3>3. pc' = "undo" /\ unmaking' \subseteq Volume
          /\ undo' \in [Machine -> {"no", "disks", "undefine", "undone"}]
      BY <3>1, <3>2, RaiseType
    <3> QED
      BY <1>5, <2>2, <3>3 DEF DefinesGathered, TypeOK
  <2> QED
    BY <2>3, <2>4
<1>6. CASE Commit \/ CommitFails \/ Undo
  BY <1>6 DEF Commit, CommitFails, Undo, TypeOK
<1>7. ASSUME NEW m \in Machine,
             XmlUnread(m) \/ DisksUnmade(m) \/ UnmakeRaises(m) \/ Undefine(m) \/ UndefineFails(m)
      PROVE  TypeOK'
  BY <1>7 DEF XmlUnread, DisksUnmade, UnmakeRaises, Undefine, UndefineFails, TypeOK
<1> QED
  BY <1>1, <1>2, <1>3, <1>4, <1>5, <1>6, <1>7 DEF Handler

LEMMA NextType == TypeOK /\ [Next]_vars => TypeOK'
<1> SUFFICES ASSUME TypeOK, [Next]_vars PROVE TypeOK'
  OBVIOUS
<1>1. CASE Handler
  BY <1>1, HandlerType
<1>2. ASSUME NEW v \in Volume, DiskMade(v) \/ DiskFails(v) \/ Unmake(v) \/ UnmakeFails(v)
      PROVE  TypeOK'
  BY <1>2 DEF DiskMade, DiskFails, Unmake, UnmakeFails, TypeOK, Thread
<1>3. ASSUME NEW m \in Machine, Define(m) \/ DefineFails(m) PROVE TypeOK'
  BY <1>3 DEF Define, DefineFails, TypeOK, Thread
<1>4. CASE Crash
  BY <1>4 DEF Crash, TypeOK, Thread
<1>5. CASE UNCHANGED vars
  BY <1>5 DEF vars, TypeOK
<1> QED
  BY <1>1, <1>2, <1>3, <1>4, <1>5 DEF Next, Threads

\* Every variable keeps its type in every state the system reaches.
THEOREM TypeCorrect == Spec => []TypeOK
<1> QED
  BY InitType, NextType, PTL DEF Spec
-----------------------------------------------------------------------------
(* No stage before its time.                                                *)

LEMMA InitSound == Init => Sound
BY DEF Init, Sound, Forward

\* A failure claims nothing, as long as nothing has been recorded.
LEMMA FailedSound ==
    ASSUME pc' \in {"undo", "failed"}, rows' = {}
    PROVE  Sound'
BY DEF Sound, Forward

LEMMA HandlerSound == TypeOK /\ Sound /\ Handler => Sound'
<1> SUFFICES ASSUME TypeOK, Sound, Handler PROVE Sound'
  OBVIOUS
<1>1. CASE Begin
  BY <1>1 DEF Begin, Sound, Forward
<1>2. CASE Insert
  <2>1. \A v \in Volume : making'[v] # "done"
    BY <1>2 DEF Insert
  <2> QED
    BY <1>2, <2>1 DEF Insert, Sound, Forward
<1>3. CASE InsertFails
  BY <1>3, FailedSound DEF InsertFails, Raise, Sound
<1>4. CASE DisksGathered
  <2>1. rows' = {} /\ pc = "disks"
    BY <1>4 DEF DisksGathered, Sound
  <2>2. CASE known' = batch
    <3>1. \A v \in Wanted : making[v] = "done"
      BY <1>4, <2>2 DEF DisksGathered, AllMade, VolumesOf, Wanted
    <3>2. \A m \in Machine : defining'[m] # "done"
      BY <1>4, <2>2 DEF DisksGathered
    <3>3. pc' = "define"
          /\ UNCHANGED <<batch, making, volumes, undo, unmaking>>
      BY <1>4, <2>2 DEF DisksGathered
    <3> QED
      BY <2>1, <3>1, <3>2, <3>3 DEF Sound, Forward, Wanted
  <2>3. CASE known' # batch
    BY <1>4, <2>1, <2>3, FailedSound DEF DisksGathered, Raise
  <2> QED
    BY <2>2, <2>3
<1>5. CASE DefinesGathered
  <2>1. rows' = {} /\ pc = "define"
    BY <1>5 DEF DefinesGathered, Sound
  <2>2. CASE Prefix = batch
    <3>1. \A m \in batch : m \in 1..m
      BY DEF TypeOK, Machine
    <3>2. \A m \in batch : defining[m] = "done"
      BY <2>2, <3>1 DEF Prefix
    <3> QED
      BY <1>5, <2>1, <2>2, <3>2 DEF DefinesGathered, Sound, Forward, Wanted
  <2>3. CASE Prefix # batch
    BY <1>5, <2>1, <2>3, FailedSound DEF DefinesGathered, Raise
  <2> QED
    BY <2>2, <2>3
<1>6. CASE Commit
  BY <1>6 DEF Commit, Sound, Forward, Wanted
<1>7. CASE CommitFails \/ Undo
  BY <1>7, FailedSound DEF CommitFails, Undo, Sound
<1>8. ASSUME NEW m \in Machine,
             XmlUnread(m) \/ DisksUnmade(m) \/ UnmakeRaises(m) \/ Undefine(m) \/ UndefineFails(m)
      PROVE  Sound'
  <2>1. undo[m] # "no" /\ UNCHANGED <<pc, rows>>
    BY <1>8 DEF XmlUnread, DisksUnmade, UnmakeRaises, Undefine, UndefineFails
  <2>2. pc \in {"undo", "failed"}
    BY <2>1 DEF Sound, Forward, TypeOK
  <2> QED
    BY <2>1, <2>2, FailedSound DEF Sound
<1> QED
  BY <1>1, <1>2, <1>3, <1>4, <1>5, <1>6, <1>7, <1>8 DEF Handler

LEMMA NextSound == TypeOK /\ Sound /\ [Next]_vars => Sound'
<1> SUFFICES ASSUME TypeOK, Sound, [Next]_vars PROVE Sound'
  OBVIOUS
<1>1. CASE Handler
  BY <1>1, HandlerSound
<1>2. ASSUME NEW v \in Volume, DiskMade(v) \/ DiskFails(v) PROVE Sound'
  <2>1. making[v] = "running" /\ volumes \subseteq volumes'
        /\ UNCHANGED <<pc, batch, defining, domains, undo, unmaking, rows>>
    BY <1>2 DEF DiskMade, DiskFails
  <2>2. \A w \in Volume : w # v => making'[w] = making[w]
    BY <1>2 DEF DiskMade, DiskFails, TypeOK
  <2>3. making'[v] = "done" => v \in volumes'
    BY <1>2 DEF DiskMade, DiskFails, TypeOK
  <2>4. Wanted' = Wanted /\ Wanted \subseteq Volume
    BY <2>1 DEF Wanted, Volume, TypeOK
  <2> QED
    BY <2>1, <2>2, <2>3, <2>4 DEF Sound
<1>3. ASSUME NEW v \in Volume, Unmake(v) \/ UnmakeFails(v) PROVE Sound'
  <2>1. unmaking # {} /\ UNCHANGED <<pc, rows>>
    BY <1>3 DEF Unmake, UnmakeFails
  <2>2. pc \in {"undo", "failed"}
    BY <2>1 DEF Sound, Forward, TypeOK
  <2> QED
    BY <2>1, <2>2, FailedSound DEF Sound
<1>4. ASSUME NEW m \in Machine, Define(m) \/ DefineFails(m) PROVE Sound'
  <2>1. defining[m] = "running" /\ domains \subseteq domains'
        /\ UNCHANGED <<pc, batch, making, volumes, undo, unmaking, rows>>
    BY <1>4 DEF Define, DefineFails
  <2>2. \A k \in Machine : k # m => defining'[k] = defining[k]
    BY <1>4 DEF Define, DefineFails, TypeOK
  <2>3. defining'[m] = "done" => m \in domains'
    BY <1>4 DEF Define, DefineFails, TypeOK
  <2>4. Wanted' = Wanted /\ batch \subseteq Machine
    BY <2>1 DEF Wanted, TypeOK
  <2> QED
    BY <2>1, <2>2, <2>3, <2>4 DEF Sound
<1>5. CASE Crash
  BY <1>5, FailedSound DEF Crash, Sound
<1>6. CASE UNCHANGED vars
  BY <1>6 DEF vars, Sound, Wanted
<1> QED
  BY <1>1, <1>2, <1>3, <1>4, <1>5, <1>6 DEF Next, Threads

LEMMA SoundInvariant == Spec => []Sound
<1> QED
  BY InitSound, NextSound, TypeCorrect, PTL DEF Spec

LEMMA SoundImplies == TypeOK /\ Sound => RowsHaveMachines
<1> SUFFICES ASSUME TypeOK, Sound, rows # {} PROVE RowsHaveMachines
  BY DEF RowsHaveMachines
<1>1. pc = "succeeded" /\ rows = batch /\ batch \subseteq Machine
  BY DEF Sound, TypeOK
<1>2. rows \subseteq domains
  BY <1>1 DEF Sound
<1>3. ASSUME NEW m \in rows PROVE VolumesOf(m) \subseteq volumes
  <2>1. VolumesOf(m) \subseteq Wanted /\ Wanted \subseteq Volume
    BY <1>1 DEF VolumesOf, Wanted, Volume
  <2> QED
    BY <1>1, <2>1 DEF Sound
<1> QED
  BY <1>1, <1>2, <1>3 DEF RowsHaveMachines

\* For any number of machines and disks, however the threads interleave, fail or
\* die, a recorded machine is defined and has all of its disks.
THEOREM RecordsAreSound == Spec => []RowsHaveMachines
<1> QED
  BY SoundInvariant, TypeCorrect, SoundImplies, PTL
-----------------------------------------------------------------------------
(* The refinement of AtomicBatch.                                           *)

LEMMA CompleteIsRows == RowsHaveMachines => Complete = rows
BY DEF RowsHaveMachines, Complete

LEMMA InitPromise == Init => Promise!Init
BY DEF Init, Promise!Init, Complete, Answered

LEMMA NextPromise ==
    TypeOK /\ Sound /\ RowsHaveMachines /\ RowsHaveMachines' /\ [Next]_vars =>
        [Promise!Ask \/ Promise!Succeed \/ Promise!Fail]_<<batch, Complete, Answered>>
<1> SUFFICES ASSUME TypeOK, Sound, RowsHaveMachines, RowsHaveMachines', [Next]_vars
             PROVE  [Promise!Ask \/ Promise!Succeed \/ Promise!Fail]_<<batch, Complete, Answered>>
  OBVIOUS
<1>0. Complete = rows /\ Complete' = rows'
  BY CompleteIsRows DEF RowsHaveMachines, Complete, VolumesOf
<1>1. CASE Begin
  <2>1. batch' \in (SUBSET Machine) \ {{}}
    <3>1. 1 \in Machine /\ \A n \in Machine : 1..n \subseteq Machine /\ 1 \in 1..n
      BY CreationAssumption DEF Machine
    <3>2. batch' \subseteq Machine /\ 1 \in batch'
      BY <1>1, <3>1 DEF Begin
    <3> QED
      BY <3>2
  <2>2. Answered = "none" /\ Answered' = "pending" /\ rows' = rows
    BY <1>1 DEF Begin, Answered
  <2> QED
    BY <1>0, <2>1, <2>2 DEF Promise!Ask
<1>2. CASE Commit
  <2>1. Answered = "pending" /\ Answered' = "success" /\ rows' = batch /\ batch' = batch
    BY <1>2 DEF Commit, Answered
  <2> QED
    BY <1>0, <2>1 DEF Promise!Succeed
<1>3. CASE CommitFails \/ Undo \/ Crash
  <2>1. Answered = "pending" /\ Answered' = "failure" /\ rows' = rows /\ batch' = batch
    BY <1>3 DEF CommitFails, Undo, Crash, Answered
  <2> QED
    BY <1>0, <2>1 DEF Promise!Fail
<1>4. CASE pc' = pc /\ UNCHANGED <<rows, batch>>
  BY <1>0, <1>4 DEF Answered
<1>5. CASE Insert \/ InsertFails \/ DisksGathered \/ DefinesGathered
  <2>1. Answered = "pending" /\ Answered' = "pending" /\ rows' = rows /\ batch' = batch
    BY <1>5 DEF Insert, InsertFails, DisksGathered, DefinesGathered, Raise, Answered
  <2> QED
    BY <1>0, <2>1
<1>6. \/ Begin \/ Commit \/ CommitFails \/ Undo \/ Crash
      \/ Insert \/ InsertFails \/ DisksGathered \/ DefinesGathered
      \/ pc' = pc /\ UNCHANGED <<rows, batch>>
  BY DEF Next, Handler, Threads, vars, DiskMade, DiskFails, Unmake, UnmakeFails, Define,
         DefineFails, XmlUnread, DisksUnmade, UnmakeRaises, Undefine, UndefineFails
<1> QED
  BY <1>1, <1>2, <1>3, <1>4, <1>5, <1>6

\* Creation implements AtomicBatch: its callers see a batch come into being whole
\* or not at all.
THEOREM CreationIsAtomic == Spec => IsAtomic
<1> QED
  BY InitPromise, NextPromise, TypeCorrect, SoundInvariant, RecordsAreSound, PTL
     DEF Spec, IsAtomic, Promise!Spec
-----------------------------------------------------------------------------
(* Undoing leaves nothing, success leaves nothing to do.                    *)

\* What a stage has not begun has left no trace, and what it has begun is for the
\* machines of the batch.
Staged ==
    /\ mode = "single" => batch \subseteq {1}
    /\ pc \in {"idle", "insert"} => \A v \in Volume : making[v] = "none"
    /\ pc \in {"idle", "insert", "disks"} =>
          /\ known = {} /\ domains = {}
          /\ \A m \in Machine : defining[m] = "none"
    /\ pc \in {"idle", "insert", "disks", "define"} => created = {}
    /\ pc \in {"define", "commit"} => known = batch
    /\ pc \in {"define", "commit"} => \A m \in batch : defining[m] # "none"
    /\ \A v \in Volume : making[v] # "none" => v \in Wanted
    /\ \A m \in Machine : defining[m] # "none" => m \in batch
    /\ \A m \in domains : defining[m] = "done"
    /\ created \subseteq known /\ known \subseteq batch
    /\ \A m \in known : AllMade(m)
    /\ \A m \in created : defining[m] = "done"

\* How far a machine is undone: its volumes are gone or on the list; a single
\* machine that is undone has never been defined.
Undoing(m) ==
    /\ undo[m] # "no"
    /\ pc = "failed" => undo[m] = "undone"
    /\ \A v \in VolumesOf(m) : v \in unmaking \/ v \notin volumes
    /\ undo[m] # "disks" => VolumesOf(m) \cap unmaking = {}
    /\ mode = "single" => defining[m] = "failed"
    /\ mode = "bulk" /\ undo[m] = "undone" => m \notin domains

Thorough == pc \in {"undo", "failed"} /\ ~slipped => \A m \in Undone : Undoing(m)

LEMMA InitStaged == Init => Staged /\ Thorough
BY DEF Init, Staged, Thorough

\* A failure that undoes the machines of us begins with all of their disks.
LEMMA RaiseThorough ==
    ASSUME TypeOK, NEW us \in SUBSET Machine, Raise(us), Undone' = us,
           mode' = mode, mode = "single" => \A m \in us : defining'[m] = "failed"
    PROVE  Thorough'
<1> SUFFICES ASSUME NEW m \in us PROVE Undoing(m)'
  BY DEF Thorough
<1>1. pc' = "undo" /\ undo'[m] = "disks" /\ VolumesOf(m) \subseteq unmaking'
  BY DEF Raise, VolumesOf
<1> QED
  BY <1>1 DEF Undoing, VolumesOf

\* A history in which something slipped promises nothing.
LEMMA SlippedThorough == ASSUME slipped' = TRUE PROVE Thorough'
BY DEF Thorough

\* While nothing fails there is nothing to undo.
LEMMA ForwardThorough == ASSUME pc' \notin {"undo", "failed"} PROVE Thorough'
BY DEF Thorough

LEMMA GatherStaged ==
    ASSUME TypeOK, Sound, Staged, Thorough, DisksGathered \/ DefinesGathered
    PROVE  Staged' /\ Thorough'
<1>1. CASE DisksGathered
  <2>1. /\ pc = "disks" /\ created = {} /\ domains = {}
        /\ known' = {m \in batch : AllMade(m)}
        /\ UNCHANGED <<mode, batch, making, volumes, domains, created, rows, slipped>>
        /\ \A m \in Machine : defining[m] = "none"
    BY <1>1 DEF DisksGathered, Staged
  <2>2. known' \subseteq batch /\ \A m \in known' : AllMade(m)'
    BY <2>1 DEF AllMade, VolumesOf
  <2>3. CASE known' = batch
    <3>1. pc' = "define"
          /\ defining' = [m \in Machine |-> IF m \in batch THEN "running" ELSE "none"]
      BY <1>1, <2>3 DEF DisksGathered
    <3>2. batch \subseteq Machine /\ created' \subseteq known'
      BY <2>1 DEF TypeOK
    <3>3. Staged'
      BY <2>1, <2>2, <2>3, <3>1, <3>2 DEF Staged, Wanted
    <3> QED
      BY <3>1, <3>3, ForwardThorough
  <2>4. CASE known' # batch
    <3>1. Raise(IF mode = "single" THEN known' ELSE created) /\ defining' = defining
      BY <1>1, <2>4 DEF DisksGathered
    <3>2. mode = "single" => known' = {}
      BY <2>2, <2>4 DEF Staged
    <3>3. Raise({}) /\ Undone' = {}
      BY <2>1, <3>1, <3>2 DEF Undone
    <3>4. Thorough'
      BY <2>1, <3>3, RaiseThorough
    <3>5. Staged'
      BY <2>1, <2>2, <3>1, <3>3 DEF Staged, Wanted, Raise
    <3> QED
      BY <3>4, <3>5
  <2> QED
    BY <2>3, <2>4
<1>2. CASE DefinesGathered
  <2>1. /\ pc = "define" /\ known = batch
        /\ UNCHANGED <<mode, batch, making, defining, volumes, domains, known, rows, slipped>>
        /\ \A m \in batch : defining[m] # "running"
        /\ created' = IF mode = "bulk" THEN Prefix ELSE created
        /\ created = {}
    BY <1>2 DEF DefinesGathered, Staged
  <2>2. \A m \in Prefix : m \in batch /\ defining[m] = "done"
    BY DEF Prefix, TypeOK, Machine
  <2>3. created' \subseteq known /\ \A m \in created' : defining[m] = "done"
    BY <2>1, <2>2
  <2>4. CASE Prefix = batch
    <3>1. pc' = "commit"
      BY <1>2, <2>4 DEF DefinesGathered
    <3> QED
      BY <2>1, <2>3, <3>1, ForwardThorough DEF Staged, Wanted, AllMade
  <2>5. CASE Prefix # batch
    <3>1. Raise(IF mode = "single" THEN known ELSE Prefix)
      BY <1>2, <2>5 DEF DefinesGathered
    <3>2. Undone' = IF mode = "single" THEN known ELSE Prefix
      BY <2>1 DEF Undone, TypeOK
    <3>3. Undone' \in SUBSET Machine
      BY <2>2, <3>2 DEF TypeOK
    <3>4. ASSUME mode = "single", NEW m \in known PROVE defining[m] = "failed"
      <4>1. batch = {1} /\ m = 1 /\ 1 \in Machine
        BY <2>1, <3>4 DEF Staged, TypeOK
      <4>2. 1 \notin Prefix
        BY <2>2, <2>5, <4>1
      <4>3. \A k \in 1..1 : k = 1
        OBVIOUS
      <4>4. defining[1] # "done"
        BY <4>1, <4>2, <4>3 DEF Prefix
      <4>5. defining[1] # "none"
        BY <2>1, <4>1 DEF Staged
      <4> QED
        BY <2>1, <4>1, <4>4, <4>5 DEF TypeOK, Thread
    <3>5. Thorough'
      BY <2>1, <3>1, <3>2, <3>3, <3>4, RaiseThorough
    <3>6. Staged'
      BY <2>1, <2>3, <3>1 DEF Staged, Wanted, Raise, AllMade
    <3> QED
      BY <3>5, <3>6
  <2> QED
    BY <2>4, <2>5
<1> QED
  BY <1>1, <1>2
\* A thread that ends finds its machine still to be gathered, or not undone.
LEMMA ThreadStaged ==
    ASSUME TypeOK, Sound, Staged, Thorough,
           \/ \E v \in Volume : DiskMade(v) \/ DiskFails(v)
           \/ \E m \in Machine : Define(m) \/ DefineFails(m)
    PROVE  Staged' /\ Thorough'
<1>1. ASSUME NEW v \in Volume, DiskMade(v) \/ DiskFails(v) PROVE Staged' /\ Thorough'
  <2>1. /\ making[v] = "running" /\ making'[v] # "none"
        /\ \A w \in Volume : w # v => making'[w] = making[w]
        /\ volumes' \subseteq volumes \cup {v}
        /\ UNCHANGED <<mode, batch, pc, defining, domains, known, created, undo, unmaking,
                       rows, slipped>>
    BY <1>1 DEF DiskMade, DiskFails, TypeOK
  <2>2. \A m \in known : v \notin VolumesOf(m)
    BY <2>1 DEF Staged, AllMade
  <2>3. known \subseteq Machine /\ \A m \in Machine : VolumesOf(m) \subseteq Volume
    BY DEF TypeOK, VolumesOf, Volume
  <2>4. \A m \in known : AllMade(m)'
    BY <2>1, <2>2, <2>3 DEF Staged, AllMade, VolumesOf
  <2>5. Staged'
    BY <2>1, <2>4 DEF Staged, Wanted
  <2>6. ASSUME pc \in {"undo", "failed"}, ~slipped, NEW m \in Undone PROVE Undoing(m)'
    <3>1. v \notin VolumesOf(m) /\ Undoing(m)
      BY <2>2, <2>6 DEF Undone, Staged, Thorough
    <3> QED
      BY <2>1, <3>1 DEF Undoing, VolumesOf
  <2> QED
    BY <2>1, <2>5, <2>6 DEF Thorough, Undone
<1>2. ASSUME NEW k \in Machine, Define(k) \/ DefineFails(k) PROVE Staged' /\ Thorough'
  <2>1. /\ defining[k] = "running" /\ defining'[k] \in {"done", "failed"}
        /\ \A m \in Machine : m # k => defining'[m] = defining[m]
        /\ domains' \subseteq domains \cup {k}
        /\ k \in domains' \ domains => defining'[k] = "done"
        /\ UNCHANGED <<mode, batch, pc, making, volumes, known, created, undo, unmaking,
                       rows, slipped>>
    BY <1>2 DEF Define, DefineFails, TypeOK
  <2>2. k \notin created /\ k \notin domains
    BY <2>1 DEF Staged
  <2>3. created \subseteq Machine /\ domains \subseteq Machine /\ batch \subseteq Machine
    BY DEF TypeOK
  <2>4. \A m \in known : AllMade(m)'
    BY <2>1 DEF Staged, AllMade, VolumesOf
  <2>5. Staged'
    BY <2>1, <2>2, <2>3, <2>4 DEF Staged, Wanted
  <2>6. ASSUME pc \in {"undo", "failed"}, ~slipped, NEW m \in Undone PROVE Undoing(m)'
    <3>1. Undoing(m) /\ m \in Machine
      BY <2>6 DEF Thorough, Undone, TypeOK
    <3>2. CASE mode = "single"
      <4>1. m # k /\ defining'[m] = "failed"
        BY <2>1, <3>1, <3>2 DEF Undoing
      <4> QED
        BY <2>1, <3>1, <3>2, <4>1 DEF Undoing, VolumesOf
    <3>3. CASE mode # "single"
      <4>1. m # k
        BY <2>2, <2>6, <3>3 DEF Undone
      <4> QED
        BY <2>1, <3>1, <3>3, <4>1 DEF Undoing, VolumesOf
    <3> QED
      BY <3>2, <3>3
  <2> QED
    BY <2>1, <2>5, <2>6 DEF Thorough, Undone
<1> QED
  BY <1>1, <1>2

\* A step of the undoing keeps what the stages have left, but for what it removes.
LEMMA UndoingStaged ==
    ASSUME TypeOK, Sound, Staged, Thorough,
           \/ \E v \in Volume : Unmake(v) \/ UnmakeFails(v)
           \/ \E m \in Machine : XmlUnread(m) \/ DisksUnmade(m) \/ UnmakeRaises(m)
                                 \/ Undefine(m) \/ UndefineFails(m)
    PROVE  Staged' /\ Thorough'
<1>1. /\ UNCHANGED <<mode, batch, pc, making, defining, known, created, rows>>
      /\ domains' \subseteq domains
    BY DEF Unmake, UnmakeFails, XmlUnread, DisksUnmade, UnmakeRaises, Undefine, UndefineFails
<1>2. Staged'
  <2>1. \A m \in known : AllMade(m)'
    BY <1>1 DEF Staged, AllMade, VolumesOf
  <2> QED
    BY <1>1, <2>1 DEF Staged, Wanted
<1>3. ASSUME NEW v \in Volume, Unmake(v), pc \in {"undo", "failed"}, ~slipped,
             NEW m \in Undone
      PROVE  Undoing(m)'
  <2>1. Undoing(m)
    BY <1>3 DEF Thorough
  <2>2. /\ volumes' = volumes \ {v} /\ unmaking' = unmaking \ {v}
        /\ UNCHANGED <<mode, pc, defining, domains, undo>>
    BY <1>3 DEF Unmake
  <2> QED
    BY <2>1, <2>2 DEF Undoing, VolumesOf
<1>4. ASSUME NEW k \in Machine, DisksUnmade(k) \/ Undefine(k),
             pc \in {"undo", "failed"}, ~slipped, NEW m \in Undone
      PROVE  Undoing(m)'
  <2>1. Undoing(m) /\ m \in Machine
    BY <1>4 DEF Thorough, Undone, TypeOK
  <2>2. UNCHANGED <<mode, pc, volumes, unmaking, defining>>
    BY <1>4 DEF DisksUnmade, Undefine
  <2>3. CASE m = k
    <3>1. CASE DisksUnmade(k)
      <4>1. undo[k] = "disks" /\ unmaking \cap VolumesOf(k) = {}
            /\ undo'[k] = "undefine" /\ domains' = domains
        BY <3>1 DEF DisksUnmade, TypeOK
      <4> QED
        BY <2>1, <2>2, <2>3, <4>1 DEF Undoing, VolumesOf
    <3>2. CASE Undefine(k)
      <4>1. /\ undo[k] = "undefine" /\ undo'[k] = "undone"
            /\ mode = "bulk" => k \notin domains'
        BY <3>2 DEF Undefine, TypeOK
      <4> QED
        BY <2>1, <2>2, <2>3, <4>1 DEF Undoing, VolumesOf
    <3> QED
      BY <1>4, <3>1, <3>2
  <2>4. CASE m # k
    <3>1. undo'[m] = undo[m]
      BY <1>4, <2>1, <2>4 DEF DisksUnmade, Undefine, TypeOK
    <3> QED
      BY <1>1, <2>1, <2>2, <3>1 DEF Undoing, VolumesOf
  <2> QED
    BY <2>3, <2>4
<1>5. ASSUME \/ \E v \in Volume : UnmakeFails(v)
             \/ \E m \in Machine : XmlUnread(m) \/ UnmakeRaises(m) \/ UndefineFails(m)
      PROVE  Thorough'
  BY <1>5, SlippedThorough DEF UnmakeFails, XmlUnread, UnmakeRaises, UndefineFails
<1>6. ASSUME \/ \E v \in Volume : Unmake(v)
             \/ \E m \in Machine : DisksUnmade(m) \/ Undefine(m)
      PROVE  Thorough'
  <2>1. slipped' = slipped
    BY <1>6 DEF Unmake, DisksUnmade, Undefine
  <2>2. Undone' = Undone
    BY <1>1 DEF Undone
  <2> QED
    BY <1>1, <1>3, <1>4, <1>6, <2>1, <2>2 DEF Thorough
<1> QED
  BY <1>2, <1>5, <1>6

LEMMA NextStaged == TypeOK /\ Sound /\ Staged /\ Thorough /\ [Next]_vars => Staged' /\ Thorough'
<1> SUFFICES ASSUME TypeOK, Sound, Staged, Thorough, [Next]_vars PROVE Staged' /\ Thorough'
  OBVIOUS
<1>1. CASE Begin
  <2>1. mode' = "single" => batch' \subseteq {1}
    BY <1>1 DEF Begin
  <2>2. \A v \in Volume : making'[v] = "none"
    BY <1>1 DEF Begin, Staged
  <2> QED
    BY <1>1, <2>1, <2>2, ForwardThorough DEF Begin, Staged
<1>2. CASE Insert
  <2>1. \A v \in Volume : making'[v] # "none" => v \in Wanted
    BY <1>2 DEF Insert
  <2> QED
    BY <1>2, <2>1, ForwardThorough DEF Insert, Staged, Wanted
<1>3. CASE InsertFails
  <2>1. /\ pc = "insert" /\ known = {} /\ created = {} /\ Raise({})
        /\ UNCHANGED <<mode, batch, making, defining, volumes, domains, known, created, rows>>
    BY <1>3 DEF InsertFails, Staged
  <2>2. Thorough'
    BY <2>1, RaiseThorough DEF Undone
  <2>3. Staged'
    BY <2>1 DEF Staged, Wanted, Raise
  <2> QED
    BY <2>2, <2>3
<1>4. CASE DisksGathered \/ DefinesGathered
  BY <1>4, GatherStaged
<1>5. CASE Commit
  <2>1. \A m \in known : AllMade(m)'
    BY <1>5 DEF Commit, Staged, AllMade, VolumesOf
  <2> QED
    BY <1>5, <2>1, ForwardThorough DEF Commit, Staged, Wanted
<1>6. CASE CommitFails
  <2>1. \A m \in known : AllMade(m)'
    BY <1>6 DEF CommitFails, Staged, AllMade, VolumesOf
  <2> QED
    BY <1>6, <2>1, SlippedThorough DEF CommitFails, Staged, Wanted
<1>7. CASE Undo
  <2>1. /\ pc = "undo" /\ pc' = "failed" /\ \A m \in Machine : undo[m] \in {"no", "undone"}
        /\ UNCHANGED <<mode, batch, making, defining, volumes, domains, known, created, undo,
                       unmaking, rows, slipped>>
    BY <1>7 DEF Undo
  <2>2. \A m \in known : AllMade(m)'
    BY <2>1 DEF Staged, AllMade, VolumesOf
  <2>3. Staged'
    BY <2>1, <2>2 DEF Staged, Wanted
  <2>4. ASSUME ~slipped, NEW m \in Undone PROVE Undoing(m)'
    <3>1. Undoing(m) /\ m \in Machine
      BY <2>1, <2>4 DEF Thorough, Undone, TypeOK
    <3> QED
      BY <2>1, <3>1 DEF Undoing, VolumesOf
  <2> QED
    BY <2>1, <2>3, <2>4 DEF Thorough, Undone
<1>8. ASSUME \/ \E v \in Volume : Unmake(v) \/ UnmakeFails(v)
             \/ \E m \in Machine : XmlUnread(m) \/ DisksUnmade(m) \/ UnmakeRaises(m)
                                   \/ Undefine(m) \/ UndefineFails(m)
      PROVE  Staged' /\ Thorough'
  BY <1>8, UndoingStaged
<1>9. ASSUME \/ \E v \in Volume : DiskMade(v) \/ DiskFails(v)
             \/ \E m \in Machine : Define(m) \/ DefineFails(m)
      PROVE  Staged' /\ Thorough'
  BY <1>9, ThreadStaged
<1>10. CASE Crash
  <2>1. /\ pc' = "failed" /\ slipped' = TRUE
        /\ \A v \in Volume : /\ making'[v] = "done" <=> making[v] = "done"
                             /\ making'[v] = "none" <=> making[v] = "none"
        /\ \A m \in Machine : /\ defining'[m] = "done" <=> defining[m] = "done"
                              /\ defining'[m] = "none" <=> defining[m] = "none"
        /\ UNCHANGED <<mode, batch, volumes, domains, known, created, rows>>
    BY <1>10 DEF Crash
  <2>2. known \subseteq Machine /\ created \subseteq Machine /\ domains \subseteq Machine
    BY DEF TypeOK
  <2>3. \A m \in known : AllMade(m)'
    BY <2>1, <2>2 DEF Staged, AllMade, VolumesOf, Volume
  <2> QED
    BY <2>1, <2>2, <2>3, SlippedThorough DEF Staged, Wanted
<1>11. CASE UNCHANGED vars
  <2>1. \A m \in known : AllMade(m)'
    BY <1>11 DEF vars, Staged, AllMade, VolumesOf
  <2>2. Staged'
    BY <1>11, <2>1 DEF vars, Staged, Wanted
  <2>3. \A m \in Undone : Undoing(m) => Undoing(m)'
    BY <1>11 DEF vars, Undoing, VolumesOf
  <2> QED
    BY <1>11, <2>2, <2>3 DEF vars, Thorough, Undone
<1> QED
  BY <1>1, <1>2, <1>3, <1>4, <1>5, <1>6, <1>7, <1>8, <1>9, <1>10, <1>11
     DEF Next, Handler, Threads

LEMMA ThoroughInvariant == Spec => []Staged /\ []Thorough
<1>1. TypeOK /\ Sound /\ (Staged /\ Thorough) /\ [Next]_vars => (Staged /\ Thorough)'
  BY NextStaged
<1>2. Init => Staged /\ Thorough
  BY InitStaged
<1> QED
  BY <1>1, <1>2, SoundInvariant, TypeCorrect, PTL DEF Spec

\* For any number of machines and disks, whichever thread fails first: a failure
\* whose undoing nothing disturbs leaves no volume and no definition of the
\* machines it undoes.
THEOREM UndoingIsThorough == Spec => []UndoIsThorough
<1>1. TypeOK /\ Staged /\ Thorough => UndoIsThorough
  <2> SUFFICES ASSUME TypeOK, Staged, Thorough, pc = "failed", ~slipped, NEW m \in Undone
               PROVE  VolumesOf(m) \cap volumes = {} /\ m \notin domains
    BY DEF UndoIsThorough
  <2>1. Undoing(m) /\ undo[m] = "undone"
    BY DEF Thorough, Undoing
  <2>2. VolumesOf(m) \cap volumes = {}
    BY <2>1 DEF Undoing
  <2>3. m \notin domains
    BY <2>1 DEF Undoing, Staged, TypeOK
  <2> QED
    BY <2>2, <2>3
<1> QED
  BY <1>1, ThoroughInvariant, TypeCorrect, PTL

\* What a call that succeeds reports is final: no thread of its is left to change
\* it, whatever the batch.
THEOREM SuccessIsFinal == Spec => NothingAfterSuccess
<1>1. TypeOK /\ Sound /\ Staged /\ [Next]_vars =>
          (pc = "succeeded" => UNCHANGED <<volumes, domains, rows>>)
  <2> SUFFICES ASSUME TypeOK, Sound, Staged, [Next]_vars, pc = "succeeded"
               PROVE  UNCHANGED <<volumes, domains, rows>>
    OBVIOUS
  <2>1. /\ \A v \in Volume : making[v] # "running"
        /\ \A m \in Machine : defining[m] # "running" /\ undo[m] = "no"
        /\ unmaking = {}
    BY DEF Sound, Staged, Forward, TypeOK
  <2> QED
    BY <2>1 DEF Next, Handler, Threads, Crash, vars, Begin, Insert, InsertFails,
       DisksGathered, DefinesGathered, Commit, CommitFails, Undo, DiskMade, DiskFails,
       Unmake, UnmakeFails, Define, DefineFails, XmlUnread, DisksUnmade, UnmakeRaises,
       Undefine, UndefineFails
<1> QED
  BY <1>1, ThoroughInvariant, SoundInvariant, TypeCorrect, PTL DEF Spec, NothingAfterSuccess
=============================================================================
