------------------------- MODULE MachinePower_proofs -------------------------
(***************************************************************************)
(* Proofs about MachinePower for any set of requests and ports, any number *)
(* of shutdown flags and any timeout, and about MachineDeletion, which     *)
(* extends it, for any set of disks.                                       *)
(***************************************************************************)
EXTENDS MachineDeletion, TLAPS

\* Until an entry is stolen, a live task is the registered one.
Registered == ~stolen => \A r \in Request : Alive(r) => vmTask = r

\* A stop task keeps no port and counts FlagCount + 1 only after destroy().
Shape(r) ==
    task[r].kind = "stop" =>
        /\ task[r].port = NoPort
        /\ task[r].pc \in {"ready", "flag"} => task[r].flag <= FlagCount
        /\ task[r].pc # "port"

\* From destroy() on the machine is off; a read port is the machine's.
Protected(r) ==
    /\ (task[r].kind = "stop" /\ task[r].pc = "poll" /\ task[r].flag > FlagCount)
          => dom = "off"
    /\ task[r].pc = "txn" =>
          IF task[r].kind = "stop" THEN dom = "off"
          ELSE dom # "off" => task[r].port = display

Truth == \A r \in Request : Shape(r) /\ (~stolen => Protected(r))

\* What was committed last describes the machine, and no task is there to change either.
Settled ==
    settled # "none" =>
        /\ ~stolen /\ \A r \in Request : ~Alive(r)
        /\ settled = "stop" => row = [started |-> FALSE, port |-> NoPort] /\ dom = "off"
        /\ settled = "start" => row.started /\ (dom # "off" => row.port = display)

-----------------------------------------------------------------------------
(* Type correctness.                                                        *)

LEMMA NoJobType == NoJob \in Job
BY PowerAssumption DEF NoJob, Job, Live, Finished, Result, Observed, Kind

LEMMA InitTypeOK == Init => TypeOK
<1> SUFFICES ASSUME Init PROVE TypeOK
  OBVIOUS
<1>1. dom \in DomState /\ display \in Port \cup {NoPort}
  BY DEF Init, DomState
<1>2. defined \in BOOLEAN /\ records \in BOOLEAN /\ stolen \in BOOLEAN
  BY DEF Init
<1>3. row \in [started : BOOLEAN, port : Port \cup {NoPort}]
  BY DEF Init
<1>6. settled \in Kind \cup {"none"}
  BY DEF Init
<1>4. loop \in Request \cup {NoTask} /\ vmTask \in Request \cup {NoTask}
  BY DEF Init
<1>5. call \in [Request -> Kind \cup {"idle"}] /\ task \in [Request -> Job]
  BY NoJobType DEF Init, Kind
<1> QED
  BY <1>1, <1>2, <1>3, <1>6, <1>4, <1>5 DEF TypeOK

\* What a step of a task stores is a job, if what it stores in it is typed.
LEMMA StepType ==
    ASSUME TypeOK, NEW r \in Request, NEW job \in Job, NEW holder \in Request \cup {NoTask},
           Step(r, job, holder),
           dom' \in DomState, display' \in Port \cup {NoPort}, defined' \in BOOLEAN,
           records' \in BOOLEAN, row' \in [started : BOOLEAN, port : Port \cup {NoPort}],
           settled' \in Kind \cup {"none"}
    PROVE  TypeOK'
BY DEF TypeOK, Step

\* The steps that leave libvirt and the database alone.
LEMMA QuietStepType ==
    ASSUME TypeOK, NEW r \in Request, NEW job \in Job, NEW holder \in Request \cup {NoTask},
           Step(r, job, holder), UNCHANGED <<libvirtVars, dbVars>>
    PROVE  TypeOK'
BY StepType DEF TypeOK, libvirtVars, dbVars

LEMMA EndsType ==
    ASSUME TypeOK, NEW r \in Request, NEW how \in Finished, NEW result \in Result,
           Ends(r, how, result), UNCHANGED <<libvirtVars, dbVars>>
    PROVE  TypeOK'
<1>1. [NoJob EXCEPT !.pc = how, !.kind = task[r].kind, !.result = result] \in Job
  BY NoJobType DEF TypeOK, Job
<1> QED
  BY <1>1, QuietStepType DEF Ends

LEMMA WaitedType ==
    ASSUME TypeOK, NEW r \in Request, NEW result \in Observed,
           Waited(r, result), UNCHANGED <<libvirtVars, dbVars>>
    PROVE  TypeOK'
<1> DEFINE job == [task[r] EXCEPT !.result = result, !.polls = 0]
<1>1. job \in Job
  <2>1. 0 \in 0..PollLimit
    BY PowerAssumption
  <2> QED
    BY <2>1 DEF TypeOK, Job, Result
<1>2. \A pc \in Live : [job EXCEPT !.pc = pc] \in Job
  BY <1>1 DEF Job
<1>3. CASE \E pc \in Live, holder \in {r, NoTask} : Step(r, [job EXCEPT !.pc = pc], holder)
  <2> PICK pc \in Live, holder \in {r, NoTask} : Step(r, [job EXCEPT !.pc = pc], holder)
    BY <1>3
  <2> HIDE DEF job
  <2> QED
    BY <1>2, QuietStepType
<1>4. CASE Ends(r, "returned", result)
  BY <1>4, EndsType DEF Finished, Result
<1> HIDE DEF job
<1> QED
  BY <1>3, <1>4 DEF Waited, Live, job

LEMMA TaskStepType ==
    ASSUME TypeOK, NEW r \in Request, TaskStep(r)
    PROVE  TypeOK'
<1>0. task[r] \in Job /\ task[r].result \in Result /\ task[r].flag \in Nat /\ task[r].polls \in Nat
  BY PowerAssumption DEF TypeOK, Job
<1>1. CASE Create(r)
  <2>1. [task[r] EXCEPT !.pc = "poll"] \in Job
    BY <1>0 DEF Job, Live
  <2> QED
    BY <1>1, <2>1, StepType DEF Create, DomState, TypeOK, dbVars
<1>2. CASE CreateFails(r)
  BY <1>2, EndsType DEF CreateFails, Finished, Result
<1>3. CASE StopBegins(r)
  <2>1. [task[r] EXCEPT !.pc = "flag"] \in Job
    BY <1>0 DEF Job, Live
  <2> QED
    BY <1>3, <2>1, QuietStepType DEF StopBegins
<1>4. CASE Flag(r)
  <2>1. task[r].flag + 1 \in 0..FlagCount + 1
    BY <1>0, <1>4, PowerAssumption DEF Flag
  <2>2. [task[r] EXCEPT !.pc = "poll", !.flag = @ + 1] \in Job
    BY <1>0, <2>1 DEF Job, Live
  <2> QED
    BY <1>4, <2>2, QuietStepType DEF Flag
<1>5. CASE FlagFails(r)
  <2>1. task[r].flag + 1 \in 0..FlagCount + 1
    BY <1>0, <1>5, PowerAssumption DEF FlagFails
  <2>2. [task[r] EXCEPT !.flag = @ + 1] \in Job
    BY <1>0, <2>1 DEF Job
  <2> QED
    BY <1>5, <2>2, QuietStepType DEF FlagFails
<1>6. CASE Destroy(r)
  <2>1. task[r].flag + 1 \in 0..FlagCount + 1
    BY <1>0, <1>6, PowerAssumption DEF Destroy
  <2>2. [task[r] EXCEPT !.pc = "poll", !.flag = @ + 1] \in Job
    BY <1>0, <2>1 DEF Job, Live
  <2> QED
    BY <1>6, <2>2, StepType DEF Destroy, DomState, TypeOK, dbVars
<1>7. CASE DestroyFails(r)
  BY <1>7, EndsType DEF DestroyFails, Finished, Result
<1>8. CASE PollSees(r)
  BY <1>8, WaitedType DEF PollSees, Observed
<1>9. CASE PollSleeps(r)
  <2>1. task[r].polls + 1 \in 0..PollLimit
    BY <1>0, <1>9, PowerAssumption DEF PollSleeps
  <2>2. [task[r] EXCEPT !.polls = @ + 1] \in Job
    BY <1>0, <2>1 DEF Job
  <2> QED
    BY <1>9, <2>2, QuietStepType DEF PollSleeps
<1>10. CASE PollTimesOut(r)
  BY <1>10, WaitedType DEF PollTimesOut, Observed
<1>11. CASE PollRaises(r)
  <2>1. [task[r] EXCEPT !.pc = "flag", !.polls = 0] \in Job
    <3>1. 0 \in 0..PollLimit
      BY PowerAssumption
    <3> QED
      BY <1>0, <3>1 DEF Job, Live
  <2>2. CASE task[r].kind = "stop" /\ task[r].flag <= FlagCount
    BY <1>11, <2>1, <2>2, QuietStepType DEF PollRaises
  <2>3. CASE ~(task[r].kind = "stop" /\ task[r].flag <= FlagCount)
    BY <1>11, <2>3, EndsType DEF PollRaises, Finished, Result
  <2> QED
    BY <2>2, <2>3
<1>12. CASE ReadPort(r)
  <2>1. [task[r] EXCEPT !.pc = "txn", !.port = display] \in Job
    BY <1>0 DEF Job, Live, TypeOK
  <2> QED
    BY <1>12, <2>1, QuietStepType DEF ReadPort
<1>13. CASE ReadPortFails(r)
  BY <1>13, EndsType DEF ReadPortFails, Finished, Result
<1>14. CASE Commit(r)
  <2>1. CASE records
    <3>1. [NoJob EXCEPT !.pc = "returned", !.kind = task[r].kind, !.result = "row"] \in Job
      BY NoJobType DEF TypeOK, Job, Finished, Result
    <3>2. row' \in [started : BOOLEAN, port : Port \cup {NoPort}]
      <4>1. row' = [started |-> task[r].kind = "start", port |-> task[r].port]
        BY <1>14, <2>1 DEF Commit
      <4>2. (task[r].kind = "start") \in BOOLEAN /\ task[r].port \in Port \cup {NoPort}
        BY <1>0 DEF Job
      <4> QED
        BY <4>1, <4>2
    <3>3. settled' \in Kind \cup {"none"}
      BY <1>0, <1>14, <2>1 DEF Commit, Settles, Job
    <3> QED
      BY <1>14, <2>1, <3>1, <3>2, <3>3, StepType DEF Commit, Ends, TypeOK, libvirtVars
  <2>2. CASE ~records
    BY <1>14, <2>2, EndsType DEF Commit, Finished, Result, dbVars
  <2> QED
    BY <2>1, <2>2
<1>15. CASE CommitFails(r)
  BY <1>0, <1>15, EndsType DEF CommitFails, Finished, Result
<1>16. CASE CommitCrashes(r)
  BY <1>16, EndsType DEF CommitCrashes, Finished, Result
<1>17. CASE StopFails(r)
  BY <1>17, EndsType DEF StopFails, Finished, Result
<1> QED
  BY <1>1, <1>2, <1>3, <1>4, <1>5, <1>6, <1>7, <1>8, <1>9, <1>10, <1>11, <1>12,
     <1>13, <1>14, <1>15, <1>16, <1>17 DEF TaskStep

LEMMA NextTypeOK == TypeOK /\ [Next]_vars => TypeOK'
<1> SUFFICES ASSUME TypeOK, [Next]_vars PROVE TypeOK'
  OBVIOUS
<1>1. CASE Guest
  BY <1>1 DEF TypeOK, Guest, GuestPowersOff, GuestLeavesRunning, GuestResumes, DomState, dbVars
<1>2. ASSUME NEW r \in Request, Arrive(r) PROVE TypeOK'
  <2> PICK kind \in Kind : Accept(r, kind)
    BY <1>2 DEF Arrive
  <2>1. [NoJob EXCEPT !.pc = "ready", !.kind = kind] \in Job
    BY NoJobType DEF Job, Live
  <2> QED
    BY <2>1 DEF TypeOK, Accept, Register, libvirtVars, dbVars
<1>3. ASSUME NEW r \in Request, TaskStep(r) PROVE TypeOK'
  BY <1>3, TaskStepType
<1>4. ASSUME NEW r \in Request, Resume(r) PROVE TypeOK'
  <2>1. vmTask' \in Request \cup {NoTask} /\ stolen' \in BOOLEAN
    BY <1>4 DEF TypeOK, Resume, Pop, Busy, Alive
  <2> QED
    BY <1>4, <2>1, NoJobType DEF TypeOK, Resume, libvirtVars, dbVars
<1>5. CASE Restart
  BY <1>5, NoJobType DEF TypeOK, Restart, libvirtVars, dbVars
<1>6. CASE UNCHANGED vars
  BY <1>6 DEF TypeOK, vars, libvirtVars, dbVars
<1> QED
  BY <1>1, <1>2, <1>3, <1>4, <1>5, <1>6 DEF Next, Serve

\* Every variable keeps its type in every state the system reaches.
THEOREM TypeCorrect == Spec => []TypeOK
<1> QED
  BY InitTypeOK, NextTypeOK, PTL DEF Spec
-----------------------------------------------------------------------------
(* The lock that vm_tasks makes, and what holds while it is kept.           *)

\* A task that takes a step was alive, and the step leaves the others, the
\* registration and the history alone.
LEMMA TaskStepFrame ==
    ASSUME TypeOK, NEW r \in Request, TaskStep(r)
    PROVE  /\ Alive(r)
           /\ UNCHANGED <<vmTask, stolen>>
           /\ \A s \in Request : s # r => task'[s] = task[s]
<1>1. Alive(r)
  BY DEF TaskStep, Create, CreateFails, StopBegins, StopFails, Flag, FlagFails, Destroy, DestroyFails,
         PollSees, PollSleeps, PollTimesOut, PollRaises, Polling, ReadPort, ReadPortFails,
         Commit, CommitFails, CommitCrashes, At, Alive, Live
<1>2. \E job, holder : Step(r, job, holder)
  BY DEF TaskStep, Create, CreateFails, StopBegins, StopFails, Flag, FlagFails, Destroy, DestroyFails,
         PollSees, PollSleeps, PollTimesOut, PollRaises, Waited, Ends, ReadPort,
         ReadPortFails, Commit, CommitFails, CommitCrashes
<1> QED
  BY <1>1, <1>2 DEF Step, TypeOK

LEMMA RegisteredStep ==
    ASSUME TypeOK, Registered, [Next]_vars
    PROVE  Registered'
<1> SUFFICES ASSUME ~stolen', NEW s \in Request, Alive(s)' PROVE vmTask' = s
  BY DEF Registered
<1>1. CASE Guest
  BY <1>1 DEF Guest, GuestPowersOff, GuestLeavesRunning, GuestResumes, Registered, Alive
<1>2. ASSUME NEW r \in Request, Arrive(r) PROVE vmTask' = s
  <2> PICK kind \in Kind : Accept(r, kind)
    BY <1>2 DEF Arrive
  <2>1. ~Alive(s)
    BY PowerAssumption DEF Accept, Register, Busy, Registered
  <2>2. s = r
    BY <2>1 DEF Accept, Register, Alive, TypeOK
  <2> QED
    BY <2>2 DEF Accept, Register
<1>3. ASSUME NEW r \in Request, TaskStep(r) PROVE vmTask' = s
  BY <1>3, TaskStepFrame DEF Registered, Alive
<1>4. ASSUME NEW r \in Request, Resume(r) PROVE vmTask' = s
  <2>1. s # r /\ Alive(s)
    BY <1>4 DEF Resume, Alive, NoJob, Live, TypeOK
  <2>2. vmTask = s /\ Busy
    BY <1>4, <2>1, PowerAssumption DEF Resume, Pop, Registered, Busy
  <2> QED
    BY <1>4, <2>1, <2>2 DEF Resume, Pop
<1>5. CASE Restart
  BY <1>5 DEF Restart, Alive, NoJob, Live
<1>6. CASE UNCHANGED vars
  BY <1>6 DEF vars, Registered, Alive
<1> QED
  BY <1>1, <1>2, <1>3, <1>4, <1>5, <1>6 DEF Next, Serve

\* Two live tasks would both be the registered one.
LEMMA RegisteredExcludes == Registered => OneTaskUnlessStolen
BY DEF Registered, OneTaskUnlessStolen

\* Until an entry is stolen, no start or stop task runs beside another, for any
\* number of requests: vm_tasks is a lock.
THEOREM OneTaskAtATime == Spec => []OneTaskUnlessStolen
<1>1. Init => Registered
  BY DEF Init, Registered, Alive, NoJob, Live
<1>2. TypeOK /\ Registered /\ [Next]_vars => Registered'
  BY RegisteredStep
<1> QED
  BY <1>1, <1>2, TypeCorrect, RegisteredExcludes, PTL DEF Spec

-----------------------------------------------------------------------------
(* What the lock protects.                                                  *)

LEMMA InitTruth == Init => Truth
<1> SUFFICES ASSUME Init, NEW r \in Request PROVE Shape(r) /\ Protected(r)
  BY DEF Truth
<1>1. task[r] = NoJob /\ vmTask # r
  BY PowerAssumption DEF Init
<1>2. task[r].pc = "none" /\ task[r].kind = "start"
  BY <1>1 DEF NoJob
<1> QED
  BY <1>1, <1>2 DEF Shape, Protected, Alive, Live

LEMMA TruthImplies == Truth => CommitIsTruthful
BY DEF Truth, Protected, CommitIsTruthful

LEMMA SettledImplies == Settled => RowMatchesMachine
BY DEF Settled, RowMatchesMachine

\* A task step keeps what is said of the other tasks: none of them is alive, and
\* none is registered.
LEMMA OthersKeepTruth ==
    ASSUME TypeOK, Registered, Truth, NEW r \in Request, TaskStep(r),
           NEW s \in Request, s # r
    PROVE  Shape(s)' /\ (~stolen' => Protected(s)')
<1>1. task'[s] = task[s] /\ UNCHANGED <<vmTask, stolen>>
  BY TaskStepFrame
<1>2. ~stolen => ~Alive(s) /\ vmTask # s
  BY TaskStepFrame DEF Registered
<1>3. Shape(s)'
  BY <1>1 DEF Truth, Shape, Alive
<1>4. task[s].pc \notin {"poll", "txn"} => Protected(s)' \/ vmTask = s
  BY <1>1 DEF Protected
<1> QED
  BY <1>1, <1>2, <1>3, <1>4 DEF Alive, Live

LEMMA StepJob ==
    ASSUME TypeOK, NEW r \in Request, NEW job, NEW holder, Step(r, job, holder)
    PROVE  task'[r] = job
BY DEF TypeOK, Step

\* How a job that ended looks.
LEMMA EndedJob ==
    ASSUME TypeOK, NEW r \in Request, NEW how, NEW result, Ends(r, how, result)
    PROVE  /\ task'[r].pc = how /\ task'[r].kind = task[r].kind
           /\ task'[r].result = result /\ task'[r].port = NoPort
<1>1. task'[r] = [NoJob EXCEPT !.pc = how, !.kind = task[r].kind, !.result = result]
  BY StepJob DEF Ends
<1> QED
  BY <1>1 DEF NoJob

\* A job that ends with nothing committed claims nothing.
LEMMA EndsTruth ==
    ASSUME TypeOK, NEW r \in Request, NEW how \in Finished, NEW result,
           Ends(r, how, result)
    PROVE  Shape(r)' /\ Protected(r)'
BY EndedJob DEF Shape, Protected, Finished, Alive, Live

\* How the job looks after a wait that returned: the task goes on, or a start
\* gives up.
LEMMA WaitedJob ==
    ASSUME TypeOK, NEW r \in Request, NEW result \in Observed, Waited(r, result)
    PROVE  \/ Ends(r, "returned", result)
           \/ /\ \/ task'[r].pc = "port" /\ task[r].kind = "start"
                 \/ task'[r].pc = "flag" /\ task[r].flag <= FlagCount
                 \/ /\ task'[r].pc = "txn" /\ task[r].kind = "stop"
                    /\ task[r].flag > FlagCount
              /\ task'[r].kind = task[r].kind /\ task'[r].result = result
              /\ task'[r].port = task[r].port /\ task'[r].flag = task[r].flag
<1> DEFINE job == [task[r] EXCEPT !.result = result, !.polls = 0]
<1>0. task[r] \in Job /\ job.kind = task[r].kind /\ job.flag = task[r].flag
  BY DEF TypeOK, Job
<1>1. ASSUME NEW pc \in {"port", "flag", "txn"}, NEW holder,
             Step(r, [job EXCEPT !.pc = pc], holder)
      PROVE  /\ task'[r].pc = pc /\ task'[r].kind = task[r].kind
             /\ task'[r].result = result /\ task'[r].port = task[r].port
             /\ task'[r].flag = task[r].flag
  <2>1. task'[r] = [job EXCEPT !.pc = pc]
    BY <1>1, StepJob
  <2> QED
    BY <1>0, <2>1 DEF Job
<1>2. \/ Ends(r, "returned", result)
      \/ Step(r, [job EXCEPT !.pc = "port"], r) /\ task[r].kind = "start"
      \/ Step(r, [job EXCEPT !.pc = "flag"], r) /\ task[r].flag <= FlagCount
      \/ /\ Step(r, [job EXCEPT !.pc = "txn"], NoTask)
         /\ task[r].kind = "stop" /\ task[r].flag > FlagCount
  BY <1>0 DEF Waited
<1> HIDE DEF job
<1> QED
  BY <1>1, <1>2

LEMMA WaitedShape ==
    ASSUME TypeOK, NEW r \in Request, NEW result \in Observed, Waited(r, result), Shape(r)
    PROVE  Shape(r)'
<1>1. CASE Ends(r, "returned", result)
  BY <1>1, EndsTruth DEF Finished, Observed
<1> QED
  BY <1>1, WaitedJob DEF Shape, Observed

LEMMA WaitedTruth ==
    ASSUME TypeOK, NEW r \in Request, NEW result \in Observed, Waited(r, result),
           Protected(r), task[r].pc = "poll", dom' = dom
    PROVE  Protected(r)'
<1>1. CASE Ends(r, "returned", result)
  BY <1>1, EndsTruth DEF Finished, Observed
<1> QED
  BY <1>1, WaitedJob DEF Protected

LEMMA OwnTruth ==
    ASSUME TypeOK, Registered, Truth, NEW r \in Request, TaskStep(r)
    PROVE  Shape(r)' /\ (~stolen' => Protected(r)')
<1>0. /\ task[r] \in Job /\ task[r].flag \in Nat
      /\ UNCHANGED <<vmTask, stolen>>
      /\ Alive(r) /\ Shape(r) /\ (~stolen => Protected(r))
  BY TaskStepFrame, PowerAssumption DEF TypeOK, Truth, Job
<1>1. CASE Create(r)
  <2>1. task'[r] = [task[r] EXCEPT !.pc = "poll"] /\ task[r].kind = "start"
    BY <1>1, StepJob DEF Create, At
  <2>2. task'[r].pc = "poll" /\ task'[r].kind = "start"
    BY <1>0, <2>1 DEF Job
  <2> QED
    BY <1>0, <2>2 DEF Shape, Protected
<1>2. CASE CreateFails(r)
  BY <1>2, EndsTruth DEF CreateFails, Finished
<1>3. CASE StopBegins(r)
  <2>1. task'[r] = [task[r] EXCEPT !.pc = "flag"]
        /\ task[r].kind = "stop" /\ task[r].pc = "ready"
    BY <1>3, StepJob DEF StopBegins, At
  <2>2. task'[r].pc = "flag"
        /\ task'[r].port = task[r].port /\ task'[r].flag = task[r].flag
    BY <1>0, <2>1 DEF Job
  <2>3. task'[r].flag <= FlagCount /\ task'[r].port = NoPort
    BY <1>0, <2>1, <2>2 DEF Shape
  <2> QED
    BY <2>2, <2>3 DEF Shape, Protected
<1>4. CASE Flag(r)
  <2>1. task'[r] = [task[r] EXCEPT !.pc = "poll", !.flag = @ + 1] /\ task[r].flag < FlagCount
    BY <1>4, StepJob DEF Flag
  <2>2. task'[r].pc = "poll"
        /\ task'[r].kind = task[r].kind /\ task'[r].port = task[r].port
        /\ task'[r].flag = task[r].flag + 1
    BY <1>0, <2>1 DEF Job
  <2>3. ~(task'[r].flag > FlagCount)
    BY <1>0, <2>1, <2>2, PowerAssumption
  <2> QED
    BY <1>0, <2>2, <2>3 DEF Shape, Protected
<1>5. CASE FlagFails(r)
  <2>1. task'[r] = [task[r] EXCEPT !.flag = @ + 1] /\ task[r].flag < FlagCount
        /\ task[r].pc = "flag"
    BY <1>5, StepJob DEF FlagFails, At
  <2>2. task'[r].pc = "flag"
        /\ task'[r].kind = task[r].kind /\ task'[r].port = task[r].port
        /\ task'[r].flag = task[r].flag + 1
    BY <1>0, <2>1 DEF Job
  <2>3. task'[r].flag <= FlagCount
    BY <1>0, <2>1, <2>2, PowerAssumption
  <2> QED
    BY <1>0, <2>2, <2>3 DEF Shape, Protected
<1>6. CASE Destroy(r)
  <2>1. task'[r] = [task[r] EXCEPT !.pc = "poll", !.flag = @ + 1] /\ dom' = "off"
    BY <1>6, StepJob DEF Destroy
  <2>2. task'[r].pc = "poll"
        /\ task'[r].kind = task[r].kind /\ task'[r].port = task[r].port
    BY <1>0, <2>1 DEF Job
  <2> QED
    BY <1>0, <2>1, <2>2 DEF Shape, Protected
<1>7. CASE DestroyFails(r)
  BY <1>0, <1>7, EndsTruth DEF DestroyFails, Finished
<1>8. CASE PollSees(r)
  <2>1. PICK result \in Observed : Waited(r, result)
    BY <1>8 DEF PollSees, Observed
  <2>2. task[r].pc = "poll" /\ dom' = dom
    BY <1>8 DEF PollSees, Polling, libvirtVars
  <2> QED
    BY <1>0, <2>1, <2>2, WaitedShape, WaitedTruth
<1>9. CASE PollSleeps(r)
  <2>1. task'[r] = [task[r] EXCEPT !.polls = @ + 1] /\ task[r].pc = "poll"
        /\ dom' = dom
    BY <1>9, StepJob DEF PollSleeps, Polling, libvirtVars
  <2>2. task'[r].pc = "poll"
        /\ task'[r].kind = task[r].kind /\ task'[r].port = task[r].port
        /\ task'[r].flag = task[r].flag
    BY <1>0, <2>1 DEF Job
  <2> QED
    BY <1>0, <2>1, <2>2 DEF Shape, Protected
<1>10. CASE PollTimesOut(r)
  <2>1. Waited(r, "unknown") /\ task[r].pc = "poll" /\ dom' = dom
    BY <1>10 DEF PollTimesOut, libvirtVars
  <2> QED
    BY <1>0, <2>1, WaitedShape, WaitedTruth DEF Observed
<1>11. CASE PollRaises(r)
  <2>1. CASE task[r].kind = "stop" /\ task[r].flag <= FlagCount
    <3>1. task'[r] = [task[r] EXCEPT !.pc = "flag", !.polls = 0]
      BY <1>11, <2>1, StepJob DEF PollRaises
    <3>2. task'[r].pc = "flag"
          /\ task'[r].kind = task[r].kind /\ task'[r].port = task[r].port
          /\ task'[r].flag = task[r].flag
      BY <1>0, <3>1 DEF Job
    <3> QED
      BY <1>0, <2>1, <3>2 DEF Shape, Protected
  <2>2. CASE ~(task[r].kind = "stop" /\ task[r].flag <= FlagCount)
    BY <1>11, <2>2, EndsTruth DEF PollRaises, Finished
  <2> QED
    BY <2>1, <2>2
<1>12. CASE ReadPort(r)
  <2>1. task'[r] = [task[r] EXCEPT !.pc = "txn", !.port = display]
        /\ task[r].pc = "port" /\ UNCHANGED <<dom, display>>
    BY <1>12, StepJob DEF ReadPort, libvirtVars
  <2>2. task'[r].pc = "txn"
        /\ task'[r].kind = task[r].kind /\ task'[r].port = display
    BY <1>0, <2>1 DEF Job
  <2> QED
    BY <1>0, <2>1, <2>2 DEF Shape, Protected
<1>13. CASE ReadPortFails(r)
  BY <1>13, EndsTruth DEF ReadPortFails, Finished
<1>14. CASE Commit(r)
  <2>1. CASE records
    <3>1. Ends(r, "returned", "row") /\ UNCHANGED <<dom, display>> /\ task[r].pc = "txn"
      BY <1>14, <2>1 DEF Commit, libvirtVars
    <3>2. row' = [started |-> task[r].kind = "start", port |-> task[r].port]
      BY <1>14, <2>1 DEF Commit
    <3>3. Shape(r)'
      BY <3>1, EndedJob DEF Shape, Alive, Live
    <3>4. CASE task[r].kind = "stop"
      BY <1>0, <3>1, <3>2, <3>3, <3>4, EndedJob DEF Protected, Shape
    <3>5. CASE task[r].kind = "start"
      <4>1. row'.started
        BY <3>2, <3>5, Zenon
      <4>2. row'.port = task[r].port
        BY <3>2
      <4>3. task'[r].pc = "returned" /\ task'[r].kind = "start"
        BY <3>1, <3>5, EndedJob
      <4> QED
        BY <1>0, <3>1, <3>3, <3>5, <4>1, <4>2, <4>3 DEF Protected
    <3> QED
      BY <1>0, <3>4, <3>5 DEF Job, Kind
  <2>2. CASE ~records
    BY <1>14, <2>2, EndsTruth DEF Commit, Finished
  <2> QED
    BY <2>1, <2>2
<1>15. CASE CommitFails(r)
  <2> PICK result \in {task[r].result, "lost"} : Ends(r, "returned", result)
    BY <1>15 DEF CommitFails
  <2> QED
    BY <1>0, EndsTruth DEF Finished, Shape
<1>16. CASE CommitCrashes(r)
  BY <1>16, EndsTruth DEF CommitCrashes, Finished
<1>17. CASE StopFails(r)
  BY <1>17, EndsTruth DEF StopFails, Finished
<1> QED
  BY <1>1, <1>2, <1>3, <1>4, <1>5, <1>6, <1>7, <1>8, <1>9, <1>10, <1>11, <1>12,
     <1>13, <1>14, <1>15, <1>16, <1>17 DEF TaskStep
\* Every step keeps Truth: a guest can only power off, leave RUNNING or resume,
\* an arrival comes when no task is alive, and a resumption frees its own slot.
LEMMA TruthStep ==
    ASSUME TypeOK, Registered, Truth, [Next]_vars
    PROVE  Truth'
<1> SUFFICES ASSUME NEW s \in Request PROVE Shape(s)' /\ (~stolen' => Protected(s)')
  BY DEF Truth
<1>0. Shape(s) /\ (~stolen => Protected(s))
  BY DEF Truth
<1>1. CASE Guest
  <2>1. UNCHANGED <<row, vmTask, task, stolen>>
    BY <1>1 DEF Guest, GuestPowersOff, GuestLeavesRunning, GuestResumes, dbVars
  <2>2. dom' = "off" \/ (dom # "off" /\ dom' # "off" /\ display' = display)
    BY <1>1 DEF Guest, GuestPowersOff, GuestLeavesRunning, GuestResumes
  <2>3. Shape(s)'
    BY <1>0, <2>1 DEF Shape, Alive
  <2> QED
    BY <1>0, <2>1, <2>2, <2>3 DEF Protected
<1>2. ASSUME NEW r \in Request, Arrive(r)
      PROVE  Shape(s)' /\ (~stolen' => Protected(s)')
  <2> PICK kind \in Kind : Accept(r, kind)
    BY <1>2 DEF Arrive
  <2>1. /\ task' = [task EXCEPT ![r] = [NoJob EXCEPT !.pc = "ready", !.kind = kind]]
        /\ vmTask' = r /\ ~Busy /\ UNCHANGED <<stolen, dom, display, row>>
    BY DEF Accept, Register, libvirtVars, dbVars
  <2>2. CASE s = r
    <3>1. task'[s] = [NoJob EXCEPT !.pc = "ready", !.kind = kind]
      BY <2>1, <2>2 DEF TypeOK
    <3>2. task'[s].pc = "ready" /\ task'[s].result = "unset" /\ task'[s].port = NoPort
          /\ task'[s].flag = 0
      BY <3>1 DEF NoJob
    <3>3. 0 <= FlagCount
      BY PowerAssumption
    <3> QED
      BY <3>2, <3>3 DEF Shape, Protected
  <2>3. CASE s # r
    <3>1. task'[s] = task[s] /\ vmTask' # s
      BY <2>1, <2>3 DEF TypeOK
    <3>2. ~stolen => ~Alive(s)
      BY <2>1, PowerAssumption DEF Registered, Busy
    <3>3. Shape(s)'
      BY <1>0, <3>1 DEF Shape, Alive
    <3>4. ~Alive(s) => Protected(s)'
      BY <3>1 DEF Protected, Alive, Live
    <3> QED
      BY <2>1, <3>2, <3>3, <3>4
  <2> QED
    BY <2>2, <2>3
<1>3. ASSUME NEW r \in Request, TaskStep(r)
      PROVE  Shape(s)' /\ (~stolen' => Protected(s)')
  BY <1>3, OwnTruth, OthersKeepTruth
<1>4. ASSUME NEW r \in Request, Resume(r)
      PROVE  Shape(s)' /\ (~stolen' => Protected(s)')
  <2>1. UNCHANGED <<dom, display, row>> /\ (stolen => stolen')
        /\ vmTask' \in {NoTask, vmTask}
    BY <1>4 DEF Resume, Pop, libvirtVars, dbVars
  <2>2. CASE s = r
    <3>1. task'[s] = NoJob
      BY <1>4, <2>2 DEF Resume, TypeOK
    <3>2. task'[s].pc = "none" /\ task'[s].kind = "start"
      BY <3>1 DEF NoJob
    <3> QED
      BY <3>2 DEF Shape, Protected, Alive, Live
  <2>3. CASE s # r
    <3>1. task'[s] = task[s]
      BY <1>4, <2>3 DEF Resume, TypeOK
    <3>2. Shape(s)'
      BY <1>0, <3>1 DEF Shape, Alive
    <3>3. vmTask' = s => vmTask = s
      BY <2>1, PowerAssumption
    <3> QED
      BY <1>0, <2>1, <3>1, <3>2, <3>3 DEF Protected
  <2> QED
    BY <2>2, <2>3
<1>5. CASE Restart
  <2>1. task'[s].pc = "none" /\ task'[s].kind = "start"
    BY <1>5 DEF Restart, NoJob
  <2> QED
    BY <2>1 DEF Shape, Protected, Alive, Live
<1>6. CASE UNCHANGED vars
  BY <1>0, <1>6 DEF vars, libvirtVars, dbVars, Shape, Protected, Alive
<1> QED
  BY <1>1, <1>2, <1>3, <1>4, <1>5, <1>6 DEF Next, Serve

\* What was settled stays so until a task is registered: the guest alone cannot start the
\* machine or move its port, and without a live task nothing else happens to it.
LEMMA SettledStep ==
    ASSUME TypeOK, Registered, Truth, Settled, [Next]_vars
    PROVE  Settled'
<1> SUFFICES ASSUME settled' # "none"
             PROVE  /\ ~stolen' /\ \A s \in Request : ~Alive(s)'
                    /\ settled' = "stop" => row' = [started |-> FALSE, port |-> NoPort] /\ dom' = "off"
                    /\ settled' = "start" => row'.started /\ (dom' # "off" => row'.port = display')
  BY DEF Settled
<1>1. CASE Guest
  <2>1. UNCHANGED <<row, settled, task, stolen>>
    BY <1>1 DEF Guest, GuestPowersOff, GuestLeavesRunning, GuestResumes, dbVars
  <2>2. (dom = "off" => dom' = "off") /\ (dom' = "off" \/ (dom # "off" /\ display' = display))
    BY <1>1 DEF Guest, GuestPowersOff, GuestLeavesRunning, GuestResumes
  <2> QED
    BY <2>1, <2>2 DEF Settled, Alive
<1>2. ASSUME NEW r \in Request, Arrive(r) PROVE FALSE
  BY <1>2 DEF Arrive, Accept, Register
<1>3. ASSUME NEW r \in Request, Commit(r), records
      PROVE  /\ ~stolen' /\ \A s \in Request : ~Alive(s)'
             /\ settled' = "stop" => row' = [started |-> FALSE, port |-> NoPort] /\ dom' = "off"
             /\ settled' = "start" => row'.started /\ (dom' # "off" => row'.port = display')
  <2>1. /\ row' = [started |-> task[r].kind = "start", port |-> task[r].port]
        /\ settled' = IF stolen THEN "none" ELSE task[r].kind
        /\ Ends(r, "returned", "row") /\ task[r].pc = "txn"
        /\ UNCHANGED <<dom, display>>
    BY <1>3 DEF Commit, Settles, libvirtVars
  <2>2. ~stolen /\ settled' = task[r].kind /\ Shape(r) /\ Protected(r)
    BY <2>1 DEF Truth
  <2>3. stolen' = stolen /\ Alive(r) /\ \A s \in Request : s # r => task'[s] = task[s]
    BY <1>3, TaskStepFrame DEF TaskStep
  <2>4. \A s \in Request : ~Alive(s)'
    BY <2>1, <2>2, <2>3, EndedJob DEF Registered, Alive, Live
  <2>5. settled' = "stop" => row' = [started |-> FALSE, port |-> NoPort] /\ dom' = "off"
    <3> SUFFICES ASSUME settled' = "stop" PROVE row' = [started |-> FALSE, port |-> NoPort] /\ dom' = "off"
      OBVIOUS
    <3>1. task[r].kind = "stop" /\ task[r].port = NoPort /\ dom = "off"
      BY <2>1, <2>2 DEF Shape, Protected
    <3>2. (task[r].kind = "start") = FALSE
      BY <3>1
    <3> QED
      BY <2>1, <3>1, <3>2
  <2>6. settled' = "start" => row'.started /\ (dom' # "off" => row'.port = display')
    <3> SUFFICES ASSUME settled' = "start" PROVE row'.started /\ (dom' # "off" => row'.port = display')
      OBVIOUS
    <3>1. task[r].kind = "start"
      BY <2>2
    <3>2. row'.started
      BY <2>1, <3>1, Zenon
    <3>3. row'.port = task[r].port
      BY <2>1
    <3>4. dom # "off" => task[r].port = display
      BY <2>1, <2>2, <3>1 DEF Protected
    <3> QED
      BY <2>1, <3>2, <3>3, <3>4
  <2> QED
    BY <2>2, <2>3, <2>4, <2>5, <2>6
<1>4. ASSUME NEW r \in Request, TaskStep(r), ~(Commit(r) /\ records) PROVE FALSE
  <2>1. Alive(r)
    BY <1>4, TaskStepFrame
  <2>2. settled' = settled
    BY <1>4 DEF TaskStep, Create, CreateFails, StopBegins, StopFails, Flag, FlagFails, Destroy, DestroyFails,
         PollSees, PollSleeps, PollTimesOut, PollRaises, ReadPort, ReadPortFails,
         Commit, CommitFails, CommitCrashes, dbVars
  <2> QED
    BY <2>1, <2>2 DEF Settled
<1>5. ASSUME NEW r \in Request, Resume(r)
      PROVE  /\ ~stolen' /\ \A s \in Request : ~Alive(s)'
             /\ UNCHANGED <<row, settled, dom, display>>
  <2>1. UNCHANGED <<row, settled, dom, display>> /\ task' = [task EXCEPT ![r] = NoJob]
    BY <1>5 DEF Resume, libvirtVars, dbVars
  <2>2. ~stolen /\ \A s \in Request : ~Alive(s)
    BY <2>1 DEF Settled
  <2>3. ~Busy
    BY <2>2 DEF Busy, TypeOK
  <2>4. ~stolen'
    BY <1>5, <2>2, <2>3 DEF Resume, Pop
  <2>5. \A s \in Request : ~Alive(s)'
    BY <2>1, <2>2 DEF Alive, NoJob, Live, TypeOK
  <2> QED
    BY <2>1, <2>4, <2>5
<1>6. CASE Restart
  <2>1. UNCHANGED <<row, settled, dom, display>> /\ ~stolen'
    BY <1>6 DEF Restart, libvirtVars, dbVars
  <2>2. \A s \in Request : ~Alive(s)'
    BY <1>6 DEF Restart, Alive, NoJob, Live
  <2> QED
    BY <2>1, <2>2 DEF Settled
<1>7. CASE UNCHANGED vars
  BY <1>7 DEF vars, libvirtVars, dbVars, Settled, Alive
<1> QED
  BY <1>1, <1>2, <1>3, <1>4, <1>5, <1>6, <1>7 DEF Next, Serve, Settled

LEMMA TruthInvariant == Spec => [](Truth /\ Settled)
<1>1. Init => Registered
  BY DEF Init, Registered, Alive, NoJob, Live
<1>2. TypeOK /\ Registered /\ [Next]_vars => Registered'
  BY RegisteredStep
<1>3. TypeOK /\ Registered /\ Truth /\ Settled /\ [Next]_vars => Truth' /\ Settled'
  BY TruthStep, SettledStep
<1>4. Init => Settled
  BY DEF Init, Settled
<1> QED
  BY <1>1, <1>2, <1>3, <1>4, InitTruth, TypeCorrect, PTL DEF Spec

\* For any number of requests, flags and polls, the values a task is about to
\* store are those of the machine as it is, as long as vm_tasks kept its entry.
THEOREM CommitsAreTruthful == Spec => []CommitIsTruthful
<1> QED
  BY TruthInvariant, TruthImplies, PTL

\* What the last start or stop has committed describes the machine until the next one is
\* registered, through late resumptions, refused requests, restarts of the API and all the
\* guest does by itself.
THEOREM RowsMatchMachine == Spec => []RowMatchesMachine
<1> QED
  BY TruthInvariant, SettledImplies, PTL
-----------------------------------------------------------------------------
(* The machine with its deletes.                                            *)

Deletion == [pc : {"idle", "xml", "stop", "stopping", "disks", "db", "undefine", "answer"},
             xml : BOOLEAN, ok : BOOLEAN, left : SUBSET Disk, raised : BOOLEAN]

DeletionTypeOK ==
    /\ disks \subseteq Disk
    /\ del \in [Request -> Deletion]
    /\ announced \in 0 .. 2

\* The delete has done its transaction without an error, and will be announced.
Confirms(d) == d.pc \in {"undefine", "answer"} /\ d.ok

\* One delete at most finds the rows, and it is announced once.
Told(is, counted, kept) ==
    /\ counted <= 1
    /\ kept \/ counted = 1 => \A r \in Request : ~Confirms(is[r])
    /\ kept => counted = 0
    /\ \A r, s \in Request : Confirms(is[r]) /\ Confirms(is[s]) => r = s

DeletionInv == TypeOK /\ Registered /\ Truth /\ Settled /\ DeletionTypeOK /\ Told(del, announced, records)

\* Rows or definition go, and nothing else that the tasks look at.
Removes ==
    /\ UNCHANGED <<dom, display, row, settled, loop, vmTask, call, task, stolen>>
    /\ defined' \in BOOLEAN /\ records' \in BOOLEAN

\* A step of a delete is one of MachinePower, or removes something.
LEMMA PowerFrame ==
    ASSUME TypeOK, [DeletionNext]_allVars
    PROVE  [Next]_vars \/ Removes
<1>1. CASE PowerStep
  BY <1>1 DEF PowerStep, PowerTurn, Next, Serve
<1>2. ASSUME NEW r \in Request, DeleteBegins(r) \/ Threads(r) \/ Coroutine(r)
      PROVE  [Next]_vars \/ Removes
  <2>1. CASE StopAccepted(r)
    BY <2>1 DEF StopAccepted, Next, Serve, Arrive, Kind
  <2>2. CASE StopReturns(r)
    BY <2>2 DEF StopReturns, Next, Serve
  <2>3. CASE DeleteRows(r) \/ Undefine(r)
    BY <2>3 DEF DeleteRows, Undefine, Removes, TypeOK, libvirtVars, dbVars
  <2>4. CASE UNCHANGED vars
    BY <2>4
  <2> QED
    BY <1>2, <2>1, <2>2, <2>3, <2>4
    DEF DeleteBegins, Threads, Coroutine, FetchXml, StopRefused, StopRaises, DeleteDisk, DeleteDiskFails,
        DisksGathered, DeleteRowsFails, UndefineFails, DeleteAnswered
<1>3. CASE DeletionRestart
  BY <1>3 DEF DeletionRestart, Next
<1>4. CASE UNCHANGED allVars
  BY <1>4 DEF allVars
<1>5. QED
  BY <1>1, <1>2, <1>3, <1>4 DEF DeletionNext, DeletionServe

LEMMA RemovesKeep ==
    ASSUME TypeOK, Registered, Truth, Settled, Removes
    PROVE  TypeOK' /\ Registered' /\ Truth' /\ Settled'
<1>1. TypeOK'
  BY DEF TypeOK, Removes
<1>2. Registered'
  BY DEF Registered, Removes, Alive
<1>3. ASSUME NEW r \in Request PROVE Shape(r)' /\ (~stolen' => Protected(r)')
  BY DEF Truth, Removes, Shape, Protected, Alive
<1>4. Settled'
  BY DEF Settled, Removes, Alive
<1>5. QED
  BY <1>1, <1>2, <1>3, <1>4 DEF Truth

LEMMA PowerKeeps ==
    ASSUME TypeOK, Registered, Truth, Settled, [DeletionNext]_allVars
    PROVE  TypeOK' /\ Registered' /\ Truth' /\ Settled'
  BY PowerFrame, RemovesKeep, NextTypeOK, RegisteredStep, TruthStep, SettledStep

\* The steps of MachinePower leave rows and definition where they are.
LEMMA PowerRemovesNothing ==
    ASSUME [Next]_vars
    PROVE  UNCHANGED <<records, defined>>
  BY DEF Next, Serve, Guest, GuestPowersOff, GuestLeavesRunning, GuestResumes, Arrive, Accept, Register,
         TaskStep, Create, CreateFails, StopBegins, StopFails, Flag, FlagFails, Destroy, DestroyFails,
         PollSees, PollSleeps, PollTimesOut, PollRaises, ReadPort, ReadPortFails,
         Commit, CommitFails, CommitCrashes, Resume, Restart, vars, libvirtVars, dbVars

-----------------------------------------------------------------------------
LEMMA NoDeletionType == NoDeletion \in Deletion /\ ~Confirms(NoDeletion)
  BY DEF NoDeletion, Deletion, Confirms

\* A delete goes on, and it was to be announced if it is now.
LEMMA DeletesKeep ==
    ASSUME DeletionTypeOK, Told(del, announced, records), NEW r \in Request, NEW d \in Deletion,
           Deletes(r, d), Confirms(d) => Confirms(del[r]),
           disks' \subseteq Disk, UNCHANGED <<announced, records>>
    PROVE  DeletionTypeOK' /\ Told(del, announced, records)'
<1>1. del'[r] = d /\ \A s \in Request : s # r => del'[s] = del[s]
  BY DEF Deletes, DeletionTypeOK
<1>2. DeletionTypeOK'
  BY DEF DeletionTypeOK, Deletes
<1>3. \A s \in Request : Confirms(del'[s]) => Confirms(del[s])
  BY <1>1
<1>4. Told(del', announced, records)
  BY <1>3 DEF Told
<1>5. QED
  BY <1>2, <1>4

\* How a delete goes on keeps its type.
LEMMA DeletionTypes ==
    ASSUME NEW d \in Deletion, NEW ok \in BOOLEAN, NEW raised \in BOOLEAN, NEW left \in SUBSET Disk
    PROVE  /\ [d EXCEPT !.pc = "stop", !.xml = ok, !.ok = ok] \in Deletion
           /\ [d EXCEPT !.pc = "stopping"] \in Deletion
           /\ [d EXCEPT !.pc = "disks", !.ok = ok, !.xml = FALSE, !.left = left] \in Deletion
           /\ [d EXCEPT !.left = left] \in Deletion
           /\ [d EXCEPT !.left = left, !.raised = raised] \in Deletion
           /\ [d EXCEPT !.pc = "db", !.raised = FALSE] \in Deletion
           /\ [d EXCEPT !.pc = "undefine", !.ok = ok] \in Deletion
           /\ [d EXCEPT !.pc = "answer"] \in Deletion
           /\ [d EXCEPT !.pc = "answer", !.ok = ok] \in Deletion
<1>1. [d EXCEPT !.pc = "stop", !.xml = ok, !.ok = ok] \in Deletion
  BY DEF Deletion
<1>2. [d EXCEPT !.pc = "stopping"] \in Deletion
  BY DEF Deletion
<1>3. [d EXCEPT !.pc = "disks", !.ok = ok, !.xml = FALSE, !.left = left] \in Deletion
  BY DEF Deletion
<1>4. [d EXCEPT !.left = left] \in Deletion
  BY DEF Deletion
<1>5. [d EXCEPT !.left = left, !.raised = raised] \in Deletion
  BY DEF Deletion
<1>6. [d EXCEPT !.pc = "db", !.raised = FALSE] \in Deletion
  BY DEF Deletion
<1>7. [d EXCEPT !.pc = "undefine", !.ok = ok] \in Deletion
  BY DEF Deletion
<1>8. [d EXCEPT !.pc = "answer"] \in Deletion
  BY DEF Deletion
<1>9. [d EXCEPT !.pc = "answer", !.ok = ok] \in Deletion
  BY DEF Deletion
<1>10. QED
  BY <1>1, <1>2, <1>3, <1>4, <1>5, <1>6, <1>7, <1>8, <1>9

\* Which of them are to be announced.
LEMMA DeletionConfirms ==
    ASSUME NEW d \in Deletion, NEW ok \in BOOLEAN, NEW raised \in BOOLEAN, NEW left \in SUBSET Disk
    PROVE  /\ ~Confirms([d EXCEPT !.pc = "stop", !.xml = ok, !.ok = ok])
           /\ ~Confirms([d EXCEPT !.pc = "stopping"])
           /\ ~Confirms([d EXCEPT !.pc = "disks", !.ok = ok, !.xml = FALSE, !.left = left])
           /\ Confirms([d EXCEPT !.left = left]) => Confirms(d)
           /\ Confirms([d EXCEPT !.left = left, !.raised = raised]) => Confirms(d)
           /\ ~Confirms([d EXCEPT !.pc = "db", !.raised = FALSE])
           /\ Confirms([d EXCEPT !.pc = "undefine", !.ok = ok]) => ok
           /\ d.pc = "undefine" /\ Confirms([d EXCEPT !.pc = "answer"]) => Confirms(d)
           /\ Confirms([d EXCEPT !.pc = "answer", !.ok = ok]) => ok
  BY SMT DEF Deletion, Confirms

LEMMA ThreadsKeep ==
    ASSUME TypeOK, DeletionTypeOK, Told(del, announced, records), NEW r \in Request, Threads(r)
    PROVE  DeletionTypeOK' /\ Told(del, announced, records)'
<1> DEFINE d == del[r]
<1>1. d \in Deletion /\ disks \subseteq Disk /\ d.left \subseteq Disk /\ d.ok \in BOOLEAN /\ d.raised \in BOOLEAN
  BY DEF DeletionTypeOK, Deletion
<1>2. CASE FetchXml(r)
  <2> PICK got \in BOOLEAN : Deletes(r, [d EXCEPT !.pc = "stop", !.xml = got, !.ok = got])
    BY <1>2 DEF FetchXml
  <2>1. UNCHANGED <<disks, announced, records>>
    BY <1>2 DEF FetchXml, vars, dbVars
  <2> QED
    BY <1>1, <2>1, DeletionTypes, DeletionConfirms, DeletesKeep
<1>3. CASE Undefine(r)
  <2>1. d.pc = "undefine" /\ Deletes(r, [d EXCEPT !.pc = "answer"]) /\ UNCHANGED <<disks, announced, records>>
    BY <1>3 DEF Undefine, dbVars
  <2> QED
    BY <1>1, <2>1, DeletionTypes, DeletionConfirms, DeletesKeep
<1>4. CASE UndefineFails(r)
  <2> PICK ok \in {d.ok, FALSE} : Deletes(r, [d EXCEPT !.pc = "answer", !.ok = ok])
    BY <1>4 DEF UndefineFails
  <2>1. d.pc = "undefine" /\ UNCHANGED <<disks, announced, records>>
    BY <1>4 DEF UndefineFails, vars, dbVars
  <2>2. ok \in BOOLEAN /\ (ok => Confirms(d))
    BY <1>1, <2>1 DEF Confirms
  <2> QED
    BY <1>1, <2>1, <2>2, DeletionTypes, DeletionConfirms, DeletesKeep
<1>5. ASSUME NEW disk \in Disk, DeleteDisk(r, disk)
      PROVE  DeletionTypeOK' /\ Told(del, announced, records)'
  <2>1. /\ Deletes(r, [d EXCEPT !.left = d.left \ {disk}])
        /\ disks' \subseteq Disk /\ UNCHANGED <<announced, records>>
    BY <1>1, <1>5 DEF DeleteDisk, vars, dbVars
  <2>2. d.left \ {disk} \in SUBSET Disk
    BY <1>1
  <2> QED
    BY <1>1, <2>1, <2>2, DeletionTypes, DeletionConfirms, DeletesKeep
<1>6. ASSUME NEW disk \in Disk, DeleteDiskFails(r, disk)
      PROVE  DeletionTypeOK' /\ Told(del, announced, records)'
  <2>1. PICK raises \in BOOLEAN :
          Deletes(r, [d EXCEPT !.left = d.left \ {disk}, !.raised = (d.raised \/ raises) /\ d.pc = "disks"])
    BY <1>6 DEF DeleteDiskFails
  <2>2. UNCHANGED <<disks, announced, records>>
    BY <1>6 DEF DeleteDiskFails, vars, dbVars
  <2>3. d.left \ {disk} \in SUBSET Disk /\ ((d.raised \/ raises) /\ d.pc = "disks") \in BOOLEAN
    BY <1>1
  <2> QED
    BY <1>1, <2>1, <2>2, <2>3, DeletionTypes, DeletionConfirms, DeletesKeep
<1>7. QED
  BY <1>2, <1>3, <1>4, <1>5, <1>6 DEF Threads

\* The disks a delete is to remove now.
LEMMA ToDisksKeeps ==
    ASSUME DeletionTypeOK, Told(del, announced, records), NEW r \in Request, NEW ok \in BOOLEAN,
           ToDisks(r, ok), UNCHANGED <<disks, announced, records>>
    PROVE  DeletionTypeOK' /\ Told(del, announced, records)'
<1> DEFINE d == del[r]
           left == IF d.xml THEN Disk ELSE {}
<1>1. d \in Deletion /\ disks \subseteq Disk
  BY DEF DeletionTypeOK
<1>2. left \in SUBSET Disk /\ Deletes(r, [d EXCEPT !.pc = "disks", !.ok = ok, !.xml = FALSE, !.left = left])
  BY DEF ToDisks
<1> HIDE DEF left
<1>3. QED
  BY <1>1, <1>2, DeletionTypes, DeletionConfirms, DeletesKeep

\* The transaction of the first delete removes the rows, and that of a later one fails.
LEMMA DeleteRowsKeeps ==
    ASSUME TypeOK, DeletionTypeOK, Told(del, announced, records), NEW r \in Request, DeleteRows(r)
    PROVE  DeletionTypeOK' /\ Told(del, announced, records)'
<1> DEFINE ok == del[r].ok /\ records
           d == [del[r] EXCEPT !.pc = "undefine", !.ok = ok]
<1>1. del[r] \in Deletion /\ ok \in BOOLEAN /\ Deletes(r, d) /\ UNCHANGED <<disks, announced>> /\ records' = FALSE
  BY DEF DeleteRows, DeletionTypeOK, TypeOK, Deletion
<1>2. d \in Deletion /\ (Confirms(d) => records)
  <2> HIDE DEF ok
  <2>1. d \in Deletion /\ (Confirms(d) => ok)
    BY <1>1, DeletionTypes, DeletionConfirms
  <2> QED
    BY <2>1 DEF ok
<1> HIDE DEF d
<1>3. del'[r] = d /\ \A s \in Request : s # r => del'[s] = del[s]
  BY <1>1 DEF Deletes, DeletionTypeOK
<1>4. DeletionTypeOK'
  BY <1>1, <1>2 DEF DeletionTypeOK, Deletes
<1>5. CASE records
  <2>1. announced = 0 /\ \A s \in Request : ~Confirms(del[s])
    BY <1>5 DEF Told
  <2>2. \A s \in Request : Confirms(del'[s]) => s = r
    BY <1>3, <2>1
  <2>3. Told(del', announced, FALSE)
    BY <2>1, <2>2 DEF Told
  <2> QED
    BY <1>1, <1>4, <2>3
<1>6. CASE ~records
  <2>1. \A s \in Request : Confirms(del'[s]) => Confirms(del[s])
    BY <1>2, <1>3, <1>6
  <2>2. Told(del', announced, FALSE)
    BY <1>6, <2>1 DEF Told
  <2> QED
    BY <1>1, <1>4, <2>2
<1>7. QED
  BY <1>5, <1>6

\* What is announced was to be announced, and by no other delete.
LEMMA DeleteAnsweredKeeps ==
    ASSUME TypeOK, DeletionTypeOK, Told(del, announced, records), NEW r \in Request, DeleteAnswered(r)
    PROVE  DeletionTypeOK' /\ Told(del, announced, records)'
<1> DEFINE d == [NoDeletion EXCEPT !.left = del[r].left]
<1>1. /\ del[r] \in Deletion /\ del[r].pc = "answer" /\ Deletes(r, d) /\ UNCHANGED <<disks, records>>
      /\ announced' = IF del[r].ok /\ announced < 2 THEN announced + 1 ELSE announced
  BY DEF DeleteAnswered, DeletionTypeOK, vars, dbVars
<1>2. d \in Deletion /\ ~Confirms(d)
  <2>1. del[r].left \in SUBSET Disk
    BY <1>1 DEF Deletion
  <2> QED
    BY <2>1, NoDeletionType, DeletionTypes, DeletionConfirms
<1> HIDE DEF d
<1>3. del'[r] = d /\ \A s \in Request : s # r => del'[s] = del[s]
  BY <1>1 DEF Deletes, DeletionTypeOK
<1>4. DeletionTypeOK'
  BY <1>1, <1>2 DEF DeletionTypeOK, Deletes
<1>5. \A s \in Request : Confirms(del'[s]) => Confirms(del[s]) /\ s # r
  BY <1>2, <1>3
<1>6. CASE del[r].ok
  <2>1. Confirms(del[r])
    BY <1>1, <1>6 DEF Confirms
  <2>2. announced = 0 /\ ~records /\ \A s \in Request : ~Confirms(del'[s])
    BY <1>5, <2>1 DEF Told, DeletionTypeOK
  <2>3. Told(del', 1, records)
    BY <2>2 DEF Told
  <2> QED
    BY <1>1, <1>4, <1>6, <2>2, <2>3
<1>7. CASE ~del[r].ok
  <2>1. Told(del', announced, records)
    BY <1>5 DEF Told
  <2> QED
    BY <1>1, <1>4, <1>7, <2>1
<1>8. QED
  BY <1>6, <1>7

LEMMA CoroutineKeeps ==
    ASSUME TypeOK, DeletionTypeOK, Told(del, announced, records), NEW r \in Request, Coroutine(r)
    PROVE  DeletionTypeOK' /\ Told(del, announced, records)'
<1> DEFINE d == del[r]
<1>1. d \in Deletion /\ disks \subseteq Disk /\ d.ok \in BOOLEAN
  BY DEF DeletionTypeOK, Deletion
<1>2. CASE StopRefused(r)
  BY <1>1, <1>2, ToDisksKeeps DEF StopRefused, vars, dbVars
<1>3. CASE StopRaises(r)
  BY <1>1, <1>3, ToDisksKeeps DEF StopRaises, vars, dbVars
<1>4. CASE StopAccepted(r)
  <2>1. Deletes(r, [d EXCEPT !.pc = "stopping"]) /\ UNCHANGED <<disks, announced, records>>
    BY <1>4 DEF StopAccepted, Accept, Register, dbVars
  <2> QED
    BY <1>1, <2>1, DeletionTypes, DeletionConfirms, DeletesKeep
<1>5. CASE StopReturns(r)
  <2>1. PICK ok \in BOOLEAN : ToDisks(r, ok)
    BY <1>1, <1>5 DEF StopReturns
  <2>2. UNCHANGED <<disks, announced, records>>
    BY <1>5 DEF StopReturns, Resume, dbVars
  <2> QED
    BY <2>1, <2>2, ToDisksKeeps
<1>6. CASE DisksGathered(r)
  <2>1. Deletes(r, [d EXCEPT !.pc = "db", !.raised = FALSE]) /\ UNCHANGED <<disks, announced, records>>
    BY <1>6 DEF DisksGathered, vars, dbVars
  <2> QED
    BY <1>1, <2>1, DeletionTypes, DeletionConfirms, DeletesKeep
<1>7. CASE DeleteRows(r)
  BY <1>7, DeleteRowsKeeps
<1>8. CASE DeleteRowsFails(r)
  <2>1. Deletes(r, [d EXCEPT !.pc = "undefine", !.ok = FALSE]) /\ UNCHANGED <<disks, announced, records>>
    BY <1>8 DEF DeleteRowsFails, vars, dbVars
  <2> QED
    BY <1>1, <2>1, DeletionTypes, DeletionConfirms, DeletesKeep
<1>9. CASE DeleteAnswered(r)
  BY <1>9, DeleteAnsweredKeeps
<1>10. QED
  BY <1>2, <1>3, <1>4, <1>5, <1>6, <1>7, <1>8, <1>9 DEF Coroutine

LEMMA DeletionKeeps == DeletionInv /\ [DeletionNext]_allVars => DeletionInv'
<1> SUFFICES ASSUME DeletionInv, [DeletionNext]_allVars
             PROVE  DeletionTypeOK' /\ Told(del, announced, records)'
  BY PowerKeeps DEF DeletionInv
<1> USE DEF DeletionInv
<1>1. CASE PowerStep
  <2>1. UNCHANGED <<del, announced, disks, records>>
    BY <1>1, PowerRemovesNothing DEF PowerStep, PowerTurn, deletionVars, Next, Serve
  <2>2. Told(del', announced', records')
    BY <2>1
  <2> QED
    BY <2>1, <2>2 DEF DeletionTypeOK
<1>2. ASSUME NEW r \in Request, DeleteBegins(r)
      PROVE  DeletionTypeOK' /\ Told(del, announced, records)'
  <2> DEFINE d == [NoDeletion EXCEPT !.pc = "xml"]
  <2>1. d \in Deletion /\ ~Confirms(d)
    BY DEF NoDeletion, Deletion, Confirms
  <2>2. Deletes(r, d) /\ UNCHANGED <<disks, announced, records>>
    BY <1>2 DEF DeleteBegins, vars, dbVars
  <2> HIDE DEF d
  <2> QED
    BY <2>1, <2>2, DeletesKeep DEF DeletionTypeOK
<1>3. ASSUME NEW r \in Request, Threads(r)
      PROVE  DeletionTypeOK' /\ Told(del, announced, records)'
  BY <1>3, ThreadsKeep
<1>4. ASSUME NEW r \in Request, Coroutine(r)
      PROVE  DeletionTypeOK' /\ Told(del, announced, records)'
  BY <1>4, CoroutineKeeps
<1>5. CASE DeletionRestart
  <2>1. del' = [r \in Request |-> NoDeletion] /\ UNCHANGED <<disks, announced, records>>
    BY <1>5 DEF DeletionRestart, Restart, dbVars
  <2>2. \A r \in Request : ~Confirms(del'[r])
    BY <2>1, NoDeletionType
  <2>3. Told(del', announced, records)
    BY <2>2 DEF Told
  <2> QED
    BY <2>1, <2>3, NoDeletionType DEF DeletionTypeOK
<1>6. CASE UNCHANGED allVars
  <2>1. UNCHANGED <<del, announced, disks, records>>
    BY <1>6 DEF allVars, vars, dbVars, deletionVars
  <2>2. Told(del', announced', records')
    BY <2>1
  <2> QED
    BY <2>1, <2>2 DEF DeletionTypeOK
<1>7. QED
  BY <1>1, <1>2, <1>3, <1>4, <1>5, <1>6 DEF DeletionNext, DeletionServe

LEMMA InitDeletion == DeletionInit => DeletionInv
<1> SUFFICES ASSUME DeletionInit PROVE DeletionInv
  OBVIOUS
<1>1. TypeOK /\ Truth /\ Settled
  BY InitTypeOK, InitTruth DEF DeletionInit, Init, Settled
<1>2. Registered
  BY DEF DeletionInit, Init, Registered, Alive, NoJob, Live
<1>3. DeletionTypeOK /\ announced = 0 /\ \A r \in Request : ~Confirms(del[r])
  BY NoDeletionType DEF DeletionInit, DeletionTypeOK
<1>4. Told(del, announced, records)
  BY <1>3 DEF Told
<1>5. QED
  BY <1>1, <1>2, <1>3, <1>4 DEF DeletionInv

LEMMA DeletionAlways == DeletionSpec => []DeletionInv
  BY InitDeletion, DeletionKeeps, PTL DEF DeletionSpec

\* With deletes beside them, whose stops take their turn in vm_tasks, tasks are still one
\* at a time until an entry is stolen.
THEOREM DeletesKeepTheLock == DeletionSpec => []OneTaskUnlessStolen
<1>1. DeletionInv => OneTaskUnlessStolen
  BY RegisteredExcludes DEF DeletionInv
<1> QED
  BY <1>1, DeletionAlways, PTL

\* Neither rows nor a definition that go make what a task is about to store untrue.
THEOREM DeletesKeepCommits == DeletionSpec => []CommitIsTruthful
<1>1. DeletionInv => CommitIsTruthful
  BY TruthImplies DEF DeletionInv
<1> QED
  BY <1>1, DeletionAlways, PTL

\* What a task has stored describes the machine until the next one is registered, also
\* beside deletes, whose stops register tasks like any other.
THEOREM DeletesKeepRows == DeletionSpec => []RowMatchesMachine
<1>1. DeletionInv => RowMatchesMachine
  BY SettledImplies DEF DeletionInv
<1> QED
  BY <1>1, DeletionAlways, PTL

\* Any number of deletes at once announce the machine at most once, and without its rows.
THEOREM AnnouncedOnce == DeletionSpec => []DeleteAnnouncedOnce
<1>1. DeletionInv => DeleteAnnouncedOnce
  BY SMT DEF DeletionInv, Told, DeletionTypeOK, DeleteAnnouncedOnce
<1> QED
  BY <1>1, DeletionAlways, PTL

LEMMA OrphanStep ==
    ASSUME DeletionInv, [DeletionNext]_allVars, defined, ~defined', records
    PROVE  \E r \in Request : del[r].pc = "undefine" /\ ~del[r].ok
<1>1. PICK r \in Request : Undefine(r)
  <2>1. ~[Next]_vars
    BY PowerRemovesNothing
  <2> QED
    BY <2>1 DEF DeletionNext, DeletionServe, PowerStep, PowerTurn, Next, Serve, DeleteBegins, Threads,
                Coroutine, FetchXml, StopRefused, StopRaises, StopAccepted, StopReturns, Arrive, Kind,
                DeleteDisk, DeleteDiskFails, DisksGathered, DeleteRows, DeleteRowsFails, UndefineFails,
                DeleteAnswered, DeletionRestart, allVars, libvirtVars
<1>2. ~Confirms(del[r])
  BY DEF DeletionInv, Told
<1>3. QED
  BY <1>1, <1>2 DEF Undefine, Confirms

\* The definition of a machine with rows is removed only by a delete that answers False.
THEOREM NoOrphanIsSilent == DeletionSpec => NoSilentOrphan
<1>1. DeletionInv /\ [DeletionNext]_allVars =>
         [defined /\ ~defined' /\ records => \E r \in Request : del[r].pc = "undefine" /\ ~del[r].ok]_allVars
  BY OrphanStep
<1> QED
  BY <1>1, DeletionAlways, PTL DEF DeletionSpec, NoSilentOrphan
=============================================================================
