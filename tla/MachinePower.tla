---------------------------- MODULE MachinePower ----------------------------
(***************************************************************************)
(* Powering one machine on and off: api/modules/machine_state/             *)
(* state_management.py and the two endpoints that call it.                 *)
(*                                                                         *)
(* A request runs as a coroutine on the one event loop of the API.  It     *)
(* looks at libvirt and at vm_tasks, creates a task, registers it in       *)
(* vm_tasks and awaits it; the task talks to libvirt and then to the       *)
(* database.  Between two awaits a coroutine holds the loop and no other   *)
(* coroutine can run, but libvirt is another process: the guest may power  *)
(* itself off between any two calls.  The model therefore has one action   *)
(* per libvirt call or await, and `loop' says who holds the loop.          *)
(*                                                                         *)
(* vm_tasks, the locks and the libvirt domain are per machine, so one      *)
(* machine is modelled; `defined' and `records' are here because every     *)
(* step reads them, and only MachineDeletion changes them.                 *)
(***************************************************************************)
EXTENDS Naturals

CONSTANTS
    Request,    \* slots for HTTP requests on this machine, reused when answered
    NoTask,     \* vm_tasks has no entry; nobody holds the loop
    Port,       \* display ports libvirt can hand to the machine
    NoPort,     \* the machine has no display: "-1" in libvirt, 0 in the database
    FlagCount,  \* len(SHUTDOWN_FLAGS)
    PollLimit   \* polls that fit in vm_state_wait_timeout

ASSUME PowerAssumption ==
    /\ NoTask \notin Request
    /\ NoPort \notin Port
    /\ FlagCount \in Nat
    /\ PollLimit \in Nat \ {0}

VARIABLES
    dom,      \* libvirt state: RUNNING, one of ERROR_STATES, or any other
    display,  \* the port the running machine listens on
    defined,  \* libvirt keeps a persistent definition of the machine
    records,  \* the database rows of the machine exist
    row,      \* started_at (set or NULL) and the port parameter, as committed
    settled,  \* history: the kind of the task that committed the row, none once
              \* another task was registered or if an entry was stolen before
    loop,     \* the coroutine that holds the event loop
    vmTask,   \* vm_tasks.get(uuid), named by the request that made the task
    call,     \* what each request is awaiting: a start task, a stop task, nothing
    task,     \* the task of each request
    stolen    \* history: a finished request removed the entry of a live task

libvirtVars == <<dom, display, defined>>
dbVars == <<records, row, settled>>
vars == <<libvirtVars, dbVars, loop, vmTask, call, task, stolen>>

DomState == {"running", "off", "other"}
Kind == {"start", "stop"}
Live == {"ready", "poll", "flag", "port", "txn"}
Finished == {"returned", "raised", "crashed"}
Observed == {"running", "error", "unknown"}
Result == Observed \cup {"unset", "row", "lost", "none"}

\* flag counts the flags tried; FlagCount + 1 says that destroy() succeeded.
NoJob == [pc |-> "none", kind |-> "start", flag |-> 0, polls |-> 0,
          result |-> "unset", port |-> NoPort]

Job == [pc : Live \cup Finished \cup {"none"}, kind : Kind,
        flag : 0..FlagCount + 1, polls : 0..PollLimit,
        result : Result, port : Port \cup {NoPort}]

TypeOK ==
    /\ dom \in DomState
    /\ display \in Port \cup {NoPort}
    /\ defined \in BOOLEAN
    /\ records \in BOOLEAN
    /\ row \in [started : BOOLEAN, port : Port \cup {NoPort}]
    /\ settled \in Kind \cup {"none"}
    /\ loop \in Request \cup {NoTask}
    /\ vmTask \in Request \cup {NoTask}
    /\ call \in [Request -> Kind \cup {"idle"}]
    /\ task \in [Request -> Job]
    /\ stolen \in BOOLEAN

Init ==
    /\ dom = "off" /\ display = NoPort /\ defined = TRUE
    /\ records = TRUE /\ row = [started |-> FALSE, port |-> NoPort]
    /\ settled = "none"
    /\ loop = NoTask /\ vmTask = NoTask
    /\ call = [r \in Request |-> "idle"]
    /\ task = [r \in Request |-> NoJob]
    /\ stolen = FALSE

-----------------------------------------------------------------------------
(* The guest and the hypervisor act at any time.                            *)

\* An inactive domain without a definition is unknown to libvirt.
Found == defined \/ dom # "off"

GuestPowersOff ==
    /\ dom # "off"
    /\ dom' = "off" /\ display' = NoPort
    /\ UNCHANGED <<defined, dbVars, loop, vmTask, call, task, stolen>>

\* Shutting down, paused on a full disk, blocked: neither RUNNING nor an error.
GuestLeavesRunning ==
    /\ dom = "running"
    /\ dom' = "other"
    /\ UNCHANGED <<display, defined, dbVars, loop, vmTask, call, task, stolen>>

GuestResumes ==
    /\ dom = "other"
    /\ dom' = "running"
    /\ UNCHANGED <<display, defined, dbVars, loop, vmTask, call, task, stolen>>

-----------------------------------------------------------------------------
(* start_machine and stop_machine, up to the await of the task.             *)

Alive(r) == task[r].pc \in Live
Busy == vmTask # NoTask /\ Alive(vmTask)

\* is_vm_running must be FALSE for a start and TRUE for a stop; otherwise, and
\* when a task is alive, the call answers False and has changed nothing.
Wanted(kind) == (dom = "running") <=> (kind = "stop")

Register(r, kind) ==
    /\ Wanted(kind) /\ ~Busy
    /\ task' = [task EXCEPT ![r] = [NoJob EXCEPT !.pc = "ready", !.kind = kind]]
    /\ vmTask' = r
    /\ settled' = "none"
    /\ UNCHANGED <<libvirtVars, records, row, loop, stolen>>

Accept(r, kind) ==
    /\ loop = NoTask /\ call[r] = "idle" /\ Found
    /\ Register(r, kind)
    /\ call' = [call EXCEPT ![r] = kind]

-----------------------------------------------------------------------------
(* The tasks.  A task that awaits or ends leaves the loop free.             *)

\* task[r] becomes job, and holder has the loop after the step.
Step(r, job, holder) ==
    /\ task' = [task EXCEPT ![r] = job]
    /\ loop' = holder
    /\ UNCHANGED <<vmTask, call, stolen>>

\* Of a finished task only its outcome remains, and an exception has no result.
Ends(r, how, result) ==
    Step(r, [NoJob EXCEPT !.pc = how, !.kind = task[r].kind, !.result = result], NoTask)

At(r, pc, kind) == task[r].pc = pc /\ task[r].kind = kind

\* start_machine_async: lookup, create(), and on to the first poll.
Create(r) ==
    /\ loop = NoTask /\ At(r, "ready", "start")
    /\ defined /\ dom = "off"
    /\ dom' = "running" /\ display' \in Port
    /\ Step(r, [task[r] EXCEPT !.pc = "poll"], r)
    /\ UNCHANGED <<defined, dbVars>>

\* lookupByUUID or create() raises: the machine is active, gone, or libvirt fails.
\* Without a connection to libvirt the exception is not one that is caught.
CreateFails(r) ==
    /\ loop = NoTask /\ At(r, "ready", "start")
    /\ \E how \in {"raised", "crashed"} : Ends(r, how, "unset")
    /\ UNCHANGED <<libvirtVars, dbVars>>

\* stop_machine_async: lookup, and on to the loop over SHUTDOWN_FLAGS.
StopBegins(r) ==
    /\ loop = NoTask /\ At(r, "ready", "stop") /\ Found
    /\ Step(r, [task[r] EXCEPT !.pc = "flag"], r)
    /\ UNCHANGED <<libvirtVars, dbVars>>

\* There is no machine, or no connection to libvirt.
StopFails(r) ==
    /\ loop = NoTask /\ At(r, "ready", "stop")
    /\ \E how \in {"raised", "crashed"} : Ends(r, how, "unset")
    /\ UNCHANGED <<libvirtVars, dbVars>>

\* shutdownFlags(FLAG) asks the guest to power off, and returns at once.
Flag(r) ==
    /\ loop = r /\ At(r, "flag", "stop") /\ task[r].flag < FlagCount
    /\ dom # "off"
    /\ Step(r, [task[r] EXCEPT !.pc = "poll", !.flag = @ + 1], r)
    /\ UNCHANGED <<libvirtVars, dbVars>>

\* shutdownFlags(FLAG) raises: the next flag is tried, without a wait.
FlagFails(r) ==
    /\ loop = r /\ At(r, "flag", "stop") /\ task[r].flag < FlagCount
    /\ Step(r, [task[r] EXCEPT !.flag = @ + 1], r)
    /\ UNCHANGED <<libvirtVars, dbVars>>

\* No flag is left: destroy(), whatever the polls have seen.
Destroy(r) ==
    /\ loop = r /\ At(r, "flag", "stop") /\ task[r].flag = FlagCount
    /\ dom # "off"
    /\ dom' = "off" /\ display' = NoPort
    /\ Step(r, [task[r] EXCEPT !.pc = "poll", !.flag = @ + 1], r)
    /\ UNCHANGED <<defined, dbVars>>

\* Mutant: the error of destroy() is taken for "it is off already".
DestroyFailsQuietly(r) ==
    /\ loop = r /\ At(r, "flag", "stop") /\ task[r].flag = FlagCount
    /\ Step(r, [task[r] EXCEPT !.pc = "txn"], NoTask)
    /\ UNCHANGED <<libvirtVars, dbVars>>

\* destroy() raises, as it always does on a machine that is off already.
DestroyFails(r) ==
    /\ loop = r /\ At(r, "flag", "stop") /\ task[r].flag = FlagCount
    /\ Ends(r, "raised", "unset")
    /\ UNCHANGED <<libvirtVars, dbVars>>

-----------------------------------------------------------------------------
(* wait_for_machine_state: read the state, sleep, read it again.  A task    *)
(* that sleeps is at "poll" with the loop free.                             *)

Polling(r) == loop \in {r, NoTask} /\ task[r].pc = "poll"

\* What the wait returned decides how the task goes on.  A start gives up
\* unless the machine runs.  A stop compares the string with two integers, so
\* it never stops early; after destroy() it goes on to the database.
Waited(r, result) ==
    LET job == [task[r] EXCEPT !.result = result, !.polls = 0] IN
    \/ /\ job.kind = "start" /\ result = "running"
       /\ Step(r, [job EXCEPT !.pc = "port"], r)
    \/ /\ job.kind = "start" /\ result # "running"
       /\ Ends(r, "returned", result)
    \/ /\ job.kind = "stop" /\ job.flag <= FlagCount
       /\ Step(r, [job EXCEPT !.pc = "flag"], r)
    \/ /\ job.kind = "stop" /\ job.flag > FlagCount
       /\ Step(r, [job EXCEPT !.pc = "txn"], NoTask)

PollSees(r) ==
    /\ Polling(r) /\ Found
    /\ dom # "other" /\ task[r].polls < PollLimit
    /\ Waited(r, IF dom = "running" THEN "running" ELSE "error")
    /\ UNCHANGED <<libvirtVars, dbVars>>

PollSleeps(r) ==
    /\ Polling(r)
    /\ dom = "other" /\ task[r].polls < PollLimit
    /\ Step(r, [task[r] EXCEPT !.polls = @ + 1], NoTask)
    /\ UNCHANGED <<libvirtVars, dbVars>>

\* vm_state_wait_timeout expires during a sleep.
PollTimesOut(r) ==
    /\ loop = NoTask /\ task[r].pc = "poll" /\ task[r].polls > 0
    /\ Waited(r, "unknown")
    /\ UNCHANGED <<libvirtVars, dbVars>>

\* machine.state() raises: a stop skips to the next flag, or fails after
\* destroy(); a start fails.
PollRaises(r) ==
    /\ Polling(r) /\ task[r].polls < PollLimit
    /\ IF task[r].kind = "stop" /\ task[r].flag <= FlagCount
          THEN Step(r, [task[r] EXCEPT !.pc = "flag", !.polls = 0], r)
          ELSE Ends(r, "raised", "unset")
    /\ UNCHANGED <<libvirtVars, dbVars>>

-----------------------------------------------------------------------------
(* The port and the database.                                               *)

\* get_machine_framebuffer_port reads the XML of the machine as it is now.
ReadPort(r) ==
    /\ loop = r /\ task[r].pc = "port" /\ Found
    /\ Step(r, [task[r] EXCEPT !.pc = "txn", !.port = display], NoTask)
    /\ UNCHANGED <<libvirtVars, dbVars>>

\* It raises: a libvirt error becomes a failed start, a parse error is not caught.
ReadPortFails(r) ==
    /\ loop = r /\ task[r].pc = "port"
    /\ \E how \in {"raised", "crashed"} : Ends(r, how, "unset")
    /\ UNCHANGED <<libvirtVars, dbVars>>

\* History: the row is now what this task made it.
Settles(r) == settled' = IF stolen THEN "none" ELSE task[r].kind

\* Mutant: the port of the connection is not reset when the machine stops.
CommitKeepingPort(r) ==
    /\ loop = NoTask /\ task[r].pc = "txn"
    /\ IF records
          THEN /\ row' = IF task[r].kind = "stop" THEN [row EXCEPT !.started = FALSE]
                         ELSE [started |-> TRUE, port |-> task[r].port]
               /\ Settles(r)
               /\ Ends(r, "returned", "row")
          ELSE /\ Ends(r, "returned", "none")
               /\ UNCHANGED <<row, settled>>
    /\ UNCHANGED <<libvirtVars, records>>

\* The transaction: started_at, then the port of the connection.  The first
\* UPDATE locks the machine's row, so two transactions take effect one after
\* the other.  `result' now names the row that was fetched.
Commit(r) ==
    /\ loop = NoTask /\ task[r].pc = "txn"
    /\ IF records
          THEN /\ row' = [started |-> task[r].kind = "start", port |-> task[r].port]
               /\ Settles(r)
               /\ Ends(r, "returned", "row")
          ELSE /\ Ends(r, "returned", "none")
               /\ UNCHANGED <<row, settled>>
    /\ UNCHANGED <<libvirtVars, records>>

\* A statement fails: the error is logged and swallowed, nothing is committed,
\* and `result' is what the wait returned, or the row whose update was lost.
CommitFails(r) ==
    /\ loop = NoTask /\ task[r].pc = "txn"
    /\ \E result \in {task[r].result, "lost"} : Ends(r, "returned", result)
    /\ UNCHANGED <<libvirtVars, dbVars>>

\* async_pool.connection() times out, or the commit raises: outside every except.
CommitCrashes(r) ==
    /\ loop = NoTask /\ task[r].pc = "txn"
    /\ Ends(r, "crashed", "unset")
    /\ UNCHANGED <<libvirtVars, dbVars>>

-----------------------------------------------------------------------------
(* The request resumes when its task is done.                               *)

Truthy(result) == result # "none"

\* What the endpoint broadcasts and returns: BOOTUP_SUCCESS or SHUTDOWN_SUCCESS,
\* the matching FAIL, or an uncaught error and no message.
Answer(r) == CASE task[r].pc = "raised"  -> "fail"
               [] task[r].pc = "crashed" -> "error"
               [] OTHER -> IF Truthy(task[r].result) THEN "success" ELSE "fail"

\* vm_tasks.pop(uuid, None) runs when the task returned a value, and removes
\* whatever is registered; an exception skips it.
Pop(r) ==
    IF task[r].pc = "returned"
      THEN /\ vmTask' = NoTask
           /\ stolen' = (stolen \/ (vmTask # r /\ Busy))
      ELSE UNCHANGED <<vmTask, stolen>>

Resume(r) ==
    /\ loop = NoTask /\ call[r] # "idle" /\ task[r].pc \in Finished
    /\ Pop(r)
    /\ call' = [call EXCEPT ![r] = "idle"]
    /\ task' = [task EXCEPT ![r] = NoJob]
    /\ UNCHANGED <<libvirtVars, dbVars, loop>>

\* The API process restarts: coroutines and vm_tasks are gone, libvirt and
\* the database stay as they are.
Restart ==
    /\ loop' = NoTask /\ vmTask' = NoTask
    /\ call' = [r \in Request |-> "idle"]
    /\ task' = [r \in Request |-> NoJob]
    /\ stolen' = FALSE
    /\ UNCHANGED <<libvirtVars, dbVars>>

-----------------------------------------------------------------------------
Guest == GuestPowersOff \/ GuestLeavesRunning \/ GuestResumes

Arrive(r) == \E kind \in Kind : Accept(r, kind)

TaskStep(r) ==
    \/ Create(r) \/ CreateFails(r) \/ StopBegins(r) \/ StopFails(r)
    \/ Flag(r) \/ FlagFails(r) \/ Destroy(r) \/ DestroyFails(r)
    \/ PollSees(r) \/ PollSleeps(r) \/ PollTimesOut(r) \/ PollRaises(r)
    \/ ReadPort(r) \/ ReadPortFails(r)
    \/ Commit(r) \/ CommitFails(r) \/ CommitCrashes(r)

Serve == Guest \/ \E r \in Request : Arrive(r) \/ TaskStep(r) \/ Resume(r)

Next == Serve \/ Restart

Spec == Init /\ [][Next]_vars
-----------------------------------------------------------------------------
(* Properties.                                                              *)

\* The guards "Machine is already starting!" and "Machine is already stopping!"
\* are a lock around the tasks of one machine, except that a request which
\* resumes late pops the entry of the task registered after its own.  As long as
\* that did not happen, at most one task is alive.
OneTaskUnlessStolen ==
    ~stolen => \A r, s \in Request : Alive(r) /\ Alive(s) => r = s

\* While a stop task is about to clear started_at and the port, the machine it
\* destroyed is still off: no start came in between.  While a start task is about
\* to store a port, that is the port of the machine unless it went off again.
CommitIsTruthful ==
    ~stolen => \A r \in Request : task[r].pc = "txn" =>
        IF task[r].kind = "stop" THEN dom = "off"
        ELSE dom # "off" => task[r].port = display

\* What a task has committed stays true of the machine until the next task of the machine
\* is registered: while its request resumes, after a restart of the API that forgot
\* vm_tasks, whatever other requests are refused or fail and whatever the guest does.  A
\* stopped machine is off and has no port; a started one has the port of the row, or it
\* went off by itself, which the database is never told.  Not so for what is committed
\* after an entry was stolen, for two tasks may then be at work.
RowMatchesMachine ==
    records =>
        /\ settled = "stop" => row = [started |-> FALSE, port |-> NoPort] /\ dom = "off"
        /\ settled = "start" => row.started /\ (dom # "off" => row.port = display)
=============================================================================
