------------------------------ MODULE MachineFeed ------------------------------
(***************************************************************************)
(* The machines as a page of the panel shows them: what the API announces, *)
(* broadcasts and sends on connect over the web socket of all machines, in *)
(* what order it reaches the page, and what useMachineWebSocket makes of   *)
(* it; with the buttons that start and stop a machine.                     *)
(*                                                                         *)
(* An event is sent by a task made for each subscribed socket, and tasks   *)
(* run in the order they were made.  A broadcast reads its payload once    *)
(* and sends it later, for a send to another subscriber may suspend it:    *)
(* so a payload may be overtaken by newer events.  The payloads of disks   *)
(* and of connections, which no button depends on, are one kind here.      *)
(***************************************************************************)
EXTENDS Naturals, Sequences, FiniteSets

CONSTANTS
    Machine,
    MaxTasks,  \* bound: the events not sent yet
    MaxWire    \* bound: the messages on their way to the page

ASSUME FeedAssumption == MaxTasks \in Nat /\ MaxWire \in Nat

VARIABLES
    life,      \* the API: what becomes of each machine
    on,        \* the machines libvirt reports as running
    busy,      \* vm_tasks: the task of each machine
    tasks,     \* the events to be sent to this page's socket
    payload,   \* what a broadcast has read and not sent; or << >>
    wire,      \* what is sent to the page and not received
    conn,      \* the socket is connected and subscribed
    machines,  \* useMachineWebSocket: the state of every machine shown
    shows,     \* what the page shows: nothing until it is sent something, machines, or its error
    untold     \* history: the machines this page may show and is not sent the end of

api == <<life, on, busy, payload>>
channel == <<tasks, wire, conn, untold>>
page == <<machines, shows>>
feedVars == <<api, channel, page>>

\* In libvirt, but not in the database: creating, deleting, and a ghost, which outlives its
\* deletion.  In the database, but not in libvirt: an orphan.
Life == {"none", "creating", "here", "deleting", "ghost", "gone", "orphan"}
Defined == {m \in Machine : life[m] \in {"creating", "here", "deleting", "ghost"}}
Here == {m \in Machine : life[m] = "here"}
Orphans == {m \in Machine : life[m] = "orphan"}
Ended == {m \in Machine : life[m] \in {"ghost", "gone"}}

Settled == {"ACTIVE", "OFFLINE", "ERROR"}
Shown == Settled \cup {"FETCHING", "LOADING", "BOOTING_UP", "SHUTTING_DOWN"}

\* STATE_MAP: the events of starts and stops, and the state each one shows.
STATE_MAP == [BOOTUP_START |-> "BOOTING_UP", BOOTUP_SUCCESS |-> "ACTIVE", BOOTUP_FAIL |-> "ERROR",
              SHUTDOWN_START |-> "SHUTTING_DOWN", SHUTDOWN_SUCCESS |-> "OFFLINE", SHUTDOWN_FAIL |-> "ERROR"]
TASK_EVENT == [start |-> [START |-> "BOOTUP_START", SUCCESS |-> "BOOTUP_SUCCESS", FAIL |-> "BOOTUP_FAIL"],
               stop |-> [START |-> "SHUTDOWN_START", SUCCESS |-> "SHUTDOWN_SUCCESS", FAIL |-> "SHUTDOWN_FAIL"]]

\* An event is about one machine; a payload about those it has data of, and which of
\* them are active.  `loading' is asked with a key vm_tasks never has, so it is false.
Event(type, m) == [type |-> type, of |-> {m}, active |-> {}]
Payload(type, ms) ==
    [type |-> type, of |-> ms, active |-> IF type = "DATA_DYNAMIC" THEN ms \cap on ELSE {}]

Message == [type : DOMAIN STATE_MAP \cup {"CREATE", "DELETE", "DATA_STATIC", "DATA_DYNAMIC", "DATA_EXTRA"},
            of : SUBSET Machine, active : SUBSET Machine]

\* The shape of the state, and: a page that shows machines has had a payload.
FeedTypeOK ==
    /\ life \in [Machine -> Life] /\ on \subseteq Machine
    /\ busy \in [Machine -> {"none", "start", "stop"}]
    /\ tasks \in Seq(Message) /\ payload \in Seq(Message) /\ wire \in Seq(Message)
    /\ Len(payload) =< 1 /\ conn \in BOOLEAN
    /\ DOMAIN machines \subseteq Machine /\ \A m \in DOMAIN machines : machines[m] \in Shown
    /\ shows \in {"nothing", "machines", "error"} /\ (DOMAIN machines # {} => shows = "machines")
    /\ (shows = "error" => ~conn)
    /\ untold \subseteq Machine

FeedInit ==
    /\ life = [m \in Machine |-> "none"] /\ on = {} /\ busy = [m \in Machine |-> "none"]
    /\ tasks = << >> /\ payload = << >> /\ wire = << >> /\ conn = FALSE
    /\ machines = << >> /\ shows = "nothing" /\ untold = {}

-----------------------------------------------------------------------------
(* The API.                                                                 *)

\* on_machine_*: one task for each socket subscribed at this moment.
Announce(es) ==
    /\ Len(tasks) + Len(es) =< MaxTasks
    /\ tasks' = IF conn THEN tasks \o es ELSE tasks

\* A machine is defined, and then recorded and announced; or its creation is undone, and
\* nobody is told.  Undefining a machine passes over a refusal of libvirt, and a machine
\* that runs stays listed: then it is a ghost.
Define(m) ==
    /\ life[m] = "none" /\ life' = [life EXCEPT ![m] = "creating"]
    /\ UNCHANGED <<on, busy, payload, channel, page>>

Create(m) ==
    /\ life[m] = "creating" /\ life' = [life EXCEPT ![m] = "here"]
    /\ Announce(<<Event("CREATE", m)>>)
    /\ UNCHANGED <<on, busy, payload, wire, conn, untold, page>>

UndoCreate(m, end) ==
    /\ life[m] = "creating" /\ life' = [life EXCEPT ![m] = end] /\ (m \in on => end = "ghost")
    /\ untold' = untold \cup {m}
    /\ UNCHANGED <<on, busy, payload, tasks, wire, conn, page>>

\* The rows go, and then the definition; or the rows stay, for their statement fails, and
\* the definition goes all the same.
DeleteRows(m) ==
    /\ life[m] = "here" /\ life' = [life EXCEPT ![m] = "deleting"]
    /\ UNCHANGED <<on, busy, payload, channel, page>>

KeepRows(m) ==
    /\ life[m] = "here" /\ life' = [life EXCEPT ![m] = "orphan"] /\ m \notin on
    /\ UNCHANGED <<on, busy, payload, channel, page>>

\* The definition goes, or not; it is announced if the steps before went well.
Delete(m, end, success) ==
    /\ life[m] = "deleting" /\ life' = [life EXCEPT ![m] = end] /\ (m \in on => end = "ghost")
    /\ IF success THEN Announce(<<Event("DELETE", m)>>) ELSE UNCHANGED tasks
    /\ untold' = IF success /\ conn THEN untold ELSE untold \cup {m}
    /\ UNCHANGED <<on, busy, payload, wire, conn, page>>

\* A ghost goes without a word: it was powered off, or a second deletion, which finds no
\* rows and answers with an error, undefines it.
Vanish(m) ==
    /\ life[m] = "ghost" /\ life' = [life EXCEPT ![m] = "gone"] /\ m \notin on
    /\ UNCHANGED <<on, busy, payload, channel, page>>

\* A change of its properties; the payload of a machine without rows raises.
Modify(m) ==
    /\ m \in Here /\ Announce(<<Payload("DATA_STATIC", {m})>>)
    /\ UNCHANGED <<api, wire, conn, untold, page>>

\* __start_machine__ and __stop_machine__, called by this page some time ago or by
\* another one: announced, and then made a task, or refused at once when there is one.
AcceptTask(kind, m) ==
    /\ m \in Defined
    /\ IF busy[m] = "none"
       THEN /\ busy' = [busy EXCEPT ![m] = kind]
            /\ Announce(<<Event(TASK_EVENT[kind].START, m)>>)
       ELSE /\ Announce(<<Event(TASK_EVENT[kind].START, m), Event(TASK_EVENT[kind].FAIL, m)>>)
            /\ UNCHANGED busy
    /\ UNCHANGED <<life, on, payload, wire, conn, untold, page>>

\* The task ends; what it answers need not be what the machine does.
TaskEnds(m, answer) ==
    /\ busy[m] # "none" /\ busy' = [busy EXCEPT ![m] = "none"]
    /\ Announce(<<Event(TASK_EVENT[busy[m]][answer], m)>>)
    /\ UNCHANGED <<life, on, payload, wire, conn, untold, page>>

\* The machine boots, shuts down, pauses or crashes, with a task or without.
Flip(m) ==
    /\ m \in Defined
    /\ on' = IF m \in on THEN on \ {m} ELSE on \cup {m}
    /\ UNCHANGED <<life, busy, payload, channel, page>>

\* Mutant: the task made last runs first.
SendLast ==
    /\ tasks # << >> /\ Len(wire) < MaxWire
    /\ tasks' = SubSeq(tasks, 1, Len(tasks) - 1) /\ wire' = Append(wire, tasks[Len(tasks)])
    /\ UNCHANGED <<api, conn, untold, page>>

\* A task sends its event.
SendEvent ==
    /\ tasks # << >> /\ Len(wire) < MaxWire
    /\ tasks' = Tail(tasks) /\ wire' = Append(wire, Head(tasks))
    /\ UNCHANGED <<api, conn, untold, page>>

\* A broadcast reads the data of the machines with rows; one it fails to read is left out,
\* but libvirt raises for one it does not know, and then nothing is sent.
Retrieve(type, ms) ==
    /\ payload = << >> /\ ms \subseteq Here /\ Orphans = {}
    /\ payload' = <<Payload(type, ms)>>
    /\ UNCHANGED <<life, on, busy, channel, page>>

Broadcast ==
    /\ payload # << >> /\ payload' = << >>
    /\ \/ conn /\ Len(wire) < MaxWire /\ wire' = wire \o payload
       \/ ~conn /\ UNCHANGED wire
    /\ UNCHANGED <<life, on, busy, tasks, conn, untold, page>>

-----------------------------------------------------------------------------
(* The connection.                                                          *)

\* accept: subscribed, and sent what there is; each of the payloads may fail.  The
\* static one reads libvirt, and shows a ghost again; the others read the database.  A
\* broadcast that was going over the subscriptions ends, since they have changed.
ConnectPage(sent) ==
    /\ ~conn /\ shows # "error" /\ conn' = TRUE /\ payload' = << >>
    /\ ("dynamic" \in sent => Orphans = {})
    /\ wire' = (IF "static" \in sent THEN <<Payload("DATA_STATIC", Defined)>> ELSE << >>)
               \o (IF "dynamic" \in sent THEN <<Payload("DATA_DYNAMIC", Here)>> ELSE << >>)
    /\ untold' = IF "static" \in sent THEN untold \cup (Defined \cap Ended) ELSE untold
    /\ UNCHANGED <<life, on, busy, tasks, page>>

\* What was under way is lost with the connection.
Deletions(s) == UNION {s[i].of : i \in {j \in 1 .. Len(s) : s[j].type = "DELETE"}}
Disconnected == conn' = FALSE /\ tasks' = << >> /\ wire' = << >>

Disconnect ==
    /\ conn /\ Disconnected
    /\ untold' = untold \cup Deletions(tasks) \cup Deletions(wire)
    /\ UNCHANGED <<api, page>>

\* Mutant: the page that is left keeps its machines for the next one.
UnmountedKeeping(next) == machines' = machines /\ shows' = next /\ untold' = {}

\* The hook goes with the page, its socket with the hook, and the next page starts anew.
Unmounted(next) == machines' = << >> /\ shows' = next /\ untold' = {}

LeavePage ==
    /\ shows = "machines" /\ conn /\ Disconnected /\ Unmounted("nothing")
    /\ UNCHANGED <<api>>

\* The button of the error boundary that loads the page again.
RefreshPage ==
    /\ shows = "error" /\ shows' = "nothing"
    /\ UNCHANGED <<api, channel, machines>>

-----------------------------------------------------------------------------
(* useMachineWebSocket.                                                     *)

\* Mutant: a machine in an error state keeps it whatever the broadcasts say.
UpdatedNotFromError(old, active) ==
    IF old = "ERROR" THEN "ERROR" ELSE IF active THEN "ACTIVE" ELSE "OFFLINE"

\* updateStateProperty, for a machine that is not loading.
Updated(old, active) ==
    IF active THEN "ACTIVE" ELSE IF old = "ERROR" THEN "ERROR" ELSE "OFFLINE"

\* Mutant: the merge of disks and connections is not limited to the machines known.
KeysUnpicked(msg) ==
    IF msg.type = "DELETE" THEN DOMAIN machines \ msg.of
    ELSE DOMAIN machines \cup (IF msg.type \in {"CREATE", "DATA_STATIC", "DATA_EXTRA"} THEN msg.of ELSE {})

\* The machines after a message: two kinds add some, and only DELETE removes one.
Keys(msg) ==
    IF msg.type = "DELETE" THEN DOMAIN machines \ msg.of
    ELSE DOMAIN machines \cup (IF msg.type \in {"CREATE", "DATA_STATIC"} THEN msg.of ELSE {})

\* What is shown after a message: a broadcast without a machine leaves it FETCHING.
OnNewMessage(msg) ==
    [m \in Keys(msg) |->
        CASE m \notin DOMAIN machines -> "FETCHING"
          [] msg.type = "CREATE" /\ m \in msg.of -> "FETCHING"
          [] msg.type = "DATA_DYNAMIC" -> IF m \in msg.of THEN Updated(machines[m], m \in msg.active) ELSE "FETCHING"
          [] msg.type \in DOMAIN STATE_MAP /\ m \in msg.of -> STATE_MAP[msg.type]
          [] OTHER -> machines[m]]

\* A message is rendered before the next one is taken.
Receive ==
    /\ wire # << >> /\ (shows = "machines" \/ Head(wire).type \notin DOMAIN STATE_MAP)
    /\ machines' = OnNewMessage(Head(wire)) /\ shows' = "machines"
    /\ wire' = Tail(wire)
    /\ UNCHANGED <<api, tasks, conn, untold>>

\* An event before any payload sets the state of null: the page goes to its error boundary.
Crash ==
    /\ wire # << >> /\ shows = "nothing" /\ Head(wire).type \in DOMAIN STATE_MAP
    /\ Unmounted("error") /\ Disconnected
    /\ UNCHANGED <<api>>

\* The two buttons of a machine's page, disabled while its state is about to change; that
\* they also hide until it changes is left out.
Press(kind, m) ==
    /\ m \in DOMAIN machines
    /\ machines[m] \in IF kind = "start" THEN Settled \ {"ACTIVE"} ELSE Settled \ {"OFFLINE", "ERROR"}
    /\ AcceptTask(kind, m)

\* The one button of a row, and that of a card: what it does depends on the state shown.
\* (Hidden for a second, and for those who may not use the machine: left out.)
Toggled(m) == IF machines[m] = "ACTIVE" THEN "stop" ELSE "start"
ToggleRow(m) == m \in DOMAIN machines /\ machines[m] \in Settled /\ AcceptTask(Toggled(m), m)
ToggleCard(m) == m \in DOMAIN machines /\ machines[m] \in Settled /\ AcceptTask(Toggled(m), m)

\* The two buttons over a selection, in their loop over its machines.
StartSelected(m) == m \in DOMAIN machines /\ machines[m] \in {"OFFLINE", "ERROR"} /\ AcceptTask("start", m)
StopSelected(m) == m \in DOMAIN machines /\ machines[m] = "ACTIVE" /\ AcceptTask("stop", m)

-----------------------------------------------------------------------------
FeedNext ==
    \/ \E m \in Machine :
          \/ Define(m) \/ Create(m) \/ DeleteRows(m) \/ KeepRows(m) \/ Vanish(m) \/ Modify(m)
          \/ \E end \in {"gone", "ghost"} :
                UndoCreate(m, end) \/ \E success \in BOOLEAN : Delete(m, end, success)
          \/ AcceptTask("start", m) \/ AcceptTask("stop", m)
          \/ TaskEnds(m, "SUCCESS") \/ TaskEnds(m, "FAIL") \/ Flip(m)
          \/ Press("start", m) \/ Press("stop", m) \/ ToggleRow(m) \/ ToggleCard(m) \/ StartSelected(m) \/ StopSelected(m)
    \/ \E ms \in SUBSET Here, type \in {"DATA_DYNAMIC", "DATA_EXTRA"} : Retrieve(type, ms)
    \/ SendEvent \/ Broadcast
    \/ \E sent \in SUBSET {"static", "dynamic"} : ConnectPage(sent)
    \/ Disconnect \/ LeavePage \/ RefreshPage \/ Receive \/ Crash

FeedSpec == FeedInit /\ [][FeedNext]_feedVars

\* What is sent is received and rendered, tasks of the event loop run, and the loops of
\* the broadcasts go on reading and sending, mostly without a failure.  Strong, where a
\* bound of the model may get in the way again and again.
FairFeedSpec ==
    /\ FeedSpec
    /\ WF_feedVars(Receive) /\ WF_feedVars(Crash) /\ SF_feedVars(SendEvent) /\ SF_feedVars(Broadcast)
    /\ SF_feedVars(Retrieve("DATA_DYNAMIC", Here))

-----------------------------------------------------------------------------
(* Properties.                                                              *)

\* What reaches the page, in this order: the wire, and then the events that are tasks.
Coming == wire \o tasks
Adds(msg, m) == msg.type \in {"CREATE", "DATA_STATIC"} /\ m \in msg.of
Deletes(msg, m) == msg.type = "DELETE" /\ m \in msg.of

\* A machine whose deletion has ended is on its way out of the page: where the page shows
\* it, or is sent what would show it, its deletion comes after.  Unless the page is not sent
\* the end: it was disconnected, the deletion or creation failed, or a connection showed a
\* ghost again; such a machine stays until the page is left.
DeletionComesLast ==
    \A m \in Ended \ untold :
        /\ m \in DOMAIN machines => \E k \in DOMAIN Coming : Deletes(Coming[k], m)
        /\ \A j \in DOMAIN Coming : Adds(Coming[j], m) =>
               \E k \in DOMAIN Coming : k > j /\ Deletes(Coming[k], m)

\* A machine that was deleted goes from the page too, and no message that was read before
\* brings it back for good: unless the page is not sent the end.
DeletedDisappears ==
    \A m \in Machine : m \in Ended /\ m \in DOMAIN machines ~> m \notin DOMAIN machines \/ m \in untold

\* While a machine that is shown stays as it is and no task works on it, the page comes
\* to show the state it has again and again, whatever events and broadcasts were lost
\* or overtaken; in between a failing read may make it FETCHING.  One orphan, of any
\* page, ends all broadcasts, and with them this.
Quiet(m, active) ==
    /\ conn /\ life[m] = "here" /\ m \in DOMAIN machines /\ Orphans = {}
    /\ busy[m] = "none" /\ (m \in on <=> active)
DisplayConverges ==
    \A m \in Machine, active \in BOOLEAN :
        <>[]Quiet(m, active) =>
            []<>(m \in DOMAIN machines => machines[m] \in IF active THEN {"ACTIVE"} ELSE {"OFFLINE", "ERROR"})
===============================================================================
