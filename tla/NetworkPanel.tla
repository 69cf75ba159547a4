----------------------------- MODULE NetworkPanel -----------------------------
(***************************************************************************)
(* The network panel: the page that loads the machines and the workspace   *)
(* of the account selected, lets its flow be edited by hand and by the     *)
(* form of the selected node, and saves it in two requests.                *)
(*                                                                         *)
(* No request is ever cancelled and answers come in any order.  The graph  *)
(* is not modelled: a flow is known by the account its machines and its    *)
(* workspace were loaded for, and its changes by the part of it that has   *)
(* to be sent for them.                                                    *)
(***************************************************************************)
EXTENDS Naturals, Sequences, SequencesExt

CONSTANTS
    Account,
    Self,        \* the account that is signed in
    None,        \* no account
    Mixed,       \* the machines of one account in the workspace of another
    MaxRequests  \* bound: the requests of the page that wait for an answer

ASSUME PanelAssumption == {None, Mixed} \cap Account = {} /\ None # Mixed /\ Self \in Account /\ MaxRequests \in Nat

VARIABLES
    selected,  \* selectedAccountUuid
    machines,  \* the account useFetch holds the machines of
    blank,     \* machinesError: the page shows nothing
    flow,      \* nodes and edges: the account whose machines and workspace they are
    picked,    \* some node is selected and its form is shown
    requests,  \* the requests for machines and workspaces, in the order they were made
    current,   \* history: the last answer of each kind succeeded and none overtook it
    isDirty,
    unsaved,   \* history: the changes of each part that no successful request has sent
    late,      \* history: the parts changed after the running save took their data
    asking,    \* the modal that is open, the account to switch to when it is for that
    apply      \* applyNetworkConfig, when it is running

loading == <<machines, blank, requests, current>>
changes == <<isDirty, unsaved, late>>
vars == <<selected, flow, picked, asking, apply, changes, loading>>

Flow == Account \cup {None, Mixed}
FlowWith(ms, workspace) == IF ms = workspace THEN ms ELSE Mixed

\* The parts of the flow that are saved, each by a request of its own; names are not.
Part == {"positions", "networks"}

\* told: there are changes the page is bound to warn of, that is those it marked as
\* unsaved with nothing left to load.  hidden: there are changes, all of another kind.
Kept == {"no", "hidden", "told"}
Nothing == [p \in Part |-> "no"]

\* gives: what will be shown.  warned: the user was told that what is unsaved will be
\* lost.  init: made by initFlow.
Kind == {"machines", "workspace"}
Request == [kind : Kind, gives : Account \cup {Mixed},
            init : BOOLEAN, warned : BOOLEAN, overtaken : BOOLEAN]

\* own: the click found the page settled, and nothing was loaded since.
Idle == [stage |-> "no", to |-> None, data |-> None, own |-> FALSE]
Apply == [stage : {"no", "positions", "networks"}, to : Account \cup {None}, data : Flow, own : BOOLEAN]

Requested(kind, gives, init, warned) ==
    [kind |-> kind, gives |-> gives, init |-> init, warned |-> warned, overtaken |-> FALSE]

\* The shape of the state; a page that failed holds no machines, and isDirty is true as
\* long as there are changes the page is bound to warn of.
NetworkTypeOK ==
    /\ selected \in Account /\ machines \in Account \cup {None}
    /\ blank \in BOOLEAN /\ (blank => machines = None)
    /\ flow \in Flow /\ picked \in BOOLEAN
    /\ \A i \in DOMAIN requests : requests[i] \in Request
    /\ current \in [Kind -> BOOLEAN]
    /\ isDirty \in {"null", "true", "false"} /\ unsaved \in [Part -> Kept] /\ late \subseteq Part
    /\ asking \in Account \cup {"no", "refresh", "restore"}
    /\ apply \in Apply /\ (apply.stage = "no" => apply = Idle)
    /\ ((\E p \in Part : unsaved[p] = "told") => isDirty = "true")

\* Nothing waits for an answer and no answer failed or came out of order: the page shows
\* the machines of the account selected in the workspace of that account.
Settled == requests = << >> /\ current.machines /\ current.workspace
SettledFlowIsOfSelected == Settled => flow = selected

Init ==
    /\ selected = Self /\ machines = None /\ blank = FALSE
    /\ flow = None /\ picked = FALSE
    /\ requests = <<Requested("machines", Self, FALSE, FALSE)>>
    /\ current = [kind \in Kind |-> FALSE]
    /\ isDirty = "null" /\ unsaved = Nothing /\ late = {} /\ asking = "no" /\ apply = Idle

-----------------------------------------------------------------------------
(* Editing.                                                                 *)

CanEdit == ~blank /\ asking = "no"

\* The parts whose data the running save has taken already.
Taken == CASE apply.stage = "no" -> {} [] apply.stage = "positions" -> {"positions"}
           [] apply.stage = "networks" -> Part

\* flagged: the handler calls setIsDirty(true).
Changed(parts, flagged) ==
    /\ unsaved' = [p \in Part |->
           CASE p \notin parts -> unsaved[p]
             [] flagged /\ requests = << >> -> "told"
             [] OTHER -> IF unsaved[p] = "told" THEN "told" ELSE "hidden"]
    /\ late' = late \cup (parts \cap Taken)
    /\ isDirty' = IF flagged THEN "true" ELSE isDirty
    /\ UNCHANGED <<selected, flow, asking, apply, loading>>

\* onNodesChange: a node is moved; or only selected or unselected, which counts as a change.
MoveNode == CanEdit /\ flow # None /\ Changed({"positions"}, TRUE) /\ UNCHANGED picked
SelectNode == CanEdit /\ flow # None /\ picked' = ~picked /\ Changed({}, TRUE)

\* onEdgesChange: edges are deleted.
ChangeEdges == CanEdit /\ flow # None /\ Changed({"networks"}, TRUE) /\ UNCHANGED picked

\* onNodesConnect: an edge, and a new network in the middle when it joins two machines.
ConnectNodes(new) ==
    /\ CanEdit /\ flow # None
    /\ Changed({"networks"} \cup (IF new THEN {"positions"} ELSE {}), TRUE) /\ UNCHANGED picked

\* What the page does for the form of the selected node.
ByForm(parts, flagged) == CanEdit /\ picked /\ Changed(parts, flagged)

\* onManualEdgeCreation, onManualIntnetCreation: an edge is added as if drawn by hand.
LinkByForm == ByForm({"networks"}, TRUE) /\ UNCHANGED picked
CreateIntnetByForm == ByForm({"positions", "networks"}, TRUE) /\ UNCHANGED picked

\* onManualEdgeRemoval and onIntnetRemove do not set isDirty; nor does onIntnetRename,
\* whose names no request sends.  A removed network takes its node along and leaves its
\* edges, which are sent like the others.
UnlinkByForm == ByForm({"networks"}, FALSE) /\ UNCHANGED picked
RemoveIntnet == ByForm({"positions"}, FALSE) /\ picked' = FALSE

-----------------------------------------------------------------------------
(* Loading.                                                                 *)

Ask(r) == Len(requests) < MaxRequests /\ requests' = Append(requests, r)

\* executeWorkspaceSwitch: the path of the machines changes, so they are fetched.
ExecuteSwitch(a, warned) ==
    /\ selected' = a
    /\ Ask(Requested("machines", a, FALSE, warned))
    /\ UNCHANGED <<machines, blank, current, flow, picked, changes, apply>>

\* For the mutants: the switch does not look at isDirty.
SubmitOptionUnasked(a) ==
    /\ CanEdit /\ a # selected /\ ExecuteSwitch(a, FALSE) /\ UNCHANGED asking

\* handleOptionSubmit of another account.
SubmitOption(a) ==
    /\ CanEdit /\ a # selected
    /\ \/ isDirty = "true" /\ asking' = a
          /\ UNCHANGED <<selected, flow, picked, changes, apply, loading>>
       \/ isDirty # "true" /\ ExecuteSwitch(a, FALSE) /\ UNCHANGED asking

\* The modals of the refresh and restore buttons.
OpenModal(modal) ==
    /\ CanEdit /\ isDirty = "true" /\ asking' = modal
    /\ UNCHANGED <<selected, flow, picked, changes, apply, loading>>

CancelModal ==
    /\ asking # "no" /\ asking' = "no"
    /\ UNCHANGED <<selected, flow, picked, changes, apply, loading>>

ConfirmSwitch ==
    /\ asking \in Account \ {selected} /\ ~blank
    /\ ExecuteSwitch(asking, TRUE) /\ asking' = "no"

\* refreshMachines.
Refresh(warned) ==
    /\ Ask(Requested("machines", selected, FALSE, warned)) /\ asking' = "no"
    /\ UNCHANGED <<selected, machines, blank, current, flow, picked, changes, apply>>

RefreshClean == CanEdit /\ isDirty # "true" /\ Refresh(FALSE)
ConfirmRefresh == asking = "refresh" /\ ~blank /\ Refresh(TRUE)

\* resetFlow, with the machines and the account the page has when it is called.
ConfirmRestore ==
    /\ asking = "restore" /\ ~blank /\ asking' = "no"
    /\ Ask(Requested("workspace", FlowWith(machines, selected), FALSE, TRUE))
    /\ UNCHANGED <<selected, machines, blank, current, flow, picked, changes, apply>>

\* The request at i is answered: those of its kind made before it are overtaken.
Others(i) ==
    [j \in 1 .. Len(requests) - 1 |->
        IF j < i /\ requests[j].kind = requests[i].kind
        THEN [requests[j] EXCEPT !.overtaken = TRUE] ELSE requests[IF j < i THEN j ELSE j + 1]]

Answered(i, ok) == current' = [current EXCEPT ![requests[i].kind] = ok /\ ~requests[i].overtaken]

\* For the mutants: initFlow closes over the machines of the render before.
AnswerMachinesStale(i) ==
    /\ i \in DOMAIN requests /\ requests[i].kind = "machines"
    /\ machines' = requests[i].gives /\ blank' = FALSE /\ Answered(i, TRUE)
    /\ requests' = Append(Others(i),
           Requested("workspace", FlowWith(machines, selected), TRUE, requests[i].warned))
    /\ UNCHANGED <<selected, flow, picked, changes, asking, apply>>

\* useFetch sets the machines it is answered with, whoever they were asked for; and the
\* effect of the render that shows them runs initFlow.
AnswerMachines(i) ==
    /\ i \in DOMAIN requests /\ requests[i].kind = "machines"
    /\ machines' = requests[i].gives /\ blank' = FALSE /\ Answered(i, TRUE)
    /\ requests' = Append(Others(i),
           Requested("workspace", FlowWith(requests[i].gives, selected), TRUE, requests[i].warned))
    /\ UNCHANGED <<selected, flow, picked, changes, asking, apply>>

Hidden(kept) == [p \in Part |-> IF kept[p] = "told" THEN "hidden" ELSE kept[p]]

\* onError: there is no page any more, with its form and its modals, unless an older
\* request is answered yet.
MachinesFail(i) ==
    /\ i \in DOMAIN requests /\ requests[i].kind = "machines"
    /\ machines' = None /\ blank' = TRUE /\ Answered(i, FALSE) /\ requests' = Others(i)
    /\ unsaved' = IF requests[i].warned THEN Hidden(unsaved) ELSE unsaved
    /\ asking' = "no"
    /\ UNCHANGED <<selected, flow, picked, isDirty, late, apply>>

\* loadFlowWithIntnets replaces all nodes and edges; initFlow then resets isDirty.
AnswerWorkspace(i) ==
    /\ i \in DOMAIN requests /\ requests[i].kind = "workspace"
    /\ flow' = requests[i].gives /\ picked' = FALSE
    /\ unsaved' = Nothing /\ late' = {} /\ requests' = Others(i) /\ Answered(i, TRUE)
    /\ isDirty' = IF requests[i].init THEN "null" ELSE isDirty
    /\ apply' = [apply EXCEPT !.own = FALSE]
    /\ UNCHANGED <<selected, machines, blank, asking>>

\* resetFlow rejects: initFlow notifies of an error, and the flow stays as it is.
WorkspaceFails(i) ==
    /\ i \in DOMAIN requests /\ requests[i].kind = "workspace"
    /\ requests' = Others(i) /\ Answered(i, FALSE)
    /\ UNCHANGED <<selected, machines, blank, flow, picked, changes, asking, apply>>

-----------------------------------------------------------------------------
(* Saving and leaving.                                                      *)

\* applyNetworkConfig: the positions are taken and sent to the account selected.
\* (Bound: one save at a time; the button stays enabled while one runs.)
StartApply ==
    /\ CanEdit /\ isDirty = "true" /\ apply.stage = "no"
    /\ apply' = [stage |-> "positions", to |-> selected, data |-> flow, own |-> Settled]
    /\ UNCHANGED <<selected, flow, picked, changes, asking, loading>>

\* handleAxiosError returns the error: a failed request does not stop what follows.
Sent(part, ok) == IF ok /\ part \notin late THEN [unsaved EXCEPT ![part] = "no"] ELSE unsaved

\* For the mutants: the path is read when the second request is made.
PutPositionsLate(ok) ==
    /\ apply.stage = "positions"
    /\ apply' = [apply EXCEPT !.stage = "networks", !.data = flow, !.to = selected]
    /\ unsaved' = Sent("positions", ok)
    /\ UNCHANGED <<selected, flow, picked, isDirty, late, asking, loading>>

\* The positions are answered; the edges are taken now and sent, by the handler of
\* the click, to the account that was selected then.
PutPositions(ok) ==
    /\ apply.stage = "positions"
    /\ apply' = [apply EXCEPT !.stage = "networks", !.data = flow]
    /\ unsaved' = Sent("positions", ok)
    /\ UNCHANGED <<selected, flow, picked, isDirty, late, asking, loading>>

\* The networks are answered, and isDirty is reset whatever came of the two requests
\* and of the flow in the meantime: what is left, the page does not know of.
PutNetworks(ok) ==
    /\ apply.stage = "networks" /\ apply' = Idle
    /\ isDirty' = "false"
    /\ unsaved' = Hidden(Sent("networks", ok)) /\ late' = {}
    /\ UNCHANGED <<selected, flow, picked, asking, loading>>

\* The page is left and entered again; the prompt is part of the page, and what comes
\* of the requests it left behind is not shown by the next one.
Reenter ==
    /\ selected' = Self /\ machines' = None /\ blank' = FALSE
    /\ flow' = None /\ picked' = FALSE
    /\ requests' = <<Requested("machines", Self, FALSE, FALSE)>>
    /\ current' = [kind \in Kind |-> FALSE]
    /\ isDirty' = "null" /\ unsaved' = Nothing /\ late' = {} /\ asking' = "no" /\ apply' = Idle

Leave == asking = "no" /\ (blank \/ isDirty # "true") /\ Reenter
ConfirmLeave == CanEdit /\ isDirty = "true" /\ Reenter

-----------------------------------------------------------------------------
Edit ==
    \/ MoveNode \/ SelectNode \/ ChangeEdges \/ \E new \in BOOLEAN : ConnectNodes(new)
    \/ LinkByForm \/ CreateIntnetByForm \/ UnlinkByForm \/ RemoveIntnet

Load ==
    \/ \E a \in Account : SubmitOption(a)
    \/ \E modal \in {"refresh", "restore"} : OpenModal(modal)
    \/ CancelModal \/ ConfirmSwitch \/ RefreshClean \/ ConfirmRefresh \/ ConfirmRestore
    \/ \E i \in 1 .. MaxRequests :
        AnswerMachines(i) \/ MachinesFail(i) \/ AnswerWorkspace(i) \/ WorkspaceFails(i)

Save == StartApply \/ \E ok \in BOOLEAN : PutPositions(ok) \/ PutNetworks(ok)

Next == Edit \/ Load \/ Save \/ Leave \/ ConfirmLeave

Spec == Init /\ [][Next]_vars

-----------------------------------------------------------------------------
\* A change the page is bound to warn of disappears from it only when it is sent, or
\* when the user confirmed the load that replaces it or the leave: the modals of the
\* workspace select, of the refresh and restore buttons and the prompt leave no gap.
LostWarned ==
    (\E p \in Part : unsaved[p] = "told" /\ unsaved'[p] = "no") =>
        \/ PutPositions(TRUE) \/ PutNetworks(TRUE) \/ ConfirmLeave
        \/ \E i \in DOMAIN requests : requests[i].warned /\ AnswerWorkspace(i)
LostChangesWereWarned == [][LostWarned]_vars

\* Both requests of a save that was started on a settled page, and during which nothing
\* was loaded, carry the flow of the account they are sent to, whatever is selected since.
SavedToItsAccount == apply.own => apply.data = apply.to
=============================================================================
