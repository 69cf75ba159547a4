----------------------------- MODULE MachineForms -----------------------------
(***************************************************************************)
(* The forms that create machines: a stack of four pages, hosted by the    *)
(* modal of one machine, which sends it, or by the modal of many, which    *)
(* lists it and sends the list.                                            *)
(*                                                                         *)
(* What is in a form is abstracted to what its checks look at: whether the *)
(* title, tags and names of disks are valid, and whether a source is       *)
(* selected.  Disks are told apart, for the system disk is known by its    *)
(* index.                                                                  *)
(*                                                                         *)
(* A page that is closed goes with a transition.  One that another page    *)
(* comes over is out of reach at once; the last page is not, and its       *)
(* button, which is never disabled, may be clicked again until it is gone. *)
(* (Clicks on another button of a page that goes are left out.)            *)
(***************************************************************************)
EXTENDS Naturals, Sequences, SequencesExt

CONSTANTS
    Disk,        \* the disks that can be added to those a form has at first
    System,      \* the disk a form has at first
    MaxForms,    \* bound: how often the form of a machine is opened
    MaxClicks,   \* bound: how often the last button of one form is clicked
    MaxRequests  \* bound: the requests that wait for an answer

ASSUME FormsAssumption ==
    System \notin Disk /\ MaxForms \in Nat /\ MaxClicks \in Nat \ {0} /\ MaxRequests \in Nat

VARIABLES
    host,      \* the modal the button has opened: single or bulk
    shown,     \* bulk: that modal is open; single: the prop `opened' of the form
    support,   \* bulk: supportModalOpened, the prop `opened' of the form
    page,      \* the page of the stack that is open
    closing,   \* the last page is submitted and in its transition
    clicks,    \* history: how often the button of the last page was clicked, for this form
    form,      \* the values of the form
    marked,    \* history: the disk the user marked last; none when its mark may be lost
    machines,  \* bulk: form.values.machines
    group,     \* bulk: create_for_group_mode and form.values.group
    requests,  \* the requests that wait for an answer
    posted     \* history: what was sent, of which form and for which click

bulk == <<machines, group>>
last == <<closing, clicks>>
vars == <<host, shown, support, page, last, form, marked, bulk, requests, posted>>

Disks == Disk \cup {System}
Page == {"none", "details", "source", "config", "disks"}
Forms == 0 .. MaxForms

\* id: which filling of the form this is.  invalid: the disks whose name is not valid.
Form == [id : Forms, details : BOOLEAN, source : BOOLEAN, disks : Seq(Disks),
         invalid : SUBSET Disks, os_disk : Nat]

\* What a form has submitted, of which nothing looks at the disks again.  click: which click
\* submitted it.
Machine == [id : Forms, click : 1 .. MaxClicks, details : BOOLEAN, source : BOOLEAN,
            invalid : SUBSET Disks]
Group == [mode : BOOLEAN, chosen : BOOLEAN]

\* initialValues.
Fresh(id) == [id |-> id, details |-> TRUE, source |-> FALSE, disks |-> <<System>>,
              invalid |-> {}, os_disk |-> 0]
NoGroup == [mode |-> FALSE, chosen |-> FALSE]

Opened == IF host = "single" THEN shown ELSE support

\* The shape of the state, and: a page is open only in a form that is, and a form holds
\* each disk once and has one at least.
FormsTypeOK ==
    /\ host \in {"single", "bulk"} /\ {shown, support} \subseteq BOOLEAN
    /\ page \in Page /\ (page # "none" => Opened) /\ (support => shown)
    /\ closing \in BOOLEAN /\ clicks \in 0 .. MaxClicks
    /\ form \in Form /\ form.disks # << >> /\ IsInjective(form.disks)
    /\ form.invalid \subseteq ToSet(form.disks) /\ marked \in Disks \cup {"none"}
    /\ machines \in Seq(Machine) /\ group \in Group
    /\ requests \in Seq([entries : Seq(Machine), group : Group])
    /\ Len(requests) <= MaxRequests /\ posted \subseteq Forms \X (1 .. MaxClicks)

Init ==
    /\ host \in {"single", "bulk"} /\ shown = FALSE /\ support = FALSE /\ page = "none"
    /\ closing = FALSE /\ clicks = 0 /\ form = Fresh(0) /\ marked = System
    /\ machines = << >> /\ group = NoGroup /\ requests = << >> /\ posted = {}

-----------------------------------------------------------------------------
(* Opening and closing.                                                     *)

\* The effect of `opened': the form is reset, and its first page is opened.
Opens ==
    /\ form.id < MaxForms /\ form' = Fresh(form.id + 1) /\ clicks' = 0 /\ marked' = System
    /\ page' = "details" /\ UNCHANGED closing

\* The parts of CreateMachineSplitButton.  A modal covers the button, except when the form
\* of one machine waits for its answer with `opened' still set: nothing happens then.
Open ==
    /\ ~shown /\ ~closing /\ shown' = TRUE
    /\ IF host = "single" THEN Opens ELSE UNCHANGED <<form, marked, page, last>>
    /\ UNCHANGED <<host, support, bulk, requests, posted>>

\* The bulk modal is open, and nothing covers it.
OnList == host = "bulk" /\ shown /\ ~support /\ ~closing

\* createEntry: the form is opened over the list.
CreateEntry ==
    /\ OnList /\ support' = TRUE /\ Opens
    /\ UNCHANGED <<host, shown, bulk, requests, posted>>

\* onClose of every page: the stack is closed by the effect.
CloseForm ==
    /\ page # "none" /\ page' = "none"
    /\ IF host = "single" THEN shown' = FALSE /\ UNCHANGED support ELSE support' = FALSE /\ UNCHANGED shown
    /\ UNCHANGED <<host, last, form, marked, bulk, requests, posted>>

\* The transition of the last page ends.
PageGone == closing /\ closing' = FALSE
            /\ UNCHANGED <<host, shown, support, page, clicks, form, marked, bulk, requests, posted>>

\* The cross of the bulk modal keeps what is listed, its button resets it.
CloseBulk(reset) ==
    /\ OnList /\ shown' = FALSE
    /\ IF reset THEN machines' = << >> /\ group' = NoGroup ELSE UNCHANGED bulk
    /\ UNCHANGED <<host, support, page, last, form, marked, requests, posted>>

-----------------------------------------------------------------------------
(* Filling the form.                                                        *)

Filled(p, f) ==
    /\ page = p /\ form' = f
    /\ UNCHANGED <<host, shown, support, page, last, bulk, requests, posted>>

EditDetails(valid) == Filled("details", [form EXCEPT !.details = valid]) /\ UNCHANGED marked

\* The uuid is kept when the type of the source is changed, whatever it is the uuid of.
SelectSource(some) == Filled("source", [form EXCEPT !.source = some]) /\ UNCHANGED marked

\* createNewDisk: its name is empty.
CreateNewDisk(d) ==
    /\ d \in Disk \ ToSet(form.disks)
    /\ Filled("disks", [form EXCEPT !.disks = Append(@, d), !.invalid = @ \cup {d}])
    /\ UNCHANGED marked

EditDisk(d, valid) ==
    /\ d \in ToSet(form.disks)
    /\ Filled("disks", [form EXCEPT !.invalid = IF valid THEN @ \ {d} ELSE @ \cup {d}])
    /\ UNCHANGED marked

MarkDisk(i) ==
    /\ i \in DOMAIN form.disks /\ Filled("disks", [form EXCEPT !.os_disk = i - 1])
    /\ marked' = form.disks[i]

\* canRemoveDisk, which is true for the disks whose button is disabled.
CanRemoveDisk(i) == Len(form.disks) <= 1 \/ form.os_disk = i - 1

Removed(i, index) ==
    [form EXCEPT !.disks = RemoveAt(@, i), !.invalid = @ \ {form.disks[i]}, !.os_disk = index]

\* For the mutants: the index is kept.
RemoveDiskUnshifted(i) ==
    /\ i \in DOMAIN form.disks /\ ~CanRemoveDisk(i)
    /\ Filled("disks", Removed(i, form.os_disk)) /\ UNCHANGED marked

\* removeDisk: the index follows the disk it marks.
RemoveDisk(i) ==
    /\ i \in DOMAIN form.disks /\ ~CanRemoveDisk(i)
    /\ Filled("disks", Removed(i, IF form.os_disk >= i - 1 THEN form.os_disk - 1 ELSE form.os_disk))
    /\ UNCHANGED marked

-----------------------------------------------------------------------------
(* Paging.                                                                  *)

Turn(from, to, f) ==
    /\ page = from /\ page' = to /\ form' = f
    /\ UNCHANGED <<host, shown, support, last, bulk, requests, posted>>

NextDetails == form.details /\ Turn("details", "source", form) /\ UNCHANGED marked

\* For the mutants: the page is left unvalidated.
NextSourceUnvalidated == Turn("source", "config", form) /\ UNCHANGED marked
NextSource == form.source /\ Turn("source", "config", form) /\ UNCHANGED marked
NextConfig == Turn("config", "disks", form) /\ UNCHANGED marked

\* resetSourcePage.
PreviousSource == Turn("source", "details", [form EXCEPT !.source = FALSE]) /\ UNCHANGED marked
PreviousConfig == Turn("config", "source", form) /\ UNCHANGED marked

\* resetDisksPage resets the disks and keeps os_disk, the index of one that may be gone.
PreviousDisks ==
    /\ Turn("disks", "config", [form EXCEPT !.disks = <<System>>, !.invalid = {}])
    /\ marked' = IF form.os_disk = 0 THEN System ELSE "none"

-----------------------------------------------------------------------------
(* Submitting.                                                              *)

Ticket(m) == <<m.id, m.click>>
Send(entries) ==
    /\ Len(requests) < MaxRequests
    /\ requests' = Append(requests, [entries |-> entries, group |-> group])
    /\ posted' = posted \cup {Ticket(entries[i]) : i \in DOMAIN entries}

\* The button of the last page is clicked, for the first time or again: the page is open,
\* or it is going.  validateDisksForm.
Complete == (page = "disks" \/ closing) /\ form.invalid = {}

\* stack.close starts the transition; the values stay until the form is opened again.
Click ==
    /\ Complete /\ clicks < MaxClicks /\ clicks' = clicks + 1
    /\ page' = "none" /\ closing' = TRUE
Entry == [id |-> form.id, click |-> clicks + 1, details |-> form.details, source |-> form.source,
          invalid |-> form.invalid]

\* For the mutants: the modal is closed at once, as that of many machines is.
SubmitMachineClosing ==
    /\ host = "single" /\ Click /\ shown' = FALSE /\ Send(<<Entry>>)
    /\ UNCHANGED <<host, support, form, marked, bulk>>

\* submitMachine: the page is closed, and the modal stays open until the answer.
SubmitMachine ==
    /\ host = "single" /\ Click /\ Send(<<Entry>>)
    /\ UNCHANGED <<host, shown, support, form, marked, bulk>>

\* addMachine.
AddMachine ==
    /\ host = "bulk" /\ Click /\ support' = FALSE /\ machines' = Append(machines, Entry)
    /\ UNCHANGED <<host, shown, form, marked, group, requests, posted>>

RemoveMachine(i) ==
    /\ OnList /\ i \in DOMAIN machines /\ machines' = RemoveAt(machines, i)
    /\ UNCHANGED <<host, shown, support, page, last, form, marked, group, requests, posted>>

SetGroup(g) ==
    /\ OnList /\ group' = g
    /\ (g.chosen # group.chosen => group.mode)  \* the select is shown in that mode only
    /\ UNCHANGED <<host, shown, support, page, last, form, marked, machines, requests, posted>>

\* For the mutants: onClose in place of close.
SubmitKeeping ==
    /\ OnList /\ (group.mode => group.chosen)
    /\ shown' = FALSE /\ Send(machines)
    /\ UNCHANGED <<host, support, page, last, form, marked, bulk>>

\* submit: the group is validated, the modal is reset and closed, and the list is sent,
\* an empty one too.
Submit ==
    /\ OnList /\ (group.mode => group.chosen)
    /\ shown' = FALSE /\ machines' = << >> /\ group' = NoGroup
    /\ Send(machines)
    /\ UNCHANGED <<host, support, page, last, form, marked>>

\* The answer, good or bad: the modal of one machine closes; for many there is but a
\* notification.
Answer(i) ==
    /\ i \in DOMAIN requests /\ requests' = RemoveAt(requests, i)
    /\ IF host = "single" THEN shown' = FALSE /\ page' = "none" ELSE UNCHANGED <<shown, page>>
    /\ UNCHANGED <<host, support, last, form, marked, bulk, posted>>

-----------------------------------------------------------------------------
Fill ==
    \/ \E b \in BOOLEAN : EditDetails(b) \/ SelectSource(b) \/ \E d \in Disks : EditDisk(d, b)
    \/ \E d \in Disk : CreateNewDisk(d)
    \/ \E i \in DOMAIN form.disks : MarkDisk(i) \/ RemoveDisk(i)

Turns == NextDetails \/ NextSource \/ NextConfig \/ PreviousSource \/ PreviousConfig \/ PreviousDisks

List ==
    \/ CreateEntry \/ \E reset \in BOOLEAN : CloseBulk(reset)
    \/ AddMachine \/ Submit \/ \E i \in DOMAIN machines : RemoveMachine(i)
    \/ \E g \in Group : SetGroup(g)

Next ==
    \/ Open \/ CloseForm \/ PageGone \/ Fill \/ Turns \/ SubmitMachine \/ List
    \/ \E i \in DOMAIN requests : Answer(i)

Spec == Init /\ [][Next]_vars

-----------------------------------------------------------------------------
\* The disk the user marked is the one at os_disk, whatever was added and removed since,
\* unless the page of the disks was reset with another disk marked: the index may be out
\* of range then.
SystemDiskIsMarked ==
    marked # "none" => form.os_disk < Len(form.disks) /\ form.disks[form.os_disk + 1] = marked

\* What waits for an answer passes every check of the form and of the list, on whichever
\* of the pages it was edited last.
Valid(m) == m.details /\ m.source /\ m.invalid = {}
SentIsValid ==
    \A i \in DOMAIN requests :
        /\ \A j \in DOMAIN requests[i].entries : Valid(requests[i].entries[j])
        /\ requests[i].group.mode => requests[i].group.chosen

\* The answer to the request for one machine closes no form but its own: no page is open
\* while it is waited for.  Unless a last button was clicked twice: the first of its answers
\* makes way for another form, which the second closes.
AnswerClosesItsForm ==
    (host = "single" /\ requests # << >> /\ \A t \in posted : t[2] = 1) => page = "none"

\* One click on the last button is one machine, however its form, the list and the requests
\* take turns: what it submitted is listed once, or sent once and listed no more, and is not
\* in a form that is open.  A click more, while the page goes, is one machine more.
OneClickOneMachine ==
    /\ \A i, j \in DOMAIN machines : i # j => Ticket(machines[i]) # Ticket(machines[j])
    /\ \A i \in DOMAIN machines : Ticket(machines[i]) \notin posted
    /\ \A i, j \in DOMAIN requests : i # j =>
           \A e \in ToSet(requests[i].entries), f \in ToSet(requests[j].entries) : Ticket(e) # Ticket(f)
    /\ page # "none" => \A t \in posted \cup {Ticket(m) : m \in ToSet(machines)} : t[1] # form.id
===============================================================================
