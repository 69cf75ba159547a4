----------------------------- MODULE AccountsPage -----------------------------
(***************************************************************************)
(* The page of accounts: the list and its requests, the record table with  *)
(* its search, its selection and its delete button, the options of a row,  *)
(* the modal that shows and edits one account, the one that changes its    *)
(* password, and the one that makes an account.  The tables of groups, ISO *)
(* files and templates are the same record table.                          *)
(*                                                                         *)
(* An account is a version that only grows: not created yet, there, and    *)
(* deleted.  What a modification changes is left out.                      *)
(***************************************************************************)
EXTENDS Naturals, FiniteSets, SequencesExt

CONSTANTS
    Order,       \* the accounts, in the order in which the API lists them
    Existing,    \* those that exist when the page is opened
    Searches,    \* what the user may search for, each by the accounts it matches
    NoOne,
    MaxRequests  \* bound: the requests of the page that wait for their answers

Account == ToSet(Order)

ASSUME PageAssumption ==
    /\ Order \in Seq(Account) /\ IsInjective(Order) /\ Existing \subseteq Account
    /\ Searches \subseteq SUBSET Account /\ Account \in Searches /\ NoOne \notin Account
    /\ MaxRequests \in Nat \ {0}

VARIABLES
    server,     \* the versions of the accounts in the database
    requests,   \* the requests of the page that are not answered
    list,       \* useFetch of the page: whether it has the list, and the versions of its rows
    selection,  \* the row selection of the table
    filter,     \* the accounts that match the search
    uuids,      \* modals.delete.props.uuids
    confirm,    \* what the open modal of a deletion deletes
    modal,      \* modalsOpened, accountModalInEditMode and currentUuid
    user,       \* useFetch of the account modal: the account it has
    chosen,     \* history: the accounts selected since the page was rendered last
    mine,       \* history: the versions this page was told it has made
    latest      \* history: the list is the answer to the last request for it

table == <<selection, filter, uuids, chosen>>
pageVars == <<server, requests, list, table, confirm, modal, user, mine, latest>>

Version == 0 .. 2
Rows == [Account -> Version]
NoRows == [a \in Account |-> 0]

\* Loading, or failed: there are no rows either way.
NoList == [shown |-> FALSE, rows |-> NoRows]

PageRequest ==
    [kind : {"list", "user", "delete", "deleteRow", "create", "save", "password"}, who : SUBSET Account,
     served : BOOLEAN, rows : Rows, last : BOOLEAN]

New(kind, who) == [kind |-> kind, who |-> who, served |-> FALSE, rows |-> NoRows, last |-> TRUE]

\* A request for the list is the last one until the next is sent.
Send(sent, request) ==
    Append([i \in DOMAIN sent |-> [sent[i] EXCEPT !.last = @ /\ {sent[i].kind, request.kind} # {"list"}]],
           request)

\* The shape of the state; the delete button deletes only accounts that were listed, and
\* the rows that are kept are those of a list that was answered.
PageTypeOK ==
    /\ server \in Rows /\ requests \in Seq(PageRequest) /\ Len(requests) <= MaxRequests /\ mine \in Rows
    /\ list \in [shown : BOOLEAN, rows : Rows]
    /\ (~list.shown => list.rows = NoRows)
    /\ selection \subseteq Account /\ filter \in Searches
    /\ uuids \in Seq(Account) /\ chosen \subseteq Account /\ \A a \in chosen : server[a] > 0
    /\ confirm \in {"none", "selected"} \cup Account
    /\ modal \in [opened : BOOLEAN, edit : BOOLEAN, password : BOOLEAN, uuid : Account \cup {NoOne}]
    /\ user \in Account \cup {NoOne} /\ latest \in BOOLEAN

\* (The request of the modal for no account, which fails, is left out.)
PageInit ==
    /\ server = [a \in Account |-> IF a \in Existing THEN 1 ELSE 0]
    /\ requests = <<New("list", {})>>
    /\ list = NoList
    /\ selection = {} /\ filter = Account /\ uuids = <<>> /\ confirm = "none"
    /\ modal = [opened |-> FALSE, edit |-> FALSE, password |-> FALSE, uuid |-> NoOne] /\ user = NoOne
    /\ chosen = {} /\ mine = NoRows /\ latest = FALSE

-----------------------------------------------------------------------------
(* Rendering.                                                               *)

\* Some accounts in the order of the list.  (A recursive function, for the proofs.)
InOrder(accounts) ==
    LET upTo[n \in 0 .. Len(Order)] ==
            IF n = 0 THEN << >>
            ELSE IF Order[n] \in accounts THEN Append(upTo[n - 1], Order[n])
            ELSE upTo[n - 1]
    IN  upTo[Len(Order)]

SelectedRows == InOrder({a \in selection' : list'.rows[a] = 1})

\* lodash's merge of two arrays: the tail of the longer one stays.
Merge(old, new) ==
    [i \in 1 .. (IF Len(old) > Len(new) THEN Len(old) ELSE Len(new)) |->
        IF i <= Len(new) THEN new[i] ELSE old[i]]

\* The table alone: the selection is merged into the modals of the controls.
TableRenders ==
    /\ uuids' = Merge(uuids, SelectedRows)
    /\ chosen' = chosen \cup ToSet(SelectedRows)

\* For the mutants: the modals of the controls are kept.
PageRendersKeeping ==
    /\ uuids' = Merge(uuids, SelectedRows)
    /\ chosen' = ToSet(SelectedRows)

\* The page: AccountTable makes the modals anew, and the table merges into those.
PageRenders ==
    /\ uuids' = SelectedRows
    /\ chosen' = ToSet(SelectedRows)

\* The options of a row, and the modal they opened, go with the row.
RowsUnmount == confirm' = IF confirm = "selected" THEN confirm ELSE "none"

\* Bounds, for nothing in useApi waits.  The user starts a request when there is room for it
\* and for what follows the answer of a save, and a change when no other is under way: a
\* double click on a button that changes something, or a change begun in another modal before
\* the answer to the last one, is left out.
Room(n) == Len(requests) + Cardinality({i \in DOMAIN requests : requests[i].kind = "save"}) + n <= MaxRequests
NoChange == \A i \in DOMAIN requests : requests[i].kind \in {"list", "user"}

\* For the mutants: the list is asked for and kept.
RefreshKeeping(sent) ==
    /\ requests' = Send(sent, New("list", {}))
    /\ list' = [list EXCEPT !.shown = FALSE]

\* refresh: the list is cleared and asked for.
Refresh(sent) ==
    /\ requests' = Send(sent, New("list", {}))
    /\ list' = NoList

\* A new profile, new permissions or new tokens render the page.
ContextChanges ==
    /\ UNCHANGED <<server, requests, list, selection, filter, confirm, modal, user, mine, latest>>
    /\ PageRenders

-----------------------------------------------------------------------------
(* The table.                                                               *)

Visible == {a \in filter : list.rows[a] = 1}
SomeSelected == selection # {} /\ Cardinality(selection) < Cardinality(Visible)
AllSelected == Visible # {} /\ Visible \subseteq selection

\* No modal covers the table.
Free == confirm = "none" /\ ~modal.opened /\ ~modal.password

Select(new) ==
    /\ Free /\ selection' = new
    /\ UNCHANGED <<server, requests, list, confirm, modal, user, mine, latest>> /\ TableRenders

ToggleRow(a) ==
    /\ a \in Visible /\ UNCHANGED filter
    /\ Select(IF a \in selection THEN selection \ {a} ELSE selection \cup {a})

ToggleAll ==
    /\ Visible # {} /\ UNCHANGED filter
    /\ Select(IF AllSelected THEN selection \ Visible ELSE selection \cup Visible)

\* onChange of the search: the rows that are shown are deselected, others stay selected.
Search(matching) == filter' = matching /\ filter # matching /\ Select(selection \ Visible)

-----------------------------------------------------------------------------
(* Deletion.                                                                *)

\* The button of the table, there while rows are selected, and an option of each row.
OpenDelete ==
    /\ Free /\ (SomeSelected \/ AllSelected) /\ confirm' = "selected"
    /\ UNCHANGED <<server, requests, list, table, modal, user, mine, latest>>

OpenRowDelete(a) ==
    /\ Free /\ a \in Visible /\ confirm' = a
    /\ UNCHANGED <<server, requests, list, table, modal, user, mine, latest>>

CancelDelete ==
    /\ confirm # "none" /\ confirm' = "none"
    /\ UNCHANGED <<server, requests, list, table, modal, user, mine, latest>>

\* onConfirm: one request for them all; the modal stays open.
ConfirmDelete ==
    /\ confirm # "none" /\ NoChange /\ Room(1)
    /\ requests' = Send(requests, IF confirm = "selected" THEN New("delete", ToSet(uuids))
                                  ELSE New("deleteRow", {confirm}))
    /\ UNCHANGED <<server, list, table, confirm, modal, user, mine, latest>>

-----------------------------------------------------------------------------
(* The account modal and the modal that creates.                            *)

\* The form of the account is shown, and nothing covers it.
Editing == modal.opened /\ modal.edit /\ ~modal.password /\ user # NoOne

\* setCurrentUuid: the account modal, opened or not, asks for the account when it is another one.
Show(a) ==
    /\ Room(1)
    /\ IF a = modal.uuid THEN UNCHANGED <<requests, user>>
       ELSE requests' = Send(requests, New("user", {a})) /\ user' = NoOne
    /\ UNCHANGED <<server, list, selection, filter, confirm, mine, latest>> /\ PageRenders

\* openAccountModal.
OpenAccount(a, edit) ==
    /\ Free /\ a \in Visible /\ Show(a)
    /\ modal' = [modal EXCEPT !.opened = TRUE, !.edit = edit, !.uuid = a]

\* openPasswordModal, by an option of a row or by the form of the account.
OpenPassword(a) ==
    /\ (Free /\ a \in Visible) \/ (Editing /\ a = user)
    /\ modal' = [modal EXCEPT !.password = TRUE, !.uuid = a] /\ Show(a)

\* (The button of the placeholder leaves the mode, which openAccountModal sets anyway.)
CloseAccount ==
    /\ modal.opened /\ ~modal.password /\ modal' = [modal EXCEPT !.opened = FALSE, !.edit = FALSE]
    /\ UNCHANGED <<server, requests, list, selection, filter, confirm, user, mine, latest>>
    /\ PageRenders

\* toggle, by the button of the display and by that of the form.
Toggle(edit) ==
    /\ modal.opened /\ ~modal.password /\ user # NoOne /\ modal.edit = edit
    /\ modal' = [modal EXCEPT !.edit = ~edit]
    /\ UNCHANGED <<server, requests, list, selection, filter, confirm, user, mine, latest>>
    /\ PageRenders

Edit == Toggle(FALSE)
CancelEdit == Toggle(TRUE)

\* The form is that of the user it was given.
Save ==
    /\ Editing /\ NoChange /\ Room(2)
    /\ requests' = Send(requests, New("save", {user}))
    /\ UNCHANGED <<server, list, table, confirm, modal, user, mine, latest>>

\* The modal is closed with its button or without, and when its request is answered.
ClosePassword ==
    /\ modal.password /\ modal' = [modal EXCEPT !.password = FALSE]
    /\ UNCHANGED <<server, requests, list, selection, filter, confirm, user, mine, latest>>
    /\ PageRenders

ChangePassword ==
    /\ modal.password /\ NoChange /\ Room(1)
    /\ requests' = Send(requests, New("password", {modal.uuid}))
    /\ UNCHANGED <<server, list, table, confirm, modal, user, mine, latest>>

Create(a) ==
    /\ Free /\ NoChange /\ Room(1) /\ server[a] = 0 /\ requests' = Send(requests, New("create", {a}))
    /\ UNCHANGED <<server, list, table, confirm, modal, user, mine, latest>>

-----------------------------------------------------------------------------
(* The API.                                                                 *)

page == <<list, table, confirm, modal, user, mine, latest>>

Made(kind) == IF kind \in {"create", "save"} THEN 1 ELSE 2

\* delete_users passes over accounts it does not find, and the others are all or none.
\* (What a change of password does is left out: its answer is taken alike in any case.)
Applies(r) ==
    CASE r.kind = "create" -> \A a \in r.who : server[a] = 0
      [] r.kind \in {"save", "user"} -> r.who # {} /\ \A a \in r.who : server[a] = 1
      [] OTHER -> r.kind # "password"

ServeRequest(i) ==
    /\ ~requests[i].served /\ Applies(requests[i])
    /\ requests' = [requests EXCEPT ![i].served = TRUE,
                                    ![i].rows = IF requests[i].kind = "list" THEN server ELSE NoRows]
    /\ server' = IF requests[i].kind \in {"list", "user"} THEN server
                 ELSE [a \in Account |-> IF a \in requests[i].who /\ server[a] < Made(requests[i].kind)
                                         THEN Made(requests[i].kind) ELSE server[a]]
    /\ UNCHANGED page

\* Another administrator deletes the account.  (Bound: one that was there when the page was
\* opened.)
DeleteElsewhere(a) ==
    /\ a \in Existing /\ server[a] = 1 /\ server' = [server EXCEPT ![a] = 2] /\ UNCHANGED <<requests, page>>

-----------------------------------------------------------------------------
(* The answers, in any order: what was asked for was done, or it was         *)
(* refused with 409, or there is another error or no answer at all, which    *)
(* says nothing of whether it was done.                                      *)

Answered(i, kinds, answer) ==
    /\ requests[i].kind \in kinds
    /\ answer = "done" => requests[i].served
    /\ answer = "refused" => ~requests[i].served /\ kinds \subseteq {"create", "save"}
Others(i) == RemoveAt(requests, i)
Told(i, answer) ==
    mine' = IF answer # "done" \/ requests[i].kind = "save" THEN mine
            ELSE [a \in Account |-> IF a \in requests[i].who THEN Made(requests[i].kind) ELSE mine[a]]

AnswerList(i, answer) ==
    /\ Answered(i, {"list"}, answer) /\ requests' = Others(i)
    /\ list' = IF answer = "done" THEN [shown |-> TRUE, rows |-> requests[i].rows]
                ELSE NoList
    /\ latest' = requests[i].last
    /\ UNCHANGED <<server, selection, filter, modal, user, mine>>
    /\ RowsUnmount /\ PageRenders

AnswerUser(i, answer) ==
    /\ Answered(i, {"user"}, answer) /\ requests' = Others(i)
    /\ user' = IF answer = "done" THEN CHOOSE a \in Account : requests[i].who = {a} ELSE NoOne
    /\ UNCHANGED <<server, list, table, confirm, modal, mine, latest>>

\* For the mutants: the list is asked for beside the deletion, not after it.
AnswerDeleteUnasked(i, answer) ==
    /\ Answered(i, {"delete", "deleteRow"}, answer) /\ Told(i, answer) /\ requests' = Others(i)
    /\ selection' = selection \ Visible /\ confirm' = "none"
    /\ UNCHANGED <<server, list, filter, modal, user, latest>> /\ PageRenders

\* Whatever the answer was: the modal is closed, the list refreshed, and what is shown deselected.
AnswerDelete(i, answer) ==
    /\ Answered(i, {"delete", "deleteRow"}, answer) /\ Told(i, answer) /\ Refresh(Others(i))
    /\ selection' = IF requests[i].kind = "delete" THEN selection \ Visible ELSE selection
    /\ IF requests[i].kind = "delete" THEN confirm' = "none" ELSE RowsUnmount
    /\ latest' = FALSE
    /\ UNCHANGED <<server, filter, modal, user>> /\ PageRenders

\* A clash is taken for a success: onPostError returns nothing.
AnswerCreate(i, answer) ==
    /\ Answered(i, {"create"}, answer) /\ Told(i, answer)
    /\ IF answer = "failed"
       THEN requests' = Others(i) /\ UNCHANGED <<list, latest, table, confirm>>
       ELSE /\ Refresh(Others(i)) /\ latest' = FALSE
            /\ UNCHANGED <<selection, filter>> /\ RowsUnmount /\ PageRenders
    /\ UNCHANGED <<server, modal, user>>

\* toggle and refresh, of whatever the modal shows by now.  (The mode of a closed modal,
\* which is set when it opens, is left out.)
AnswerSave(i, answer) ==
    /\ Answered(i, {"save"}, answer) /\ Told(i, answer)
    /\ IF answer # "done" THEN requests' = Others(i) /\ UNCHANGED <<list, latest, table, confirm, modal, user>>
       ELSE /\ Refresh(Send(Others(i), New("user", {modal.uuid})))
            /\ latest' = FALSE /\ user' = NoOne
            /\ modal' = [modal EXCEPT !.edit = modal.opened /\ ~@]
            /\ UNCHANGED <<selection, filter>> /\ RowsUnmount /\ PageRenders
    /\ UNCHANGED server

\* Whatever the answer was, and whichever account the modal is for by now.
AnswerPassword(i) ==
    /\ requests[i].kind = "password" /\ requests' = Others(i)
    /\ modal' = [modal EXCEPT !.password = FALSE]
    /\ UNCHANGED <<server, list, selection, filter, confirm, user, mine, latest>> /\ PageRenders

-----------------------------------------------------------------------------
PageNext ==
    \/ ContextChanges \/ ToggleAll \/ CancelDelete \/ ConfirmDelete \/ OpenDelete
    \/ Edit \/ CancelEdit \/ Save \/ CloseAccount \/ ClosePassword \/ ChangePassword
    \/ \E matching \in Searches : Search(matching)
    \/ \E a \in Account :
          \/ ToggleRow(a) \/ OpenRowDelete(a) \/ OpenPassword(a) \/ Create(a) \/ DeleteElsewhere(a)
          \/ \E edit \in BOOLEAN : OpenAccount(a, edit)
    \/ \E i \in DOMAIN requests :
          \/ ServeRequest(i) \/ AnswerPassword(i)
          \/ \E answer \in {"done", "refused", "failed"} :
                \/ AnswerList(i, answer) \/ AnswerUser(i, answer) \/ AnswerDelete(i, answer)
                \/ AnswerCreate(i, answer) \/ AnswerSave(i, answer)

PageSpec == PageInit /\ [][PageNext]_pageVars

-----------------------------------------------------------------------------
\* What the requests are to delete, of those sent by the button of the table.
Deletions(sent) == {sent[i].who : i \in {j \in DOMAIN sent : sent[j].kind = "delete"}}

\* A deletion that is sent names only accounts that were selected at some time since the
\* page was rendered last, or the account of the row it was asked for in.
DeletedWasSelected ==
    [][\A who \in Deletions(requests') \ Deletions(requests) : who \subseteq chosen]_pageVars

\* What the page shows is up to date with what it was told: the answer to its last request
\* for the list has every version it had made by then, whichever changes were answered in
\* between.
ShowsItsChanges == (latest /\ list.shown) => \A a \in Account : mine[a] <= list.rows[a]

\* "Delete selected" deletes what is selected.
DeletesSelected ==
    [][\A who \in Deletions(requests') \ Deletions(requests) : who \subseteq selection]_pageVars
=============================================================================
