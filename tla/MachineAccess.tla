---------------------------- MODULE MachineAccess ----------------------------
(***************************************************************************)
(* Who may use a machine: the clients assigned to it, their permissions in *)
(* guacamole, and a page on which an administrator changes them while      *)
(* others do the same, and accounts are made and deleted.                  *)
(*                                                                         *)
(* A save replaces all the clients of the machine by those of the form.    *)
(* The form takes them from the machine as the web socket described it     *)
(* when the form was mounted or the state of the machine changed last.     *)
(* The machine itself stays; its owner may be deleted, with its rows.      *)
(***************************************************************************)
EXTENDS Naturals, Sequences, SequencesExt

CONSTANTS
    Client,
    MaxRequests,  \* bound: the saves of the page that wait for an answer
    MaxWire       \* bound: the messages on their way to the page

ASSUME AccessAssumption == MaxRequests \in Nat /\ MaxWire \in Nat

VARIABLES
    client,    \* clients and guacamole_entity: half, when there is no entity yet
    owned,     \* deployed_machines_owners has the row of the machine
    rows,      \* deployed_machines_clients
    perm,      \* guacamole_connection_permission, the owner's left out
    requests,  \* the saves of the form that may still be answered, in the order they were sent
    conn,      \* the web socket of the page is subscribed to the machine
    wire,      \* the DATA_STATIC on their way to the page
    known,     \* machine.assigned_clients
    editable,  \* machine.state is OFFLINE or ERROR
    users,     \* the answer to /users/all, none before it comes
    values,    \* form.values.assigned_clients
    initial,   \* form.getInitialValues().assigned_clients
    unheard,   \* history: the rows changed, and the page is not told
    settled    \* history: the last change of the rows was a save of this form, answered

server == <<client, owned, rows, perm>>
channel == <<conn, wire, known, unheard>>
form == <<editable, users, values, initial>>
vars == <<server, channel, form, requests, settled>>

Exist == {c \in Client : client[c] \in {"half", "whole"}}
Whole == {c \in Client : client[c] = "whole"}

\* done: applied, and not answered yet.  sole: no other save of this form was under way,
\* and nothing changed the rows after this one.
Request == [clients : SUBSET Client, done : BOOLEAN, sole : BOOLEAN]

\* The shape of the state, and: rows refer to clients that exist, and to an owned machine.
AccessTypeOK ==
    /\ client \in [Client -> {"none", "half", "whole", "gone"}] /\ owned \in BOOLEAN
    /\ rows \subseteq Exist /\ (rows # {} => owned) /\ perm \subseteq Whole
    /\ requests \in Seq(Request) /\ Len(requests) <= MaxRequests
    /\ wire \in Seq(SUBSET Client) /\ Len(wire) <= MaxWire /\ (wire # << >> => conn)
    /\ {conn, editable, unheard, settled} \subseteq BOOLEAN
    /\ {known, users, values, initial} \subseteq SUBSET Client

Init ==
    /\ client \in [Client -> {"none", "whole"}] /\ owned = TRUE
    /\ rows \in SUBSET Exist /\ perm = rows /\ requests = << >>
    /\ conn = TRUE /\ wire = << >> /\ known = rows /\ unheard = FALSE
    /\ editable = TRUE /\ users = {} /\ values = rows /\ initial = rows /\ settled = FALSE

-----------------------------------------------------------------------------
(* Accounts.                                                                *)

\* create_record, and the first transaction of a job, which leaves the entity to a second.
CreateClient(c, stage) ==
    /\ client[c] = "none" /\ client' = [client EXCEPT ![c] = stage]
    /\ UNCHANGED <<owned, rows, perm, channel, form, requests, settled>>

CreateEntity(c) ==
    /\ client[c] = "half" /\ client' = [client EXCEPT ![c] = "whole"]
    /\ UNCHANGED <<owned, rows, perm, channel, form, requests, settled>>

\* The saves of the page are not the last to have changed the rows.
Overtaken == [i \in DOMAIN requests |-> [requests[i] EXCEPT !.sole = @ /\ ~requests[i].done]]

\* What a deletion takes away, nobody is told of.
RowsLost(lost) ==
    /\ rows' = rows \ lost
    /\ IF lost \cap rows = {} THEN UNCHANGED <<requests, settled, unheard>>
       ELSE requests' = Overtaken /\ settled' = FALSE /\ unheard' = TRUE
    /\ UNCHANGED <<conn, wire, known, form>>

\* remove_record and remove_records: both cascade, to the rows and to the permissions.
DeleteClient(c) ==
    /\ c \in Exist /\ client' = [client EXCEPT ![c] = "gone"]
    /\ perm' = perm \ {c} /\ RowsLost({c}) /\ UNCHANGED owned

\* The rows of his machines go with an administrator; the connections of guacamole stay,
\* with the permissions of clients.
DeleteOwner ==
    /\ owned /\ owned' = FALSE /\ RowsLost(Client) /\ UNCHANGED <<client, perm>>

-----------------------------------------------------------------------------
(* Saving.                                                                  *)

\* The statements of update_machine_clients all succeed.
Accepted(clients) == owned /\ clients \subseteq Whole

\* For the mutants: no transaction, so what precedes the statement that fails stays.
UpdateMachineClientsEach(clients) ==
    /\ rows' = IF owned /\ clients \subseteq Exist THEN clients ELSE rows
    /\ perm' = IF Accepted(clients) THEN clients ELSE perm
    /\ UNCHANGED <<client, owned>>

\* update_machine_clients: rows and permissions are replaced in one transaction, which is
\* rolled back when the owner or a client is gone, or a client has no entity.
UpdateMachineClients(clients) ==
    /\ IF Accepted(clients) THEN rows' = clients /\ perm' = clients ELSE UNCHANGED <<rows, perm>>
    /\ UNCHANGED <<client, owned>>

\* For the mutants: the properties are read before the modification.
OnMachineModifyEarly == IF conn THEN Len(wire) < MaxWire /\ wire' = Append(wire, rows) ELSE UNCHANGED wire

\* on_machine_modify: the properties are read after the modification, and a task sends
\* them to the socket.
OnMachineModify == IF conn THEN Len(wire) < MaxWire /\ wire' = Append(wire, rows') ELSE UNCHANGED wire

\* __modify_machine__, which does not look at the state of the machine; the properties
\* may be unreadable, and nobody is told then.
ModifyMachine(clients, answer) ==
    /\ UpdateMachineClients(clients)
    /\ IF Accepted(clients)
       THEN /\ \/ answer = "done" /\ OnMachineModify /\ unheard' = (unheard /\ ~conn)
               \/ answer = "failed" /\ unheard' = TRUE /\ UNCHANGED wire
            /\ settled' = FALSE
       ELSE answer = "failed" /\ UNCHANGED <<wire, unheard, settled>>
    /\ UNCHANGED <<conn, known, form>>

Serve(i) ==
    /\ i \in DOMAIN requests /\ ~requests[i].done
    /\ Accepted(requests[i].clients) /\ ModifyMachine(requests[i].clients, "done")
    /\ requests' = [Overtaken EXCEPT ![i].done = TRUE]

\* The answer is an error, of which the form makes nothing (isAxiosError): the request does
\* not reach the API, the database fails, or the handler does.
ServeFails(i) ==
    /\ i \in DOMAIN requests /\ ~requests[i].done
    /\ \/ ModifyMachine(requests[i].clients, "failed")
          /\ requests' = RemoveAt(IF Accepted(requests[i].clients) THEN Overtaken ELSE requests, i)
       \/ UNCHANGED <<server, channel, form, settled>> /\ requests' = RemoveAt(requests, i)

\* Another administrator saves; or this page did, and did not wait for the answer.
ServeOthers(clients, answer) ==
    /\ ModifyMachine(clients, answer)
    /\ requests' = IF Accepted(clients) THEN Overtaken ELSE requests

-----------------------------------------------------------------------------
(* The page.                                                                *)

\* addAssignedClient: the select offers the clients that were listed and are not in.
AddAssignedClient(c) ==
    /\ editable /\ c \in users \ values /\ values' = values \cup {c}
    /\ UNCHANGED <<server, channel, editable, users, initial, requests, settled>>

\* removeAssignedClient: the table shows those of the clients that are listed.
RemoveAssignedClient(c) ==
    /\ editable /\ c \in users \cap values /\ values' = values \ {c}
    /\ UNCHANGED <<server, channel, editable, users, initial, requests, settled>>

\* submitChanges: the button stays enabled while a request is under way.
SubmitChanges ==
    /\ editable /\ values # initial /\ Len(requests) < MaxRequests
    /\ requests' = Append([i \in DOMAIN requests |-> [requests[i] EXCEPT !.sole = FALSE]],
                          [clients |-> values, done |-> FALSE, sole |-> requests = << >>])
    /\ UNCHANGED <<server, channel, form, settled>>

\* For the mutants: what the form has by now becomes its initial values.
SavedNow(i) ==
    /\ i \in DOMAIN requests /\ requests[i].done /\ requests' = RemoveAt(requests, i)
    /\ initial' = values /\ settled' = (settled \/ requests[i].sole)
    /\ UNCHANGED <<server, channel, editable, users, values>>

\* The rest of submitChanges: what the form had at the click becomes its initial values
\* and its values, whatever was edited since.
Saved(i) ==
    /\ i \in DOMAIN requests /\ requests[i].done /\ requests' = RemoveAt(requests, i)
    /\ initial' = requests[i].clients /\ values' = requests[i].clients
    /\ settled' = (settled \/ requests[i].sole)
    /\ UNCHANGED <<server, channel, editable, users>>

\* The answer is lost, or comes after the timeout.
TimesOut(i) ==
    /\ i \in DOMAIN requests /\ requests' = RemoveAt(requests, i)
    /\ UNCHANGED <<server, channel, form, settled>>

\* useFetch of /users/all.
UsersFetched ==
    /\ users = {} /\ users' = Exist
    /\ UNCHANGED <<server, channel, editable, values, initial, requests, settled>>

\* onNewMessage: the machine is merged; the form keeps what it has.
OnNewMessage ==
    /\ wire # << >> /\ known' = Head(wire) /\ wire' = Tail(wire)
    /\ UNCHANGED <<server, conn, unheard, form, requests, settled>>

\* The state of the machine changes, and reloadForm takes its clients.
StateChanges ==
    /\ conn /\ editable' = ~editable
    /\ values' = known /\ initial' = known /\ settled' = FALSE
    /\ UNCHANGED <<server, channel, users, requests>>

Disconnect ==
    /\ conn /\ conn' = FALSE /\ wire' = << >>
    /\ UNCHANGED <<server, known, unheard, form, requests, settled>>

\* The form is mounted anew, and what was sent before does not come back to it.
Mounts(clients) ==
    /\ known' = clients /\ values' = clients /\ initial' = clients /\ users' = {}
    /\ requests' = << >> /\ settled' = FALSE /\ conn' = TRUE /\ unheard' = FALSE
    /\ UNCHANGED <<server, editable>>

\* The page shows no form while its socket connects; accept subscribes it and sends the
\* properties, which come to a form that is there.
Reconnect == ~conn /\ Mounts(known) /\ MaxWire > 0 /\ wire' = <<rows>>

\* The page is entered: it waits for the properties before it shows the form.
Enter == Mounts(rows) /\ wire' = << >>

-----------------------------------------------------------------------------
Accounts ==
    \/ DeleteOwner
    \/ \E c \in Client :
          CreateEntity(c) \/ DeleteClient(c) \/ \E stage \in {"half", "whole"} : CreateClient(c, stage)

Edit ==
    \/ SubmitChanges \/ UsersFetched \/ OnNewMessage \/ StateChanges \/ Disconnect \/ Reconnect \/ Enter
    \/ \E c \in Client : AddAssignedClient(c) \/ RemoveAssignedClient(c)

Save ==
    \/ \E clients \in SUBSET Client, answer \in {"done", "failed"} : ServeOthers(clients, answer)
    \/ \E i \in 1 .. MaxRequests : Serve(i) \/ ServeFails(i) \/ Saved(i) \/ TimesOut(i)

Next == Accounts \/ Edit \/ Save

Spec == Init /\ [][Next]_vars

-----------------------------------------------------------------------------
\* Guacamole lets exactly the assigned clients in, as long as the machine has its owner:
\* no save that fails half way, no client without an entity and no deletion leaves a
\* permission without its row or a row without its permission.
PermissionsMatchClients == owned => perm = rows

\* A page that is connected and has received all there is knows the clients of the
\* machine, unless they changed in a way that is not announced: an account was deleted,
\* or the properties could not be read.
KnownIsCurrent == (conn /\ ~unheard /\ wire = << >>) => known = rows

\* A form whose only save under way was answered, with nothing saved since by anybody,
\* compares with what was saved: "no changes" means that the machine has the clients
\* shown, whatever was edited while the save was under way.
SavedIsShown == settled => initial = rows
===============================================================================
