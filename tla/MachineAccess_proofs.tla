------------------------- MODULE MachineAccess_proofs -------------------------
(***************************************************************************)
(* Theorems about MachineAccess: its type invariant, and that guacamole    *)
(* lets exactly the assigned clients in, that a page which is told of all  *)
(* there is knows them, and that a form whose save was answered shows what *)
(* was saved.  They hold for any clients, and any number of saves and of   *)
(* messages under way.                                                     *)
(***************************************************************************)
EXTENDS MachineAccess, SequenceTheorems, TLAPS

\* The last message on its way has the clients of the machine; when there is none, the
\* page has them.
Announced ==
    (conn /\ ~unheard) => IF wire = << >> THEN known = rows ELSE wire[Len(wire)] = rows

\* Of saves that are under way: a sole one is the only one, and the machine has its
\* clients once it was applied.  A form that is settled waits for no save that was.
Kept(saves, clients, stable) ==
    \A i \in DOMAIN saves :
        /\ saves[i].sole => Len(saves) = 1
        /\ saves[i].sole /\ saves[i].done => saves[i].clients = clients
        /\ stable => ~saves[i].done

SavesKept == Kept(requests, rows, settled)

AccessInv == AccessTypeOK /\ PermissionsMatchClients /\ Announced /\ SavesKept /\ SavedIsShown

LEMMA RemovedAt ==
    ASSUME NEW S, NEW s \in Seq(S), NEW i \in 1 .. Len(s)
    PROVE  /\ RemoveAt(s, i) \in Seq(S) /\ Len(RemoveAt(s, i)) = Len(s) - 1
           /\ \A j \in 1 .. Len(s) - 1 : RemoveAt(s, i)[j] = s[IF j < i THEN j ELSE j + 1]
<1> DEFINE a == SubSeq(s, 1, i - 1)
           b == SubSeq(s, i + 1, Len(s))
<1>1. a \in Seq(S) /\ Len(a) = i - 1 /\ \A j \in 1 .. i - 1 : a[j] = s[j]
  OBVIOUS
<1>2. b \in Seq(S) /\ Len(b) = Len(s) - i /\ \A j \in 1 .. Len(s) - i : b[j] = s[i + j]
  OBVIOUS
<1> HIDE DEF a, b
<1>3. /\ a \o b \in Seq(S) /\ Len(a \o b) = Len(s) - 1
      /\ \A j \in 1 .. Len(s) - 1 : (a \o b)[j] = IF j < i THEN a[j] ELSE b[j - (i - 1)]
  <2>1. Len(a) \in Nat /\ Len(b) \in Nat /\ Len(a) + Len(b) = Len(s) - 1
    BY <1>1, <1>2
  <2>2. /\ a \o b \in Seq(S) /\ Len(a \o b) = Len(a) + Len(b)
        /\ \A j \in 1 .. Len(a) + Len(b) : (a \o b)[j] = IF j <= Len(a) THEN a[j] ELSE b[j - Len(a)]
    BY <1>1, <1>2, ConcatProperties
  <2>3. QED
    BY <1>1, <2>1, <2>2
<1>4. \A j \in 1 .. Len(s) - 1 : (a \o b)[j] = s[IF j < i THEN j ELSE j + 1]
  BY <1>1, <1>2, <1>3
<1>5. QED
  BY <1>3, <1>4 DEF a, b, RemoveAt

LEMMA WithSole ==
    ASSUME NEW r \in Request, NEW b \in BOOLEAN
    PROVE  /\ [r EXCEPT !.sole = b] \in Request
           /\ [r EXCEPT !.sole = b].clients = r.clients
           /\ [r EXCEPT !.sole = b].done = r.done
           /\ [r EXCEPT !.sole = b].sole = b
<1>1. [r EXCEPT !.sole = b] \in Request
  BY SMT DEF Request
<1>2. [r EXCEPT !.sole = b].clients = r.clients
  BY SMT DEF Request
<1>3. [r EXCEPT !.sole = b].done = r.done
  BY Zenon DEF Request
<1>4. [r EXCEPT !.sole = b].sole = b
  BY Zenon DEF Request
<1>5. QED
  BY <1>1, <1>2, <1>3, <1>4

LEMMA WithDone ==
    ASSUME NEW r \in Request, NEW b \in BOOLEAN
    PROVE  /\ [r EXCEPT !.done = b] \in Request
           /\ [r EXCEPT !.done = b].clients = r.clients
           /\ [r EXCEPT !.done = b].sole = r.sole
           /\ [r EXCEPT !.done = b].done = b
<1>1. [r EXCEPT !.done = b] \in Request
  BY SMT DEF Request
<1>2. [r EXCEPT !.done = b].clients = r.clients
  BY SMT DEF Request
<1>3. [r EXCEPT !.done = b].sole = r.sole
  BY Zenon DEF Request
<1>4. [r EXCEPT !.done = b].done = b
  BY Zenon DEF Request
<1>5. QED
  BY <1>1, <1>2, <1>3, <1>4

\* What is overtaken keeps its clients and whether it was applied.
LEMMA OvertakenType ==
    ASSUME AccessTypeOK
    PROVE  /\ Overtaken \in Seq(Request) /\ Len(Overtaken) = Len(requests)
           /\ DOMAIN requests = 1 .. Len(requests) /\ Len(requests) \in Nat
           /\ DOMAIN Overtaken = DOMAIN requests
           /\ \A i \in DOMAIN requests :
                 /\ requests[i] \in Request /\ Overtaken[i] \in Request
                 /\ Overtaken[i].clients = requests[i].clients
                 /\ Overtaken[i].done = requests[i].done
                 /\ Overtaken[i].sole <=> requests[i].sole /\ ~requests[i].done
<1>1. /\ requests \in Seq(Request) /\ DOMAIN requests = 1 .. Len(requests) /\ Len(requests) \in Nat
      /\ \A i \in 1 .. Len(requests) : requests[i] \in Request
  BY DEF AccessTypeOK
<1>3. \A i \in 1 .. Len(requests) :
         Overtaken[i] = [requests[i] EXCEPT !.sole = @ /\ ~requests[i].done]
  BY <1>1 DEF Overtaken
<1>4. Overtaken \in [1 .. Len(requests) -> Request]
  BY <1>1, WithSole DEF Overtaken
<1>5. Overtaken \in Seq(Request) /\ Len(Overtaken) = Len(requests) /\ DOMAIN Overtaken = 1 .. Len(requests)
  BY <1>1, <1>4
<1>6. QED
  <2>1. \A i \in 1 .. Len(requests) :
           /\ Overtaken[i] \in Request
           /\ Overtaken[i].clients = requests[i].clients
           /\ Overtaken[i].done = requests[i].done
           /\ Overtaken[i].sole = (requests[i].sole /\ ~requests[i].done)
    <3> TAKE i \in 1 .. Len(requests)
    <3> DEFINE b == requests[i].sole /\ ~requests[i].done
    <3>1. b \in BOOLEAN /\ Overtaken[i] = [requests[i] EXCEPT !.sole = b]
      BY <1>3
    <3> HIDE DEF b
    <3>2. Overtaken[i].sole = b
      BY <1>1, <3>1, WithSole
    <3>3. /\ Overtaken[i] \in Request
          /\ Overtaken[i].clients = requests[i].clients
          /\ Overtaken[i].done = requests[i].done
      BY <1>1, <3>1, WithSole
    <3>4. QED
      BY <3>2, <3>3 DEF b
  <2>2. QED
    BY <1>1, <1>5, <2>1

-----------------------------------------------------------------------------
(* The saves under way.                                                     *)

LEMMA OvertakenKept ==
    ASSUME AccessTypeOK, SavesKept, NEW clients
    PROVE  Kept(Overtaken, clients, FALSE)
  BY OvertakenType DEF SavesKept, Kept

LEMMA RemovedKept ==
    ASSUME NEW saves \in Seq(Request), NEW i \in DOMAIN saves,
           NEW clients, NEW stable, Kept(saves, clients, stable)
    PROVE  /\ RemoveAt(saves, i) \in Seq(Request) /\ Len(RemoveAt(saves, i)) = Len(saves) - 1
           /\ Kept(RemoveAt(saves, i), clients, stable)
           /\ saves[i].sole => RemoveAt(saves, i) = << >>
<1> DEFINE rest == RemoveAt(saves, i)
<1>1. /\ DOMAIN saves = 1 .. Len(saves) /\ Len(saves) \in Nat /\ i \in 1 .. Len(saves)
  OBVIOUS
<1>2. /\ rest \in Seq(Request) /\ Len(rest) = Len(saves) - 1
      /\ \A j \in 1 .. Len(saves) - 1 : rest[j] = saves[IF j < i THEN j ELSE j + 1]
  BY <1>1, RemovedAt
<1>3. DOMAIN rest = 1 .. Len(saves) - 1
  BY <1>2
<1> HIDE DEF rest
<1>4. saves[i].sole => rest = << >>
  BY <1>1, <1>2, EmptySeq DEF Kept
<1>5. ASSUME NEW j \in 1 .. Len(saves) - 1
      PROVE  \E k \in DOMAIN saves : rest[j] = saves[k] /\ Len(saves) # 1
  <2>1. CASE j < i
    BY <1>1, <1>2, <2>1
  <2>2. CASE ~(j < i)
    <3>1. j + 1 \in DOMAIN saves /\ Len(saves) # 1
      BY <1>1
    <3>2. QED
      BY <1>2, <2>2, <3>1
  <2>3. QED
    BY <2>1, <2>2
<1>6. Kept(rest, clients, stable)
  BY <1>3, <1>5 DEF Kept
<1>7. QED
  BY <1>2, <1>4, <1>6 DEF rest

\* A save is applied: another is not the only one, if it was applied before.
LEMMA ServedKept ==
    ASSUME AccessTypeOK, SavesKept, NEW i \in DOMAIN requests, ~requests[i].done
    PROVE  /\ [Overtaken EXCEPT ![i].done = TRUE] \in Seq(Request)
           /\ Len([Overtaken EXCEPT ![i].done = TRUE]) = Len(requests)
           /\ Kept([Overtaken EXCEPT ![i].done = TRUE], requests[i].clients, FALSE)
<1> DEFINE saves == [Overtaken EXCEPT ![i].done = TRUE]
<1>2. saves = [Overtaken EXCEPT ![i] = [Overtaken[i] EXCEPT !.done = TRUE]]
  OBVIOUS
<1>3. Overtaken[i] \in Request /\ i \in 1 .. Len(requests) /\ Overtaken \in Seq(Request)
  BY OvertakenType
<1>4. /\ saves \in Seq(Request) /\ Len(saves) = Len(requests) /\ DOMAIN saves = DOMAIN requests
      /\ saves[i] = [Overtaken[i] EXCEPT !.done = TRUE]
      /\ \A j \in DOMAIN requests : j # i => saves[j] = Overtaken[j]
  <2>1. [Overtaken[i] EXCEPT !.done = TRUE] \in Request
    BY <1>3, WithDone
  <2>2. /\ DOMAIN requests = 1 .. Len(requests) /\ Len(Overtaken) = Len(requests)
        /\ DOMAIN Overtaken = DOMAIN requests
    BY OvertakenType
  <2> DEFINE r == [Overtaken[i] EXCEPT !.done = TRUE]
  <2> HIDE DEF r
  <2>3. saves = [Overtaken EXCEPT ![i] = r] /\ r \in Request
    BY <1>2, <2>1 DEF r
  <2> HIDE DEF saves
  <2>4. /\ saves \in Seq(Request) /\ Len(saves) = Len(Overtaken) /\ DOMAIN saves = DOMAIN Overtaken
        /\ saves[i] = r /\ \A j \in DOMAIN Overtaken : j # i => saves[j] = Overtaken[j]
    BY <1>3, <2>2, <2>3
  <2>5. QED
    BY <2>2, <2>4 DEF r
<1> HIDE DEF saves
<1>5. saves[i].clients = requests[i].clients /\ (saves[i].sole <=> requests[i].sole)
  BY <1>3, <1>4, WithDone, OvertakenType
<1>6. Kept(saves, requests[i].clients, FALSE)
  <2> SUFFICES ASSUME NEW j \in DOMAIN requests
               PROVE  /\ saves[j].sole => Len(requests) = 1
                      /\ saves[j].sole /\ saves[j].done => saves[j].clients = requests[i].clients
    BY <1>4 DEF Kept
  <2>1. CASE j = i
    BY <1>5, <2>1 DEF SavesKept, Kept
  <2>2. CASE j # i
    BY <1>4, <2>2, OvertakenType DEF SavesKept, Kept
  <2>3. QED
    BY <2>1, <2>2
<1>7. QED
  BY <1>4, <1>6 DEF saves

LEMMA SubmittedKept ==
    ASSUME AccessTypeOK, SavesKept, SubmitChanges
    PROVE  /\ requests' \in Seq(Request) /\ Len(requests') <= MaxRequests
           /\ Kept(requests', rows, settled)
<1> DEFINE before == [i \in DOMAIN requests |-> [requests[i] EXCEPT !.sole = FALSE]]
           new == [clients |-> values, done |-> FALSE, sole |-> requests = << >>]
<1>2. new \in Request /\ ~new.done /\ (new.sole <=> requests = << >>)
  BY DEF AccessTypeOK, Request
<1>3. requests \in Seq(Request) /\ DOMAIN requests = 1 .. Len(requests) /\ Len(requests) \in Nat
  BY OvertakenType DEF AccessTypeOK
<1>4. \A i \in 1 .. Len(requests) : requests[i] \in Request
  BY <1>3
<1>5. before \in [1 .. Len(requests) -> Request]
  BY <1>3, <1>4, WithSole DEF before
<1>6. /\ before \in Seq(Request) /\ Len(before) = Len(requests)
      /\ \A i \in 1 .. Len(requests) : ~before[i].sole /\ before[i].done = requests[i].done
  <2>1. before \in Seq(Request) /\ Len(before) = Len(requests)
    BY <1>3, <1>5
  <2>2. ASSUME NEW i \in 1 .. Len(requests)
        PROVE  ~before[i].sole /\ before[i].done = requests[i].done
    <3>1. before[i] = [requests[i] EXCEPT !.sole = FALSE] /\ requests[i] \in Request
      BY <1>3, <1>4
    <3>2. [requests[i] EXCEPT !.sole = FALSE].sole = FALSE
      BY <3>1, WithSole
    <3>3. QED
      BY <3>1, <3>2, WithSole
  <2>3. QED
    BY <2>1, <2>2
<1> HIDE DEF before, new
<1>7. requests' = Append(before, new) /\ Len(requests) < MaxRequests
  BY DEF SubmitChanges, before, new
<1>8. /\ requests' \in Seq(Request) /\ Len(requests') = Len(requests) + 1
      /\ DOMAIN requests' = 1 .. Len(requests) + 1
      /\ requests'[Len(requests) + 1] = new
      /\ \A i \in 1 .. Len(requests) : requests'[i] = before[i]
  BY <1>2, <1>3, <1>6, <1>7
<1>9. new.sole => Len(requests) = 0
  BY <1>2
<1>10. Kept(requests', rows, settled)
  <2> SUFFICES ASSUME NEW i \in 1 .. Len(requests) + 1
               PROVE  /\ requests'[i].sole => Len(requests) + 1 = 1
                      /\ requests'[i].sole /\ requests'[i].done => requests'[i].clients = rows
                      /\ settled => ~requests'[i].done
    BY <1>8 DEF Kept
  <2>1. CASE i = Len(requests) + 1
    BY <1>2, <1>3, <1>8, <1>9, <2>1
  <2>2. CASE i \in 1 .. Len(requests)
    BY <1>3, <1>6, <1>8, <2>2 DEF SavesKept, Kept
  <2>3. QED
    BY <1>3, <2>1, <2>2
<1>11. QED
  BY <1>3, <1>7, <1>8, <1>10, AccessAssumption


-----------------------------------------------------------------------------
(* The invariant is kept.                                                   *)

LEMMA AccessInit == Init => AccessInv
<1> SUFFICES ASSUME Init PROVE AccessInv
  OBVIOUS
<1>1. requests = << >> /\ wire = << >> /\ DOMAIN requests = {}
  BY DEF Init
<1>2. AccessTypeOK
  <2>1. client \in [Client -> {"none", "half", "whole", "gone"}]
    BY DEF Init
  <2>2. perm \subseteq Whole /\ rows \subseteq Exist /\ Whole \subseteq Client /\ Exist \subseteq Client
    BY DEF Init, Exist, Whole
  <2>3. requests \in Seq(Request) /\ wire \in Seq(SUBSET Client) /\ Len(requests) = 0 /\ Len(wire) = 0
    BY <1>1
  <2>4. Len(requests) <= MaxRequests /\ Len(wire) <= MaxWire
    BY <2>3, AccessAssumption
  <2>5. {conn, editable, unheard, settled} \subseteq BOOLEAN /\ owned \in BOOLEAN /\ (rows # {} => owned)
    BY DEF Init
  <2>6. {known, users, values, initial} \subseteq SUBSET Client
    BY <2>2 DEF Init
  <2>7. QED
    BY <1>1, <2>1, <2>2, <2>3, <2>4, <2>5, <2>6 DEF AccessTypeOK
<1>3. PermissionsMatchClients /\ Announced /\ SavesKept /\ SavedIsShown
  BY <1>1 DEF Init, PermissionsMatchClients, Announced, SavesKept, Kept, SavedIsShown
<1>4. QED
  BY <1>2, <1>3 DEF AccessInv

\* Nothing but the accounts changes, and whoever existed does.
LEMMA MadeKeeps ==
    ASSUME AccessInv, NEW c \in Client,
           (\E stage \in {"half", "whole"} : CreateClient(c, stage)) \/ CreateEntity(c)
    PROVE  AccessInv'
<1>1. /\ client' \in [Client -> {"none", "half", "whole", "gone"}]
      /\ Exist \subseteq Exist' /\ Whole \subseteq Whole'
  BY DEF AccessInv, AccessTypeOK, CreateClient, CreateEntity, Exist, Whole
<1>2. UNCHANGED <<owned, rows, perm, channel, form, requests, settled>>
  BY DEF CreateClient, CreateEntity
<1>3. AccessTypeOK'
  BY <1>1, <1>2 DEF AccessInv, AccessTypeOK, channel, form
<1>4. (PermissionsMatchClients /\ Announced /\ SavesKept /\ SavedIsShown)'
  BY <1>2 DEF AccessInv, channel, form, PermissionsMatchClients, Announced, SavesKept, Kept,
     SavedIsShown
<1>5. QED
  BY <1>3, <1>4 DEF AccessInv

\* Rows are lost, and the page is told nothing of it.
LEMMA LostKeeps ==
    ASSUME AccessInv, NEW lost, RowsLost(lost)
    PROVE  /\ requests' \in Seq(Request) /\ Len(requests') = Len(requests)
           /\ {unheard', settled'} \subseteq BOOLEAN /\ rows' = rows \ lost
           /\ UNCHANGED <<conn, wire, known, form>>
           /\ (Announced /\ SavesKept /\ SavedIsShown)'
<1>1. rows' = rows \ lost /\ UNCHANGED <<conn, wire, known, form>>
  BY DEF RowsLost
<1>2. CASE lost \cap rows = {}
  <2>1. UNCHANGED <<requests, settled, unheard, rows>>
    BY <1>1, <1>2 DEF RowsLost
  <2>2. QED
    BY <1>1, <2>1 DEF AccessInv, AccessTypeOK, Announced, SavesKept, Kept, SavedIsShown, form
<1>3. CASE lost \cap rows # {}
  <2>1. requests' = Overtaken /\ settled' = FALSE /\ unheard' = TRUE
    BY <1>3 DEF RowsLost
  <2>2. Kept(Overtaken, rows', FALSE)
    BY OvertakenKept DEF AccessInv
  <2>3. QED
    BY <1>1, <2>1, <2>2, OvertakenType DEF AccessInv, Announced, SavesKept, SavedIsShown
<1>4. QED
  BY <1>2, <1>3

LEMMA DeletedKeeps ==
    ASSUME AccessInv, (\E c \in Client : DeleteClient(c)) \/ DeleteOwner
    PROVE  AccessInv'
<1>1. CASE DeleteOwner
  <2>1. RowsLost(Client) /\ owned' = FALSE /\ UNCHANGED <<client, perm>>
    BY <1>1 DEF DeleteOwner
  <2>2. rows \subseteq Client
    BY DEF AccessInv, AccessTypeOK, Exist
  <2>3. AccessTypeOK' /\ PermissionsMatchClients'
    BY <2>1, <2>2, LostKeeps DEF AccessInv, AccessTypeOK, PermissionsMatchClients, Exist, Whole, form
  <2>4. QED
    BY <2>1, <2>3, LostKeeps DEF AccessInv
<1>2. CASE \E c \in Client : DeleteClient(c)
  <2> PICK c \in Client : DeleteClient(c)
    BY <1>2
  <2>1. RowsLost({c}) /\ perm' = perm \ {c} /\ client' = [client EXCEPT ![c] = "gone"] /\ UNCHANGED owned
    BY DEF DeleteClient
  <2>2. rows' = rows \ {c}
    BY <2>1, LostKeeps
  <2>3. PermissionsMatchClients'
    BY <2>1, <2>2 DEF AccessInv, PermissionsMatchClients
  <2>4. /\ client' \in [Client -> {"none", "half", "whole", "gone"}]
        /\ Exist \ {c} \subseteq Exist' /\ Whole \ {c} \subseteq Whole'
    BY <2>1 DEF AccessInv, AccessTypeOK, Exist, Whole
  <2>5. AccessTypeOK'
    BY <2>1, <2>2, <2>4, LostKeeps DEF AccessInv, AccessTypeOK, form
  <2>6. QED
    BY <2>1, <2>3, <2>5, LostKeeps DEF AccessInv
<1>3. QED
  BY <1>1, <1>2

\* A modification keeps what does not concern the saves under way; for these, either
\* nothing changed or the rows and the permissions are what was sent, and no form is
\* settled.
LEMMA ModifiedKeeps ==
    ASSUME AccessInv, NEW clients \in SUBSET Client, NEW answer, ModifyMachine(clients, answer)
    PROVE  /\ client' \in [Client -> {"none", "half", "whole", "gone"}] /\ owned' \in BOOLEAN
           /\ rows' \subseteq Exist' /\ (rows' # {} => owned') /\ perm' \subseteq Whole'
           /\ wire' \in Seq(SUBSET Client) /\ Len(wire') <= MaxWire /\ (wire' # << >> => conn')
           /\ {unheard', settled'} \subseteq BOOLEAN /\ UNCHANGED <<conn, known, form>>
           /\ PermissionsMatchClients' /\ Announced' /\ (settled' => settled /\ rows' = rows)
           /\ Accepted(clients) => rows' = clients /\ settled' = FALSE
           /\ ~Accepted(clients) => UNCHANGED <<rows, settled>>
<1>0. Whole \subseteq Exist /\ Whole' = Whole /\ Exist' = Exist /\ UNCHANGED <<client, owned, conn, known, form>>
  BY DEF ModifyMachine, UpdateMachineClients, Whole, Exist
<1>1. CASE ~Accepted(clients)
  <2>1. UNCHANGED <<rows, perm, wire, unheard, settled>>
    BY <1>1 DEF ModifyMachine, UpdateMachineClients
  <2>2. QED
    BY <1>0, <1>1, <2>1 DEF AccessInv, AccessTypeOK, PermissionsMatchClients, Announced
<1>2. CASE Accepted(clients)
  <2>1. rows' = clients /\ perm' = clients /\ settled' = FALSE /\ clients \subseteq Whole /\ owned
    BY <1>2 DEF ModifyMachine, UpdateMachineClients, Accepted
  <2>2. \/ OnMachineModify /\ unheard' = (unheard /\ ~conn)
        \/ unheard' = TRUE /\ UNCHANGED wire
    BY <1>2 DEF ModifyMachine
  <2>3. /\ wire' \in Seq(SUBSET Client) /\ Len(wire') <= MaxWire /\ (wire' # << >> => conn')
        /\ unheard' \in BOOLEAN /\ Announced'
    <3>1. CASE unheard' = TRUE /\ UNCHANGED wire
      BY <1>0, <3>1 DEF AccessInv, AccessTypeOK, Announced
    <3>2. CASE OnMachineModify /\ unheard' = (unheard /\ ~conn) /\ ~conn
      BY <1>0, <3>2 DEF AccessInv, AccessTypeOK, Announced, OnMachineModify
    <3>3. CASE OnMachineModify /\ unheard' = (unheard /\ ~conn) /\ conn
      <4>1. wire' = Append(wire, rows') /\ Len(wire) < MaxWire
        BY <3>3 DEF OnMachineModify
      <4>2. wire \in Seq(SUBSET Client) /\ rows' \in SUBSET Client
        BY <2>1 DEF AccessInv, AccessTypeOK
      <4>3. wire' \in Seq(SUBSET Client) /\ Len(wire') = Len(wire) + 1 /\ wire'[Len(wire')] = rows'
        BY <4>1, <4>2
      <4>4. wire' # << >> /\ Len(wire') <= MaxWire
        BY <4>1, <4>2, <4>3, AccessAssumption
      <4>5. unheard' \in BOOLEAN /\ conn'
        BY <1>0, <3>3
      <4>6. QED
        BY <4>3, <4>4, <4>5 DEF Announced
    <3>4. QED
      BY <2>2, <3>1, <3>2, <3>3
  <2>4. QED
    BY <1>0, <1>2, <2>1, <2>3 DEF AccessInv, AccessTypeOK, PermissionsMatchClients
<1>3. QED
  BY <1>1, <1>2


LEMMA SavesKeep ==
    ASSUME AccessInv, Save
    PROVE  AccessInv'
<1>1. ASSUME NEW clients \in SUBSET Client, NEW answer, ServeOthers(clients, answer)
      PROVE  AccessInv'
  <2>1. ModifyMachine(clients, answer) /\ requests' = IF Accepted(clients) THEN Overtaken ELSE requests
    BY <1>1 DEF ServeOthers
  <2>2. requests' \in Seq(Request) /\ Len(requests') = Len(requests)
    BY <2>1, OvertakenType DEF AccessInv, AccessTypeOK
  <2>3. SavesKept' /\ SavedIsShown'
    <3>1. CASE Accepted(clients)
      BY <2>1, <3>1, ModifiedKeeps, OvertakenKept DEF AccessInv, SavesKept, SavedIsShown
    <3>2. CASE ~Accepted(clients)
      BY <2>1, <3>2, ModifiedKeeps DEF AccessInv, SavesKept, SavedIsShown, form
    <3>3. QED
      BY <3>1, <3>2
  <2>4. QED
    BY <2>1, <2>2, <2>3, ModifiedKeeps DEF AccessInv, AccessTypeOK, form
<1>2. ASSUME NEW i \in 1 .. MaxRequests, Serve(i)
      PROVE  AccessInv'
  <2> DEFINE clients == requests[i].clients
  <2>1. /\ i \in DOMAIN requests /\ ~requests[i].done /\ Accepted(clients)
        /\ ModifyMachine(clients, "done") /\ requests' = [Overtaken EXCEPT ![i].done = TRUE]
    BY <1>2 DEF Serve
  <2>2. clients \in SUBSET Client
    BY <2>1, OvertakenType DEF AccessInv, Request
  <2>3. requests' \in Seq(Request) /\ Len(requests') = Len(requests) /\ Kept(requests', clients, FALSE)
    BY <2>1, ServedKept DEF AccessInv
  <2> HIDE DEF clients
  <2>4. SavesKept' /\ SavedIsShown'
    BY <2>1, <2>2, <2>3, ModifiedKeeps DEF SavesKept, SavedIsShown
  <2>5. QED
    BY <2>1, <2>2, <2>3, <2>4, ModifiedKeeps DEF AccessInv, AccessTypeOK, form
<1>3. ASSUME NEW i \in 1 .. MaxRequests, ServeFails(i)
      PROVE  AccessInv'
  <2> DEFINE clients == requests[i].clients
             saves == IF Accepted(clients) THEN Overtaken ELSE requests
  <2>1. i \in DOMAIN requests
    BY <1>3 DEF ServeFails
  <2>2. requests \in Seq(Request)
    BY DEF AccessInv, AccessTypeOK
  <2>3. CASE UNCHANGED <<server, channel, form, settled>> /\ requests' = RemoveAt(requests, i)
    <3>1. /\ requests' \in Seq(Request) /\ Len(requests') = Len(requests) - 1
          /\ Kept(requests', rows, settled)
      BY <2>1, <2>2, <2>3, RemovedKept DEF AccessInv, SavesKept
    <3>2. Len(requests') <= MaxRequests
      BY <3>1, <2>2, AccessAssumption DEF AccessInv, AccessTypeOK
    <3>3. SavesKept' /\ SavedIsShown' /\ PermissionsMatchClients' /\ Announced'
      BY <2>3, <3>1 DEF AccessInv, SavesKept, SavedIsShown, PermissionsMatchClients, Announced,
         server, channel, form
    <3>4. AccessTypeOK'
      BY <2>3, <3>1, <3>2 DEF AccessInv, AccessTypeOK, server, channel, form, Exist, Whole
    <3>5. QED
      BY <3>3, <3>4 DEF AccessInv
  <2>4. CASE ModifyMachine(clients, "failed") /\ requests' = RemoveAt(saves, i)
    <3>1. clients \in SUBSET Client
      BY <2>1, OvertakenType DEF AccessInv, Request
    <3>2. /\ saves \in Seq(Request) /\ Len(saves) = Len(requests) /\ i \in DOMAIN saves
      BY <2>1, <2>2, OvertakenType DEF AccessInv
    <3>3. Kept(saves, rows', settled')
      <4>1. CASE Accepted(clients)
        <5> HIDE DEF clients
        <5>1. saves = Overtaken /\ settled' = FALSE
          BY <2>4, <3>1, <4>1, ModifiedKeeps
        <5>2. QED
          BY <5>1, OvertakenKept DEF AccessInv
      <4>2. CASE ~Accepted(clients)
        <5> HIDE DEF clients
        <5>1. saves = requests /\ UNCHANGED <<rows, settled>>
          BY <2>4, <3>1, <4>2, ModifiedKeeps
        <5>2. QED
          BY <5>1 DEF AccessInv, SavesKept
      <4>3. QED
        BY <4>1, <4>2
    <3> HIDE DEF clients, saves
    <3>4. /\ requests' \in Seq(Request) /\ Len(requests') = Len(requests) - 1
          /\ Kept(requests', rows', settled')
      BY <2>4, <3>2, <3>3, RemovedKept
    <3>5. Len(requests') <= MaxRequests
      BY <3>4, <2>2, AccessAssumption DEF AccessInv, AccessTypeOK
    <3>6. SavesKept' /\ SavedIsShown'
      BY <2>4, <3>1, <3>4, ModifiedKeeps DEF AccessInv, SavesKept, SavedIsShown, form
    <3>7. QED
      BY <2>4, <3>1, <3>4, <3>5, <3>6, ModifiedKeeps DEF AccessInv, AccessTypeOK, form
  <2>5. QED
    BY <1>3, <2>3, <2>4 DEF ServeFails
<1>4. ASSUME NEW i \in 1 .. MaxRequests, Saved(i) \/ TimesOut(i)
      PROVE  AccessInv'
  <2>1. i \in DOMAIN requests /\ requests' = RemoveAt(requests, i) /\ requests \in Seq(Request)
    BY <1>4 DEF Saved, TimesOut, AccessInv, AccessTypeOK
  <2>2. /\ requests' \in Seq(Request) /\ Len(requests') = Len(requests) - 1
        /\ Kept(requests', rows, settled) /\ (requests[i].sole => requests' = << >>)
    BY <2>1, RemovedKept DEF AccessInv, SavesKept
  <2>3. Len(requests') <= MaxRequests
    BY <2>1, <2>2, AccessAssumption DEF AccessInv, AccessTypeOK
  <2>4. requests[i] \in Request
    BY <2>1
  <2>5. CASE TimesOut(i)
    <3>1. UNCHANGED <<server, channel, form, settled>>
      BY <2>5 DEF TimesOut
    <3>2. SavesKept' /\ SavedIsShown' /\ PermissionsMatchClients' /\ Announced'
      BY <2>2, <3>1 DEF AccessInv, SavesKept, SavedIsShown, PermissionsMatchClients, Announced,
         server, channel, form
    <3>3. AccessTypeOK'
      BY <2>2, <2>3, <3>1 DEF AccessInv, AccessTypeOK, server, channel, form, Exist, Whole
    <3>4. QED
      BY <3>2, <3>3 DEF AccessInv
  <2>6. CASE Saved(i)
    <3>1. /\ requests[i].done /\ settled' = (settled \/ requests[i].sole)
          /\ initial' = requests[i].clients /\ values' = requests[i].clients
          /\ UNCHANGED <<server, channel, editable, users>>
      BY <2>6 DEF Saved
    <3>2. ~settled
      BY <2>1, <3>1 DEF AccessInv, SavesKept, Kept
    <3>3. settled' => requests[i].sole
      BY <3>1, <3>2
    <3>4. settled' \in BOOLEAN /\ initial' \in SUBSET Client /\ values' \in SUBSET Client
      BY <2>4, <3>1 DEF Request
    <3>5. SavedIsShown'
      BY <2>1, <3>1, <3>3 DEF AccessInv, SavesKept, Kept, SavedIsShown, server
    <3>6. SavesKept'
      BY <2>2, <3>1, <3>3 DEF SavesKept, Kept, server
    <3>7. PermissionsMatchClients' /\ Announced'
      BY <3>1 DEF AccessInv, PermissionsMatchClients, Announced, server, channel
    <3>8. AccessTypeOK'
      BY <2>2, <2>3, <3>1, <3>4 DEF AccessInv, AccessTypeOK, server, channel, Exist, Whole
    <3>9. QED
      BY <3>5, <3>6, <3>7, <3>8 DEF AccessInv
  <2>7. QED
    BY <1>4, <2>5, <2>6
<1>5. QED
  BY <1>1, <1>2, <1>3, <1>4 DEF Save

LEMMA EditsKeep ==
    ASSUME AccessInv, Edit
    PROVE  AccessInv'
<1>1. requests \in Seq(Request) /\ wire \in Seq(SUBSET Client) /\ Len(wire) \in Nat
  BY DEF AccessInv, AccessTypeOK
<1>2. CASE SubmitChanges
  <2>1. requests' \in Seq(Request) /\ Len(requests') <= MaxRequests /\ Kept(requests', rows, settled)
    BY <1>2, SubmittedKept DEF AccessInv
  <2>2. UNCHANGED <<server, channel, form, settled>>
    BY <1>2 DEF SubmitChanges
  <2>3. SavesKept' /\ SavedIsShown' /\ PermissionsMatchClients' /\ Announced'
    BY <2>1, <2>2 DEF AccessInv, SavesKept, SavedIsShown, PermissionsMatchClients, Announced,
       server, channel, form
  <2>4. AccessTypeOK'
    BY <2>1, <2>2 DEF AccessInv, AccessTypeOK, server, channel, form, Exist, Whole
  <2>5. QED
    BY <2>3, <2>4 DEF AccessInv
<1>3. CASE UsersFetched \/ \E c \in Client : AddAssignedClient(c) \/ RemoveAssignedClient(c)
  <2>1. /\ UNCHANGED <<server, channel, editable, initial, requests, settled>>
        /\ users' \in SUBSET Client /\ values' \in SUBSET Client
    BY <1>3 DEF UsersFetched, AddAssignedClient, RemoveAssignedClient, AccessInv, AccessTypeOK, Exist
  <2>2. SavesKept' /\ SavedIsShown' /\ PermissionsMatchClients' /\ Announced'
    BY <2>1 DEF AccessInv, SavesKept, Kept, SavedIsShown, PermissionsMatchClients, Announced,
       server, channel
  <2>3. AccessTypeOK'
    BY <2>1 DEF AccessInv, AccessTypeOK, server, channel, Exist, Whole
  <2>4. QED
    BY <2>2, <2>3 DEF AccessInv
<1>4. CASE OnNewMessage
  <2>1. /\ wire # << >> /\ known' = Head(wire) /\ wire' = Tail(wire)
        /\ UNCHANGED <<server, conn, unheard, form, requests, settled>>
    BY <1>4 DEF OnNewMessage
  <2>2. /\ known' = wire[1] /\ wire' \in Seq(SUBSET Client) /\ Len(wire') = Len(wire) - 1
        /\ Len(wire) > 0 /\ wire[1] \in SUBSET Client
        /\ \A i \in 1 .. Len(wire) - 1 : wire'[i] = wire[i + 1]
    BY <1>1, <2>1
  <2>3. wire' = << >> <=> Len(wire) = 1
    BY <1>1, <2>2
  <2>4. Announced'
    <3>1. CASE Len(wire) = 1
      BY <2>1, <2>2, <2>3, <3>1 DEF AccessInv, Announced, server
    <3>2. CASE Len(wire) # 1
      <4>1. wire'[Len(wire')] = wire[Len(wire)]
        BY <1>1, <2>2, <3>2
      <4>2. QED
        BY <2>1, <2>3, <3>2, <4>1 DEF AccessInv, Announced, server
    <3>3. QED
      BY <3>1, <3>2
  <2>5. SavesKept' /\ SavedIsShown' /\ PermissionsMatchClients'
    BY <2>1 DEF AccessInv, SavesKept, Kept, SavedIsShown, PermissionsMatchClients, server, form
  <2>6. Len(wire') <= MaxWire
    BY <1>1, <2>2, AccessAssumption DEF AccessInv, AccessTypeOK
  <2>7. AccessTypeOK'
    BY <2>1, <2>2, <2>6 DEF AccessInv, AccessTypeOK, server, form, Exist, Whole
  <2>8. QED
    BY <2>4, <2>5, <2>7 DEF AccessInv
<1>5. CASE StateChanges
  <2>1. /\ values' = known /\ initial' = known /\ settled' = FALSE /\ editable' = ~editable
        /\ UNCHANGED <<server, channel, users, requests>>
    BY <1>5 DEF StateChanges
  <2>2. SavesKept' /\ SavedIsShown' /\ PermissionsMatchClients' /\ Announced'
    BY <2>1 DEF AccessInv, SavesKept, Kept, SavedIsShown, PermissionsMatchClients, Announced,
       server, channel
  <2>3. editable' \in BOOLEAN
    BY <2>1
  <2>4. AccessTypeOK'
    BY <2>1, <2>3 DEF AccessInv, AccessTypeOK, server, channel, Exist, Whole
  <2>5. QED
    BY <2>2, <2>4 DEF AccessInv
<1>6. CASE Disconnect
  <2>1. /\ conn' = FALSE /\ wire' = << >>
        /\ UNCHANGED <<server, known, unheard, form, requests, settled>>
    BY <1>6 DEF Disconnect
  <2>2. SavesKept' /\ SavedIsShown' /\ PermissionsMatchClients' /\ Announced'
    BY <2>1 DEF AccessInv, SavesKept, Kept, SavedIsShown, PermissionsMatchClients, Announced,
       server, form
  <2>3. wire' \in Seq(SUBSET Client) /\ Len(wire') <= MaxWire
    BY <2>1, AccessAssumption
  <2>4. AccessTypeOK'
    BY <2>1, <2>3 DEF AccessInv, AccessTypeOK, server, form, Exist, Whole
  <2>5. QED
    BY <2>2, <2>4 DEF AccessInv
<1>7. ASSUME NEW clients \in SUBSET Client, Mounts(clients),
             (wire' = <<rows>> /\ MaxWire > 0) \/ (wire' = << >> /\ clients = rows)
      PROVE  AccessInv'
  <2>1. /\ known' = clients /\ values' = clients /\ initial' = clients /\ users' = {}
        /\ requests' = << >> /\ settled' = FALSE /\ conn' = TRUE /\ unheard' = FALSE
        /\ UNCHANGED <<server, editable>>
    BY <1>7 DEF Mounts
  <2>2. rows \in SUBSET Client
    BY DEF AccessInv, AccessTypeOK, Exist
  <2>3. wire' \in Seq(SUBSET Client) /\ Len(wire') <= MaxWire /\ Announced'
    <3>1. CASE wire' = <<rows>> /\ MaxWire > 0
      <4>1. Len(<<rows>>) = 1 /\ <<rows>>[1] = rows /\ <<rows>> \in Seq(SUBSET Client) /\ <<rows>> # << >>
        BY <2>2
      <4>2. QED
        BY <2>1, <3>1, <4>1, AccessAssumption DEF Announced, server
    <3>2. CASE wire' = << >> /\ clients = rows
      BY <2>1, <3>2, AccessAssumption DEF Announced, server
    <3>3. QED
      BY <1>7, <3>1, <3>2
  <2>4. requests' \in Seq(Request) /\ Len(requests') <= MaxRequests /\ DOMAIN requests' = {}
    BY <2>1, AccessAssumption
  <2>5. SavesKept' /\ SavedIsShown' /\ PermissionsMatchClients'
    BY <2>1, <2>4 DEF AccessInv, SavesKept, Kept, SavedIsShown, PermissionsMatchClients, server
  <2>6. AccessTypeOK'
    BY <2>1, <2>3, <2>4 DEF AccessInv, AccessTypeOK, server, Exist, Whole
  <2>7. QED
    BY <2>3, <2>5, <2>6 DEF AccessInv
<1>8. CASE Reconnect
  <2>1. Mounts(known) /\ MaxWire > 0 /\ wire' = <<rows>>
    BY <1>8 DEF Reconnect
  <2>2. known \in SUBSET Client
    BY DEF AccessInv, AccessTypeOK
  <2>3. QED
    BY <1>7, <2>1, <2>2
<1>9. CASE Enter
  BY <1>7, <1>9 DEF Enter, AccessInv, AccessTypeOK, Exist
<1>10. QED
  BY <1>2, <1>3, <1>4, <1>5, <1>6, <1>8, <1>9 DEF Edit

LEMMA AccessNext == AccessInv /\ [Next]_vars => AccessInv'
<1> SUFFICES ASSUME AccessInv, [Next]_vars PROVE AccessInv'
  OBVIOUS
<1>1. CASE Accounts
  BY <1>1, MadeKeeps, DeletedKeeps DEF Accounts
<1>2. CASE Edit
  BY <1>2, EditsKeep
<1>3. CASE Save
  BY <1>3, SavesKeep
<1>4. CASE UNCHANGED vars
  BY <1>4 DEF AccessInv, AccessTypeOK, PermissionsMatchClients, Announced, SavesKept, Kept,
     SavedIsShown, Exist, Whole, vars, server, channel, form
<1>5. QED
  BY <1>1, <1>2, <1>3, <1>4 DEF Next

-----------------------------------------------------------------------------
\* The inductive invariant holds whatever is saved, fails, is announced or deleted.
THEOREM AccessAlways == Spec => []AccessInv
  BY AccessInit, AccessNext, PTL DEF Spec

\* The state has the shape AccessTypeOK gives it; in particular the rows of the machine
\* refer to clients that exist (deployed_machines_clients), and permissions to clients
\* that guacamole has an entity for.
THEOREM AccessTypeCorrect == Spec => []AccessTypeOK
<1>1. AccessInv => AccessTypeOK
  BY DEF AccessInv
<1>2. QED
  BY AccessAlways, <1>1, PTL

\* As long as the machine has its owner, the clients it is assigned to
\* (deployed_machines_clients) are those with a permission of guacamole's: a modification
\* that fails at any of its statements leaves both as they were.
THEOREM PermissionsMatch == Spec => []PermissionsMatchClients
<1>1. AccessInv => PermissionsMatchClients
  BY DEF AccessInv
<1>2. QED
  BY AccessAlways, <1>1, PTL

\* A connected page that has received every DATA_STATIC on its way to it knows the clients
\* of the machine, unless they changed in a way that is not announced.
THEOREM KnowsClients == Spec => []KnownIsCurrent
<1>1. AccessInv => KnownIsCurrent
  BY DEF AccessInv, Announced, KnownIsCurrent
<1>2. QED
  BY AccessAlways, <1>1, PTL

\* The form of a page whose only save was answered compares with what the machine has,
\* as long as nothing was saved since: what submitChanges sets is what it sent.
THEOREM ShowsSaved == Spec => []SavedIsShown
<1>1. AccessInv => SavedIsShown
  BY DEF AccessInv
<1>2. QED
  BY AccessAlways, <1>1, PTL
=============================================================================
