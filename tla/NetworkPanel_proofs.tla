------------------------- MODULE NetworkPanel_proofs -------------------------
(***************************************************************************)
(* Theorems about NetworkPanel: its type invariant, that a settled page    *)
(* shows the account selected, that a save goes to the account it was made *)
(* for, and that changes are not lost without a warning.  They hold for    *)
(* any accounts and any number of requests under way.                      *)
(***************************************************************************)
EXTENDS NetworkPanel, SequenceTheorems, TLAPS

\* No later request of the kind of the one at i waits for an answer.
Newest(i) == \A j \in DOMAIN requests : j > i => requests[j].kind # requests[i].kind

\* Whatever overtook a request overtook those of its kind made before it.
InOrder ==
    \A i, j \in DOMAIN requests :
        i < j /\ requests[i].kind = requests[j].kind /\ requests[j].overtaken => requests[i].overtaken

\* Nothing that was asked for is due: what waits of this kind was overtaken, and the last
\* answer was good.
Has(kind) ==
    /\ \A i \in DOMAIN requests : requests[i].kind = kind => requests[i].overtaken
    /\ current[kind]

\* The newest request of a kind, unless it was overtaken.
Due(i, kind) == requests[i].kind = kind /\ ~requests[i].overtaken /\ Newest(i)

\* The machines due are those of the account selected, and so are those the page has
\* when none are due; the same holds of the workspace as long as no machines are due.
MachinesFollow ==
    /\ \A i \in DOMAIN requests : Due(i, "machines") => requests[i].gives = selected
    /\ Has("machines") => machines = selected

WorkspaceFollows ==
    Has("machines") =>
        /\ \A i \in DOMAIN requests : Due(i, "workspace") => requests[i].gives = selected
        /\ Has("workspace") => flow = selected

\* While a save is the settled page's own, the flow is of the account it goes to.
OwnFlow == apply.own => flow = apply.to /\ apply.data = apply.to

\* While there are changes the page has to warn of, it is shown, and every request that
\* would replace them was confirmed.
Warned ==
    (\E p \in Part : unsaved[p] = "told") =>
        ~blank /\ \A i \in DOMAIN requests : requests[i].warned

RequestsOK ==
    /\ requests \in Seq(Request)
    /\ \A i \in DOMAIN requests : requests[i].kind = "machines" => requests[i].gives \in Account

Loaded == RequestsOK /\ InOrder /\ MachinesFollow /\ WorkspaceFollows

PanelInv == NetworkTypeOK /\ Loaded /\ OwnFlow /\ Warned

LEMMA RequestedIsRequest ==
    ASSUME NEW kind \in Kind, NEW gives \in Account \cup {Mixed}, NEW init \in BOOLEAN, NEW warned \in BOOLEAN
    PROVE  Requested(kind, gives, init, warned) \in Request
  BY SMT DEF Requested, Request

LEMMA PanelInit == Init => PanelInv
<1> SUFFICES ASSUME Init PROVE PanelInv
  OBVIOUS
<1>1. Requested("machines", Self, FALSE, FALSE) \in Request
  BY PanelAssumption, RequestedIsRequest DEF Kind
<1>2. /\ requests \in Seq(Request) /\ Len(requests) = 1 /\ DOMAIN requests = {1}
      /\ requests[1] = Requested("machines", Self, FALSE, FALSE)
  <2> DEFINE r == Requested("machines", Self, FALSE, FALSE)
  <2>1. requests = <<r>> /\ r \in Request
    BY <1>1 DEF Init
  <2> HIDE DEF r
  <2>2. <<r>> \in Seq(Request) /\ Len(<<r>>) = 1 /\ <<r>>[1] = r
    BY <2>1
  <2>3. DOMAIN <<r>> = 1 .. 1 /\ 1 .. 1 = {1}
    BY <2>2
  <2>4. QED
    BY <2>1, <2>2, <2>3 DEF r
<1>3. requests[1].kind = "machines" /\ requests[1].gives = Self /\ ~requests[1].overtaken
  BY <1>2 DEF Requested
<1>4. Loaded
  BY <1>2, <1>3, PanelAssumption DEF Init, Loaded, RequestsOK, InOrder, MachinesFollow,
     WorkspaceFollows, Has, Due
<1>5. NetworkTypeOK
  <2>1. Idle \in Apply
    BY SMT DEF Idle, Apply, Flow
  <2>2. \A i \in DOMAIN requests : requests[i] \in Request
    BY <1>1, <1>2
  <2>3. unsaved \in [Part -> Kept] /\ \A p \in Part : unsaved[p] # "told"
    BY DEF Init, Nothing, Kept
  <2>4. current \in [Kind -> BOOLEAN]
    BY DEF Init
  <2>5. QED
    BY <2>1, <2>2, <2>3, <2>4, PanelAssumption DEF Init, NetworkTypeOK, Flow, Idle
<1>6. OwnFlow
  BY DEF Init, OwnFlow, Idle
<1>7. Warned
  BY DEF Init, Warned, Nothing
<1>8. QED
  BY <1>4, <1>5, <1>6, <1>7 DEF PanelInv

-----------------------------------------------------------------------------
(* Requests that are made.                                                  *)

\* A new request for machines, of the account then selected: none are had until it is
\* answered.
LEMMA AskMachines ==
    ASSUME Loaded, selected' \in Account, UNCHANGED current,
           NEW init \in BOOLEAN, NEW warned \in BOOLEAN,
           requests' = Append(requests, Requested("machines", selected', init, warned))
    PROVE  Loaded'
<1> DEFINE r == Requested("machines", selected', init, warned)
<1>1. r \in Request /\ r.kind = "machines" /\ r.gives = selected' /\ ~r.overtaken
  BY RequestedIsRequest DEF Kind, Requested
<1> HIDE DEF r
<1>2. /\ requests' \in Seq(Request) /\ requests \in Seq(Request)
      /\ DOMAIN requests = 1 .. Len(requests) /\ DOMAIN requests' = 1 .. Len(requests) + 1
      /\ requests'[Len(requests) + 1] = r
      /\ \A i \in 1 .. Len(requests) : requests'[i] = requests[i]
  BY <1>1 DEF Loaded, RequestsOK, r
<1>3. RequestsOK'
  BY <1>1, <1>2 DEF Loaded, RequestsOK
<1>4. InOrder'
  BY <1>1, <1>2 DEF Loaded, InOrder
<1>5. ~Has("machines")'
  BY <1>1, <1>2 DEF Has
<1>6. MachinesFollow'
  BY <1>1, <1>2, <1>5 DEF MachinesFollow, Due, Newest
<1>7. QED
  BY <1>3, <1>4, <1>5, <1>6 DEF Loaded, WorkspaceFollows

\* A new request for a workspace, of the account selected if the machines are had.
LEMMA AskWorkspace ==
    ASSUME Loaded, NetworkTypeOK, UNCHANGED <<current, selected, machines, flow>>,
           NEW init \in BOOLEAN, NEW warned \in BOOLEAN,
           requests' = Append(requests, Requested("workspace", FlowWith(machines, selected), init, warned))
    PROVE  Loaded'
<1> DEFINE r == Requested("workspace", FlowWith(machines, selected), init, warned)
<1>1. r \in Request /\ r.kind = "workspace" /\ r.gives = FlowWith(machines, selected) /\ ~r.overtaken
  BY RequestedIsRequest DEF Kind, Requested, FlowWith, NetworkTypeOK
<1> HIDE DEF r
<1>2. /\ requests' \in Seq(Request) /\ requests \in Seq(Request)
      /\ DOMAIN requests = 1 .. Len(requests) /\ DOMAIN requests' = 1 .. Len(requests) + 1
      /\ requests'[Len(requests) + 1] = r
      /\ \A i \in 1 .. Len(requests) : requests'[i] = requests[i]
  BY <1>1 DEF Loaded, RequestsOK, r
<1>3. RequestsOK'
  BY <1>1, <1>2 DEF Loaded, RequestsOK
<1>4. InOrder'
  BY <1>1, <1>2 DEF Loaded, InOrder
<1>5. Has("machines")' => Has("machines")
  BY <1>1, <1>2 DEF Has
<1>6. MachinesFollow'
  <2>1. ASSUME NEW i \in DOMAIN requests', Due(i, "machines")'
        PROVE  i \in DOMAIN requests /\ Due(i, "machines")
    BY <1>1, <1>2, <2>1 DEF Due, Newest
  <2>2. QED
    BY <1>2, <1>5, <2>1 DEF MachinesFollow, Loaded
<1>7. WorkspaceFollows'
  <2> SUFFICES ASSUME Has("machines")' PROVE WorkspaceFollows'
    BY DEF WorkspaceFollows
  <2>1. r.gives = selected
    BY <1>1, <1>5 DEF FlowWith, Loaded, MachinesFollow
  <2>2. \A i \in DOMAIN requests' : Due(i, "workspace")' => i = Len(requests) + 1
    BY <1>1, <1>2 DEF Due, Newest
  <2>3. ~Has("workspace")'
    BY <1>1, <1>2 DEF Has
  <2>4. QED
    BY <1>2, <2>1, <2>2, <2>3 DEF WorkspaceFollows
<1>8. QED
  BY <1>3, <1>4, <1>6, <1>7 DEF Loaded

-----------------------------------------------------------------------------
(* Requests that are answered.                                              *)

\* What is left of the requests when the one at i is answered.
LEMMA OthersLeft ==
    ASSUME requests \in Seq(Request), NEW i \in DOMAIN requests
    PROVE  /\ Others(i) \in Seq(Request) /\ Len(Others(i)) = Len(requests) - 1
           /\ DOMAIN Others(i) = 1 .. Len(requests) - 1
           /\ DOMAIN requests = 1 .. Len(requests) /\ Len(requests) \in Nat \ {0}
           /\ \A j \in DOMAIN Others(i) :
                /\ j < i => /\ j \in DOMAIN requests
                            /\ Others(i)[j].kind = requests[j].kind
                            /\ Others(i)[j].gives = requests[j].gives
                            /\ Others(i)[j].overtaken <=>
                                  requests[j].overtaken \/ requests[j].kind = requests[i].kind
                /\ j >= i => j + 1 \in DOMAIN requests /\ Others(i)[j] = requests[j + 1]
                /\ \E k \in DOMAIN requests : Others(i)[j].warned = requests[k].warned
<1>1. /\ DOMAIN requests = 1 .. Len(requests) /\ Len(requests) \in Nat \ {0} /\ i \in 1 .. Len(requests)
      /\ \A j \in 1 .. Len(requests) : requests[j] \in Request
  OBVIOUS
<1>2. ASSUME NEW j \in 1 .. Len(requests) - 1
      PROVE  /\ Others(i)[j] \in Request
             /\ j < i => /\ Others(i)[j].kind = requests[j].kind
                         /\ Others(i)[j].gives = requests[j].gives
                         /\ Others(i)[j].overtaken <=>
                               requests[j].overtaken \/ requests[j].kind = requests[i].kind
             /\ j >= i => Others(i)[j] = requests[j + 1]
             /\ \E k \in DOMAIN requests : Others(i)[j].warned = requests[k].warned
  <2>1. j \in 1 .. Len(requests) /\ j + 1 \in 1 .. Len(requests) /\ j \in Int /\ i \in Int
    BY <1>1
  <2>2. CASE j < i /\ requests[j].kind = requests[i].kind
    <3>1. Others(i)[j] = [requests[j] EXCEPT !.overtaken = TRUE]
      BY <2>2 DEF Others
    <3>2. requests[j] \in Request
      BY <1>1, <2>1
    <3>3. ASSUME NEW q \in Request, NEW p, p = [q EXCEPT !.overtaken = TRUE]
          PROVE  p \in Request /\ p.kind = q.kind /\ p.gives = q.gives /\ p.overtaken /\ p.warned = q.warned
      BY <3>3 DEF Request
    <3>4. QED
      BY <2>1, <2>2, <3>1, <3>2, <3>3
  <2>3. CASE j < i /\ requests[j].kind # requests[i].kind
    <3>1. Others(i)[j] = requests[j]
      BY <2>3 DEF Others
    <3>2. QED
      BY <1>1, <2>1, <2>3, <3>1
  <2>4. CASE ~(j < i)
    <3>1. Others(i)[j] = requests[j + 1]
      BY <2>4 DEF Others
    <3>2. QED
      BY <1>1, <2>1, <2>4, <3>1
  <2>5. QED
    BY <2>2, <2>3, <2>4
<1>3. Others(i) \in [1 .. Len(requests) - 1 -> Request]
  <2>1. Others(i) = [j \in 1 .. Len(requests) - 1 |-> Others(i)[j]]
    BY DEF Others
  <2>2. QED
    BY <1>2, <2>1
<1>4. DOMAIN Others(i) = 1 .. Len(requests) - 1
  BY <1>3
<1>5. Others(i) \in Seq(Request) /\ Len(Others(i)) = Len(requests) - 1
  <2>1. Len(requests) - 1 \in Nat
    BY <1>1
  <2>2. Others(i) \in Seq(Request)
    BY <1>3, <2>1, SeqDef, Zenon
  <2>3. Len(Others(i)) \in Nat /\ DOMAIN Others(i) = 1 .. Len(Others(i))
    BY <2>2
  <2>4. QED
    BY <1>4, <2>1, <2>2, <2>3
<1>6. ASSUME NEW j \in DOMAIN Others(i)
      PROVE  /\ j < i => j \in DOMAIN requests
             /\ j >= i => j + 1 \in DOMAIN requests
  BY <1>1, <1>4, <1>6
<1>7. QED
  BY <1>1, <1>2, <1>4, <1>5, <1>6, Zenon

\* The requests that are left keep their order, whatever workspace is asked for after
\* them, and those of the kind answered that were not overtaken were made after it.
LEMMA AnswerInOrder ==
    ASSUME Loaded, NEW i \in DOMAIN requests,
           requests' \in Seq(Request), Len(requests') >= Len(requests) - 1,
           \A j \in 1 .. Len(requests) - 1 : requests'[j] = Others(i)[j],
           \A j \in DOMAIN requests' : j >= Len(requests) =>
               requests'[j].kind = "workspace" /\ ~requests'[j].overtaken
    PROVE  /\ RequestsOK' /\ InOrder'
           /\ \A j \in DOMAIN requests' : j < Len(requests) /\ ~requests'[j].overtaken =>
                \E k \in DOMAIN requests :
                    /\ requests[k].kind = requests'[j].kind /\ requests[k].gives = requests'[j].gives
                    /\ ~requests[k].overtaken /\ k # i
                    /\ requests[k].kind = requests[i].kind => k > i
                    /\ Newest(j)' => Newest(k)
           /\ \A k \in DOMAIN requests : k # i =>
                \E j \in DOMAIN requests' :
                    /\ requests'[j].kind = requests[k].kind
                    /\ requests'[j].overtaken =>
                          requests[k].overtaken \/ (k < i /\ requests[k].kind = requests[i].kind)
<1>1. /\ Len(requests') \in Nat /\ DOMAIN requests' = 1 .. Len(requests')
      /\ DOMAIN requests = 1 .. Len(requests) /\ Len(requests) \in Nat \ {0}
      /\ \A j \in 1 .. Len(requests) - 1 :
           /\ j \in DOMAIN requests'
           /\ j < i => /\ j \in DOMAIN requests
                       /\ requests'[j].kind = requests[j].kind
                       /\ requests'[j].gives = requests[j].gives
                       /\ requests'[j].overtaken <=>
                             requests[j].overtaken \/ requests[j].kind = requests[i].kind
           /\ j >= i => j + 1 \in DOMAIN requests /\ requests'[j] = requests[j + 1]
  <2> DEFINE n == Len(requests) - 1
  <2>1. requests \in Seq(Request)
    BY DEF Loaded, RequestsOK
  <2>2. Len(requests') \in Nat /\ DOMAIN requests' = 1 .. Len(requests')
    BY LenProperties
  <2>3. /\ DOMAIN requests = 1 .. Len(requests) /\ Len(requests) \in Nat \ {0}
        /\ DOMAIN Others(i) = 1 .. n
    BY <2>1, OthersLeft
  <2>4. \A j \in 1 .. n : j \in DOMAIN requests'
    BY <2>2, <2>3
  <2>5. ASSUME NEW j \in 1 .. n
        PROVE  /\ j < i => /\ j \in DOMAIN requests
                           /\ requests'[j].kind = requests[j].kind
                           /\ requests'[j].gives = requests[j].gives
                           /\ requests'[j].overtaken <=>
                                 requests[j].overtaken \/ requests[j].kind = requests[i].kind
               /\ j >= i => j + 1 \in DOMAIN requests /\ requests'[j] = requests[j + 1]
    <3>1. requests'[j] = Others(i)[j] /\ j \in DOMAIN Others(i)
      BY <2>3
    <3>2. /\ j < i => /\ j \in DOMAIN requests
                      /\ Others(i)[j].kind = requests[j].kind
                      /\ Others(i)[j].gives = requests[j].gives
                      /\ Others(i)[j].overtaken <=>
                            requests[j].overtaken \/ requests[j].kind = requests[i].kind
          /\ j >= i => j + 1 \in DOMAIN requests /\ Others(i)[j] = requests[j + 1]
      BY <2>1, <3>1, OthersLeft
    <3>3. QED
      BY <3>1, <3>2
  <2>6. QED
    BY <2>2, <2>3, <2>4, <2>5
<1>2. RequestsOK'
  <2>1. ASSUME NEW j \in DOMAIN requests', requests'[j].kind = "machines" PROVE requests'[j].gives \in Account
    <3>1. j \in 1 .. Len(requests) - 1
      BY <1>1, <2>1
    <3>2. CASE j < i
      BY <1>1, <2>1, <3>1, <3>2 DEF Loaded, RequestsOK
    <3>3. CASE j >= i
      <4>1. j + 1 \in DOMAIN requests /\ requests'[j] = requests[j + 1]
        BY <1>1, <3>1, <3>3
      <4>2. QED
        BY <2>1, <4>1 DEF Loaded, RequestsOK
    <3>4. QED
      BY <1>1, <3>1, <3>2, <3>3
  <2>2. QED
    BY <2>1 DEF RequestsOK
<1>3. InOrder'
  <2> SUFFICES ASSUME NEW a \in DOMAIN requests', NEW b \in DOMAIN requests', a < b,
                      requests'[a].kind = requests'[b].kind, requests'[b].overtaken
               PROVE  requests'[a].overtaken
    BY DEF InOrder
  <2> a \in 1 .. Len(requests) - 1 /\ b \in 1 .. Len(requests) - 1
    BY <1>1
  <2>1. CASE b < i
    BY <1>1, <2>1 DEF Loaded, InOrder
  <2>2. CASE a < i /\ b >= i
    <3>1. b + 1 \in DOMAIN requests /\ a < b + 1 /\ requests'[b] = requests[b + 1]
      BY <1>1, <2>2
    <3>2. QED
      BY <1>1, <2>2, <3>1 DEF Loaded, InOrder
  <2>3. CASE a >= i
    <3>1. /\ a + 1 \in DOMAIN requests /\ b + 1 \in DOMAIN requests /\ a + 1 < b + 1
          /\ requests'[a] = requests[a + 1] /\ requests'[b] = requests[b + 1]
      BY <1>1, <2>3
    <3>2. QED
      BY <3>1 DEF Loaded, InOrder
  <2>4. QED
    BY <1>1, <2>1, <2>2, <2>3
<1>4. ASSUME NEW j \in DOMAIN requests', j < Len(requests), ~requests'[j].overtaken
      PROVE  \E k \in DOMAIN requests :
                /\ requests[k].kind = requests'[j].kind /\ requests[k].gives = requests'[j].gives
                /\ ~requests[k].overtaken /\ k # i
                /\ requests[k].kind = requests[i].kind => k > i
                /\ Newest(j)' => Newest(k)
  <2> j \in 1 .. Len(requests) - 1
    BY <1>1, <1>4
  <2>1. CASE j < i
    <3>1. ASSUME Newest(j)', requests[j].kind # requests[i].kind PROVE Newest(j)
      <4>1. ASSUME NEW k \in DOMAIN requests, k > j, requests[k].kind = requests[j].kind PROVE FALSE
        <5>1. k # i
          BY <3>1, <4>1
        <5>2. CASE k < i
          BY <1>1, <2>1, <3>1, <4>1, <5>2 DEF Newest
        <5>3. CASE k > i
          <6>1. k - 1 \in DOMAIN requests' /\ k - 1 >= i /\ requests'[k - 1] = requests[k]
            BY <1>1, <5>3
          <6>2. QED
            BY <1>1, <2>1, <3>1, <4>1, <6>1 DEF Newest
        <5>4. QED
          BY <1>1, <5>1, <5>2, <5>3
      <4>2. QED
        BY <4>1 DEF Newest
    <3>2. QED
      BY <1>1, <1>4, <2>1, <3>1
  <2>2. CASE j >= i
    <3>1. ASSUME Newest(j)' PROVE Newest(j + 1)
      <4>1. ASSUME NEW k \in DOMAIN requests, k > j + 1, requests[k].kind = requests[j + 1].kind PROVE FALSE
        <5>1. k - 1 \in DOMAIN requests' /\ k - 1 >= i /\ requests'[k - 1] = requests[k]
          BY <1>1, <2>2, <4>1
        <5>2. QED
          BY <1>1, <2>2, <3>1, <4>1, <5>1 DEF Newest
      <4>2. QED
        BY <4>1 DEF Newest
    <3>2. QED
      BY <1>1, <1>4, <2>2, <3>1
  <2>3. QED
    BY <1>1, <2>1, <2>2
<1>5. ASSUME NEW k \in DOMAIN requests, k # i
      PROVE  \E j \in DOMAIN requests' :
                /\ requests'[j].kind = requests[k].kind
                /\ requests'[j].overtaken =>
                      requests[k].overtaken \/ (k < i /\ requests[k].kind = requests[i].kind)
  <2>1. CASE k < i
    <3>1. k \in DOMAIN requests'
      BY <1>1, <2>1
    <3>2. /\ requests'[k].kind = requests[k].kind
          /\ requests'[k].overtaken <=> requests[k].overtaken \/ requests[k].kind = requests[i].kind
      BY <1>1, <2>1, <3>1
    <3>3. QED
      BY <2>1, <3>1, <3>2
  <2>2. CASE k > i
    <3>1. k - 1 \in DOMAIN requests' /\ k - 1 >= i /\ requests'[k - 1] = requests[k]
      BY <1>1, <2>2
    <3>2. QED
      BY <3>1
  <2>3. QED
    BY <1>1, <1>5, <2>1, <2>2
<1>6. QED
  BY <1>2, <1>3, <1>4, <1>5

\* What an answer does to the requests that are due, and to what the page has.
LEMMA AnswerEffects ==
    ASSUME Loaded, NetworkTypeOK, NEW i \in DOMAIN requests, NEW ok \in BOOLEAN, Answered(i, ok),
           requests' \in Seq(Request), Len(requests') >= Len(requests) - 1,
           \A j \in 1 .. Len(requests) - 1 : requests'[j] = Others(i)[j],
           \A j \in DOMAIN requests' : j >= Len(requests) =>
               requests'[j].kind = "workspace" /\ ~requests'[j].overtaken
    PROVE  /\ RequestsOK' /\ InOrder' /\ requests[i].kind \in Kind
           /\ \A kind \in Kind, j \in DOMAIN requests' : j < Len(requests) /\ Due(j, kind)' =>
                \E k \in DOMAIN requests : Due(k, kind) /\ requests[k].gives = requests'[j].gives
           /\ \A kind \in Kind : kind # requests[i].kind /\ Has(kind)' => Has(kind)
           /\ \A kind \in Kind : kind = requests[i].kind /\ Has(kind)' => ok /\ Due(i, kind)
<1>1. /\ RequestsOK' /\ InOrder'
      /\ \A j \in DOMAIN requests' : j < Len(requests) /\ ~requests'[j].overtaken =>
           \E k \in DOMAIN requests :
               /\ requests[k].kind = requests'[j].kind /\ requests[k].gives = requests'[j].gives
               /\ ~requests[k].overtaken /\ k # i
               /\ requests[k].kind = requests[i].kind => k > i
               /\ Newest(j)' => Newest(k)
      /\ \A k \in DOMAIN requests : k # i =>
           \E j \in DOMAIN requests' :
               /\ requests'[j].kind = requests[k].kind
               /\ requests'[j].overtaken =>
                     requests[k].overtaken \/ (k < i /\ requests[k].kind = requests[i].kind)
  BY AnswerInOrder
<1>2. /\ requests[i].kind \in Kind /\ requests[i].overtaken \in BOOLEAN
      /\ DOMAIN requests = 1 .. Len(requests) /\ Len(requests) \in Nat /\ i \in Int
  <2>1. requests \in Seq(Request)
    BY DEF Loaded, RequestsOK
  <2>2. requests[i] \in Request
    BY <2>1
  <2>3. QED
    BY <2>1, <2>2 DEF Request, Kind
<1>3. /\ current'[requests[i].kind] = (ok /\ ~requests[i].overtaken)
      /\ \A kind \in Kind : kind # requests[i].kind => current'[kind] = current[kind]
  BY <1>2 DEF Answered, NetworkTypeOK
<1>4. ASSUME NEW kind \in Kind, NEW j \in DOMAIN requests', j < Len(requests), Due(j, kind)'
      PROVE  \E k \in DOMAIN requests : Due(k, kind) /\ requests[k].gives = requests'[j].gives
  <2>1. requests'[j].kind = kind /\ ~requests'[j].overtaken /\ Newest(j)'
    BY <1>4 DEF Due
  <2>2. PICK k \in DOMAIN requests :
               /\ requests[k].kind = requests'[j].kind /\ requests[k].gives = requests'[j].gives
               /\ ~requests[k].overtaken
               /\ Newest(j)' => Newest(k)
    BY <1>1, <1>4, <2>1
  <2>3. QED
    BY <2>1, <2>2 DEF Due
<1>5. ASSUME NEW kind \in Kind, kind # requests[i].kind, Has(kind)' PROVE Has(kind)
  <2>1. ASSUME NEW k \in DOMAIN requests, requests[k].kind = kind PROVE requests[k].overtaken
    BY <1>1, <1>5, <2>1 DEF Has
  <2>2. QED
    BY <1>3, <1>5, <2>1 DEF Has
<1>6. ASSUME NEW kind \in Kind, kind = requests[i].kind, Has(kind)' PROVE ok /\ Due(i, kind)
  <2>1. ok /\ ~requests[i].overtaken
    <3>1. current'[kind]
      BY <1>6 DEF Has
    <3>2. QED
      BY <1>3, <1>6, <3>1, Zenon
  <2>2. ASSUME NEW k \in DOMAIN requests, k > i, requests[k].kind = requests[i].kind PROVE FALSE
    <3>1. requests[k].overtaken
      BY <1>1, <1>2, <1>6, <2>2 DEF Has
    <3>2. QED
      BY <2>1, <2>2, <3>1 DEF Loaded, InOrder
  <2>3. QED
    BY <1>6, <2>1, <2>2 DEF Due, Newest
<1>7. QED
  BY <1>1, <1>2, <1>4, <1>5, <1>6

\* The answer asks for the workspace of the machines it brings.
LEMMA MachinesAnswered ==
    ASSUME Loaded, NetworkTypeOK, NEW i \in 1 .. MaxRequests, AnswerMachines(i)
    PROVE  Loaded' /\ machines' \in Account
<1> DEFINE r == Requested("workspace", FlowWith(requests[i].gives, selected), TRUE, requests[i].warned)
           n == Len(requests) - 1
<1>1. /\ i \in DOMAIN requests /\ requests[i].kind = "machines" /\ machines' = requests[i].gives
      /\ Answered(i, TRUE) /\ requests' = Append(Others(i), r) /\ UNCHANGED <<selected, flow>>
  BY DEF AnswerMachines
<1>2. machines' \in Account /\ requests[i].warned \in BOOLEAN
  <2>1. requests \in Seq(Request) /\ machines' \in Account
    BY <1>1 DEF Loaded, RequestsOK
  <2>2. requests[i] \in Request
    BY <1>1, <2>1
  <2>3. QED
    BY <2>1, <2>2 DEF Request
<1>3. r \in Request /\ r.kind = "workspace" /\ ~r.overtaken /\ r.gives = FlowWith(machines', selected)
  BY <1>1, <1>2, RequestedIsRequest DEF Kind, Requested, FlowWith
<1> HIDE DEF r
<1>4. Others(i) \in Seq(Request) /\ Len(Others(i)) = n /\ DOMAIN Others(i) = 1 .. n /\ n \in Nat
  BY <1>1, OthersLeft DEF Loaded, RequestsOK
<1>5. /\ requests' \in Seq(Request) /\ Len(requests') = n + 1 /\ DOMAIN requests' = 1 .. n + 1
      /\ requests'[n + 1] = r
      /\ \A j \in 1 .. n : requests'[j] = Others(i)[j]
  BY <1>1, <1>3, <1>4
<1>6. /\ Len(requests') >= Len(requests) - 1 /\ \A j \in 1 .. Len(requests) - 1 : requests'[j] = Others(i)[j]
      /\ \A j \in DOMAIN requests' : j >= Len(requests) =>
               requests'[j].kind = "workspace" /\ ~requests'[j].overtaken
  BY <1>3, <1>4, <1>5
<1>7. /\ RequestsOK' /\ InOrder'
      /\ \A kind \in Kind, j \in DOMAIN requests' : j < Len(requests) /\ Due(j, kind)' =>
           \E k \in DOMAIN requests : Due(k, kind) /\ requests[k].gives = requests'[j].gives
      /\ Has("machines")' => Due(i, "machines")
  <2> "machines" \in Kind
    BY DEF Kind
  <2> QED
    BY <1>1, <1>5, <1>6, AnswerEffects
<1>8. MachinesFollow'
  <2>1. ASSUME NEW j \in DOMAIN requests', Due(j, "machines")' PROVE requests'[j].gives = selected'
    <3>1. j < Len(requests)
      BY <1>3, <1>4, <1>5, <2>1 DEF Due
    <3>2. QED
      BY <1>1, <1>7, <2>1, <3>1 DEF Kind, Loaded, MachinesFollow
  <2>2. Has("machines")' => machines' = selected'
    BY <1>1, <1>7 DEF Loaded, MachinesFollow
  <2>3. QED
    BY <2>1, <2>2 DEF MachinesFollow
<1>9. WorkspaceFollows'
  <2> SUFFICES ASSUME Has("machines")' PROVE WorkspaceFollows'
    BY DEF WorkspaceFollows
  <2>1. r.gives = selected'
    BY <1>1, <1>3, <1>8 DEF MachinesFollow, FlowWith
  <2>2. ASSUME NEW j \in DOMAIN requests', Due(j, "workspace")' PROVE j = n + 1
    BY <1>3, <1>4, <1>5, <2>2 DEF Due, Newest
  <2>3. ~Has("workspace")'
    BY <1>3, <1>4, <1>5 DEF Has
  <2>4. QED
    BY <1>5, <2>1, <2>2, <2>3 DEF WorkspaceFollows
<1>10. QED
  BY <1>2, <1>7, <1>8, <1>9 DEF Loaded

\* An answer after which nothing is asked for: the machines that are due, and had, are
\* those that were, unless it was an answer of machines that failed; the flow is that of
\* a workspace that was due, or none is had.
LEMMA OnlyAnswered ==
    ASSUME Loaded, NetworkTypeOK, NEW i \in DOMAIN requests, NEW ok \in BOOLEAN, Answered(i, ok),
           requests' = Others(i), UNCHANGED selected,
           requests[i].kind = "machines" => ~ok,
           requests[i].kind = "workspace" => UNCHANGED machines,
           requests[i].kind = "workspace" /\ ok => flow' = requests[i].gives
    PROVE  Loaded'
<1>1. /\ Others(i) \in Seq(Request) /\ Len(Others(i)) = Len(requests) - 1
      /\ DOMAIN Others(i) = 1 .. Len(requests) - 1 /\ Len(requests) \in Nat
  BY OthersLeft DEF Loaded, RequestsOK
<1>2. /\ requests' \in Seq(Request) /\ Len(requests') >= Len(requests) - 1
      /\ \A j \in 1 .. Len(requests) - 1 : requests'[j] = Others(i)[j]
      /\ \A j \in DOMAIN requests' : j < Len(requests)
  BY <1>1
<1>3. \A j \in DOMAIN requests' : j >= Len(requests) =>
           requests'[j].kind = "workspace" /\ ~requests'[j].overtaken
  BY <1>1, <1>2
<1>4. /\ RequestsOK' /\ InOrder' /\ requests[i].kind \in Kind
      /\ \A kind \in Kind, j \in DOMAIN requests' : j < Len(requests) /\ Due(j, kind)' =>
           \E k \in DOMAIN requests : Due(k, kind) /\ requests[k].gives = requests'[j].gives
      /\ \A kind \in Kind : kind # requests[i].kind /\ Has(kind)' => Has(kind)
      /\ \A kind \in Kind : kind = requests[i].kind /\ Has(kind)' => ok /\ Due(i, kind)
  BY <1>2, <1>3, AnswerEffects
<1>5. Has("machines")' => requests[i].kind = "workspace" /\ Has("machines")
  BY <1>4 DEF Kind
<1>6. MachinesFollow'
  BY <1>2, <1>4, <1>5 DEF Kind, Loaded, MachinesFollow
<1>7. WorkspaceFollows'
  BY <1>2, <1>4, <1>5 DEF Kind, Loaded, WorkspaceFollows
<1>8. QED
  BY <1>4, <1>6, <1>7 DEF Loaded

-----------------------------------------------------------------------------
(* Steps.                                                                   *)

LEMMA EditStep == PanelInv /\ Edit => PanelInv'
<1> SUFFICES ASSUME PanelInv, Edit PROVE PanelInv'
  OBVIOUS
<1>1. PICK parts \in SUBSET Part, flagged \in BOOLEAN : Changed(parts, flagged)
  BY DEF Edit, MoveNode, SelectNode, ChangeEdges, ConnectNodes, ByForm, LinkByForm,
     CreateIntnetByForm, UnlinkByForm, RemoveIntnet, Part
<1>2. picked' \in BOOLEAN /\ ~blank
  BY DEF Edit, MoveNode, SelectNode, ChangeEdges, ConnectNodes, ByForm, LinkByForm,
     CreateIntnetByForm, UnlinkByForm, RemoveIntnet, CanEdit, PanelInv, NetworkTypeOK
<1>3. UNCHANGED <<selected, flow, asking, apply, machines, blank, requests, current>>
  BY <1>1 DEF Changed, loading
<1>4. unsaved' \in [Part -> Kept] /\ late' \subseteq Part /\ isDirty' \in {"null", "true", "false"}
  BY <1>1 DEF Changed, PanelInv, NetworkTypeOK, Kept
<1>5. ASSUME NEW p \in Part, unsaved'[p] = "told"
      PROVE  isDirty' = "true" /\ (unsaved[p] = "told" \/ requests = << >>)
  BY <1>1, <1>5 DEF Changed, PanelInv, NetworkTypeOK
<1>6. NetworkTypeOK'
  BY <1>2, <1>3, <1>4, <1>5 DEF PanelInv, NetworkTypeOK
<1>7. Loaded'
  BY <1>3 DEF PanelInv, Loaded, RequestsOK, InOrder, MachinesFollow, WorkspaceFollows, Has, Due, Newest
<1>8. OwnFlow'
  BY <1>3 DEF PanelInv, OwnFlow
<1>9. Warned'
  BY <1>2, <1>3, <1>5 DEF PanelInv, Warned
<1>10. QED
  BY <1>6, <1>7, <1>8, <1>9 DEF PanelInv

\* The changes stay and so does what is shown; a request is made if there are none the
\* page would have to warn of, or if it warned.
LEMMA AskStep ==
    ASSUME PanelInv, Loaded', selected' \in Account, asking' \in Account \cup {"no", "refresh", "restore"},
           UNCHANGED <<machines, blank, current, flow, picked, changes, apply>>,
           NEW r, r.warned \/ isDirty # "true", requests' = Append(requests, r), r \in Request
    PROVE  PanelInv'
<1>1. \A i \in DOMAIN requests' : requests'[i] \in Request
  BY DEF Loaded, RequestsOK
<1>2. NetworkTypeOK'
  BY <1>1 DEF PanelInv, NetworkTypeOK, changes
<1>3. OwnFlow'
  BY DEF PanelInv, OwnFlow
<1>4. Warned'
  <2>1. \A i \in DOMAIN requests' : requests'[i] = r \/ \E j \in DOMAIN requests : requests'[i] = requests[j]
    BY DEF PanelInv, Loaded, RequestsOK
  <2>2. QED
    BY <2>1 DEF PanelInv, NetworkTypeOK, Warned, changes
<1>5. QED
  BY <1>2, <1>3, <1>4 DEF PanelInv

LEMMA LoadStep == PanelInv /\ Load => PanelInv'
<1> SUFFICES ASSUME PanelInv, Load PROVE PanelInv'
  OBVIOUS
<1> USE DEF PanelInv
<1>1. ASSUME NEW a \in Account, NEW warned \in BOOLEAN, ExecuteSwitch(a, warned),
             warned \/ isDirty # "true", asking' \in {"no", asking}
      PROVE  PanelInv'
  <2> DEFINE r == Requested("machines", selected', FALSE, warned)
  <2>1. requests' = Append(requests, r) /\ selected' = a
    BY <1>1 DEF ExecuteSwitch, Ask
  <2>2. r \in Request /\ r.warned = warned
    BY <2>1, RequestedIsRequest DEF Kind, Requested
  <2>3. UNCHANGED <<machines, blank, current, flow, picked, changes, apply>>
    BY <1>1 DEF ExecuteSwitch
  <2>4. Loaded'
    BY <2>1, <2>3, AskMachines
  <2>5. asking' \in Account \cup {"no", "refresh", "restore"}
    BY <1>1 DEF NetworkTypeOK
  <2>6. QED
    BY <1>1, <2>1, <2>2, <2>3, <2>4, <2>5, AskStep
<1>2. ASSUME NEW warned \in BOOLEAN, Refresh(warned), warned \/ isDirty # "true" PROVE PanelInv'
  <2> DEFINE r == Requested("machines", selected', FALSE, warned)
  <2>1. requests' = Append(requests, r) /\ selected' = selected /\ selected \in Account
    BY <1>2 DEF Refresh, Ask, NetworkTypeOK
  <2>2. r \in Request /\ r.warned = warned
    BY <2>1, RequestedIsRequest DEF Kind, Requested
  <2>3. UNCHANGED <<machines, blank, current, flow, picked, changes, apply>> /\ asking' = "no"
    BY <1>2 DEF Refresh
  <2>4. Loaded'
    BY <2>1, <2>3, AskMachines
  <2>5. QED
    BY <1>2, <2>1, <2>2, <2>3, <2>4, AskStep
<1>3. ASSUME ConfirmRestore PROVE PanelInv'
  <2> DEFINE r == Requested("workspace", FlowWith(machines, selected), FALSE, TRUE)
  <2>1. requests' = Append(requests, r) /\ asking' = "no"
    BY <1>3 DEF ConfirmRestore, Ask
  <2>2. FlowWith(machines, selected) \in Account \cup {Mixed}
    BY DEF FlowWith, NetworkTypeOK
  <2>3. r \in Request /\ r.warned
    BY <2>2, RequestedIsRequest DEF Kind, Requested
  <2>4. UNCHANGED <<selected, machines, blank, current, flow, picked, changes, apply>>
    BY <1>3 DEF ConfirmRestore
  <2>5. Loaded'
    BY <2>1, <2>4, AskWorkspace
  <2>6. QED
    BY <2>1, <2>3, <2>4, <2>5, AskStep DEF NetworkTypeOK
<1>4. ASSUME UNCHANGED <<selected, flow, picked, changes, apply, loading>>,
             asking' \in Account \cup {"no", "refresh", "restore"}
      PROVE  PanelInv'
  <2>1. NetworkTypeOK' /\ OwnFlow' /\ Warned'
    BY <1>4 DEF NetworkTypeOK, OwnFlow, Warned, changes, loading
  <2>2. Loaded'
    BY <1>4 DEF Loaded, RequestsOK, InOrder, MachinesFollow, WorkspaceFollows, Has, Due, Newest, loading
  <2>3. QED
    BY <2>1, <2>2
<1>5. ASSUME NEW i \in 1 .. MaxRequests, AnswerMachines(i) PROVE PanelInv'
  <2> DEFINE r == Requested("workspace", FlowWith(requests[i].gives, selected), TRUE, requests[i].warned)
  <2>1. /\ UNCHANGED <<selected, flow, picked, isDirty, unsaved, late, asking, apply>> /\ ~blank'
        /\ i \in DOMAIN requests /\ requests' = Append(Others(i), r) /\ Answered(i, TRUE)
    BY <1>5 DEF AnswerMachines, changes
  <2>2. Loaded' /\ machines' \in Account
    BY <1>5, MachinesAnswered
  <2>3. blank' = FALSE
    BY <1>5 DEF AnswerMachines
  <2>4. current' \in [Kind -> BOOLEAN]
    BY <2>1 DEF Answered, NetworkTypeOK
  <2>5. NetworkTypeOK'
    <3>1. \A j \in DOMAIN requests' : requests'[j] \in Request
      BY <2>2 DEF Loaded, RequestsOK
    <3>2. QED
      BY <2>1, <2>2, <2>3, <2>4, <3>1 DEF NetworkTypeOK
  <2>6. OwnFlow'
    BY <2>1 DEF OwnFlow
  <2>7. Warned'
    <3> SUFFICES ASSUME NEW p \in Part, unsaved[p] = "told", NEW j \in DOMAIN requests'
                 PROVE  requests'[j].warned
      BY <2>1 DEF Warned
    <3>1. /\ Others(i) \in Seq(Request) /\ DOMAIN Others(i) = 1 .. Len(requests) - 1
          /\ Len(Others(i)) = Len(requests) - 1 /\ Len(requests) \in Nat \ {0}
          /\ \A k \in DOMAIN Others(i) : \E l \in DOMAIN requests : Others(i)[k].warned = requests[l].warned
      BY <2>1, OthersLeft DEF Loaded, RequestsOK
    <3>2. r.warned = requests[i].warned
      BY DEF Requested
    <3> HIDE DEF r
    <3>3. CASE j \in DOMAIN Others(i)
      <4>1. requests'[j] = Others(i)[j]
        BY <2>1, <3>1, <3>3
      <4>2. QED
        BY <3>1, <3>3, <4>1 DEF Warned
    <3>4. CASE j \notin DOMAIN Others(i)
      <4>1. requests'[j] = r
        BY <2>1, <3>1, <3>4
      <4>2. QED
        BY <2>1, <3>2, <4>1 DEF Warned
    <3>5. QED
      BY <3>3, <3>4
  <2>8. QED
    BY <2>2, <2>5, <2>6, <2>7
<1>6. ASSUME NEW i \in 1 .. MaxRequests, NEW ok \in BOOLEAN, i \in DOMAIN requests, requests' = Others(i),
             NEW p \in Part, unsaved[p] = "told", Warned
      PROVE  \A j \in DOMAIN requests' : requests'[j].warned
  <2>1. requests \in Seq(Request)
    BY DEF Loaded, RequestsOK
  <2>2. \A j \in DOMAIN requests' : \E k \in DOMAIN requests : requests'[j].warned = requests[k].warned
    BY <1>6, <2>1, OthersLeft
  <2>3. QED
    BY <1>6, <2>2 DEF Warned
<1>7. ASSUME NEW i \in 1 .. MaxRequests, MachinesFail(i) PROVE PanelInv'
  <2>1. /\ UNCHANGED <<selected, flow, picked, isDirty, late, apply>> /\ asking' = "no"
        /\ blank' = TRUE /\ machines' = None
        /\ i \in DOMAIN requests /\ requests' = Others(i) /\ Answered(i, FALSE)
        /\ requests[i].kind = "machines"
        /\ unsaved' = IF requests[i].warned THEN Hidden(unsaved) ELSE unsaved
    BY <1>7 DEF MachinesFail
  <2>2. Loaded'
    BY <2>1, OnlyAnswered
  <2>3. current' \in [Kind -> BOOLEAN]
    BY <2>1 DEF Answered, NetworkTypeOK
  <2>4. unsaved' \in [Part -> Kept] /\ \A p \in Part : unsaved'[p] # "told"
    BY <2>1 DEF Hidden, NetworkTypeOK, Kept, Warned
  <2>5. NetworkTypeOK'
    BY <2>1, <2>2, <2>3, <2>4 DEF NetworkTypeOK, Loaded, RequestsOK
  <2>6. OwnFlow' /\ Warned'
    BY <2>1, <2>4 DEF OwnFlow, Warned
  <2>7. QED
    BY <2>2, <2>5, <2>6
<1>8. ASSUME NEW i \in 1 .. MaxRequests, AnswerWorkspace(i) PROVE PanelInv'
  <2>1. /\ UNCHANGED <<selected, machines, blank, asking>> /\ flow' = requests[i].gives /\ picked' = FALSE
        /\ unsaved' = Nothing /\ late' = {} /\ apply' = [apply EXCEPT !.own = FALSE]
        /\ isDirty' \in {"null", isDirty} /\ requests[i].kind = "workspace"
        /\ i \in DOMAIN requests /\ requests' = Others(i) /\ Answered(i, TRUE)
    BY <1>8 DEF AnswerWorkspace
  <2>2. Loaded'
    BY <2>1, OnlyAnswered
  <2>3. current' \in [Kind -> BOOLEAN]
    BY <2>1 DEF Answered, NetworkTypeOK
  <2>4. unsaved' \in [Part -> Kept] /\ \A p \in Part : unsaved'[p] # "told"
    BY <2>1 DEF Nothing, Kept
  <2>5. apply' \in Apply /\ ~apply'.own /\ (apply'.stage = "no" => apply' = Idle)
    <3>1. apply \in Apply /\ (apply.stage = "no" => apply = Idle)
      BY DEF NetworkTypeOK
    <3>2. apply' \in Apply /\ ~apply'.own /\ apply'.stage = apply.stage
      BY <2>1, <3>1 DEF Apply
    <3>3. apply = Idle => apply' = Idle
      <4>1. ASSUME apply = Idle PROVE apply' = Idle
        <5>1. apply' = [[stage |-> "no", to |-> None, data |-> None, own |-> FALSE] EXCEPT !.own = FALSE]
          BY <2>1, <4>1 DEF Idle
        <5>2. QED
          BY <5>1, Zenon DEF Idle
      <4>2. QED
        BY <4>1
    <3>4. QED
      BY <3>1, <3>2, <3>3
  <2>6. flow' \in Flow
    <3>1. requests \in Seq(Request)
      BY DEF Loaded, RequestsOK
    <3>2. requests[i] \in Request
      BY <2>1, <3>1
    <3>3. QED
      BY <2>1, <3>2 DEF Request, Flow
  <2>7. NetworkTypeOK'
    <3>1. \A j \in DOMAIN requests' : requests'[j] \in Request
      BY <2>2 DEF Loaded, RequestsOK
    <3>2. isDirty' \in {"null", "true", "false"}
      BY <2>1 DEF NetworkTypeOK
    <3>3. QED
      BY <2>1, <2>3, <2>4, <2>5, <2>6, <3>1, <3>2 DEF NetworkTypeOK
  <2>8. OwnFlow' /\ Warned'
    BY <2>4, <2>5 DEF OwnFlow, Warned
  <2>9. QED
    BY <2>2, <2>7, <2>8
<1>9. ASSUME NEW i \in 1 .. MaxRequests, WorkspaceFails(i) PROVE PanelInv'
  <2>1. /\ UNCHANGED <<selected, machines, blank, flow, picked, isDirty, unsaved, late, asking, apply>>
        /\ i \in DOMAIN requests /\ requests' = Others(i) /\ Answered(i, FALSE)
        /\ requests[i].kind = "workspace"
    BY <1>9 DEF WorkspaceFails, changes
  <2>2. Loaded'
    BY <2>1, OnlyAnswered
  <2>3. current' \in [Kind -> BOOLEAN]
    BY <2>1 DEF Answered, NetworkTypeOK
  <2>4. NetworkTypeOK'
    BY <2>1, <2>2, <2>3 DEF NetworkTypeOK, Loaded, RequestsOK
  <2>5. OwnFlow'
    BY <2>1 DEF OwnFlow
  <2>6. Warned'
    BY <1>6, <2>1 DEF Warned
  <2>7. QED
    BY <2>2, <2>4, <2>5, <2>6
<1>10. CASE \E a \in Account : SubmitOption(a)
  BY <1>1, <1>4, <1>10 DEF SubmitOption
<1>11. CASE (\E modal \in {"refresh", "restore"} : OpenModal(modal)) \/ CancelModal
  BY <1>4, <1>11 DEF OpenModal, CancelModal
<1>12. CASE ConfirmSwitch
  BY <1>1, <1>12 DEF ConfirmSwitch
<1>13. CASE RefreshClean \/ ConfirmRefresh
  BY <1>2, <1>13 DEF RefreshClean, ConfirmRefresh
<1>14. QED
  BY <1>3, <1>5, <1>7, <1>8, <1>9, <1>10, <1>11, <1>12, <1>13 DEF Load

\* A page that settled shows the flow of the account selected.
LEMMA SettledFlow == PanelInv => SettledFlowIsOfSelected
<1> SUFFICES ASSUME PanelInv, Settled PROVE flow = selected
  BY DEF SettledFlowIsOfSelected
<1>1. DOMAIN requests = {}
  BY DEF Settled
<1>2. Has("machines") /\ Has("workspace")
  BY <1>1 DEF Has, Settled
<1>3. QED
  BY <1>2 DEF PanelInv, Loaded, WorkspaceFollows

LEMMA SaveStep == PanelInv /\ Save => PanelInv'
<1> SUFFICES ASSUME PanelInv, Save PROVE PanelInv'
  OBVIOUS
<1> USE DEF PanelInv
<1>1. UNCHANGED <<selected, flow, picked, asking, machines, blank, requests, current>>
  BY DEF Save, StartApply, PutPositions, PutNetworks, loading
<1>2. Loaded'
  BY <1>1 DEF Loaded, RequestsOK, InOrder, MachinesFollow, WorkspaceFollows, Has, Due, Newest
<1>3. ASSUME NEW p \in Part, unsaved'[p] = "told" PROVE unsaved[p] = "told" /\ isDirty' = isDirty
  BY <1>3 DEF Save, StartApply, PutPositions, PutNetworks, Sent, Hidden, changes, NetworkTypeOK
<1>4. Warned'
  BY <1>1, <1>3 DEF Warned
<1>5. ASSUME isDirty' \in {"null", "true", "false"}, unsaved' \in [Part -> Kept], late' \subseteq Part,
             apply' \in Apply, apply'.stage = "no" => apply' = Idle
      PROVE  NetworkTypeOK'
  BY <1>1, <1>3, <1>5 DEF NetworkTypeOK
<1>6. ASSUME StartApply PROVE NetworkTypeOK' /\ OwnFlow'
  <2>1. apply' = [stage |-> "positions", to |-> selected, data |-> flow, own |-> Settled]
    BY <1>6 DEF StartApply
  <2>2. Settled \in BOOLEAN /\ selected \in Account /\ flow \in Flow
    BY DEF Settled, NetworkTypeOK
  <2>3. apply' \in Apply /\ apply'.stage # "no"
    BY <2>1, <2>2 DEF Apply
  <2>4. OwnFlow'
    BY <1>1, <2>1, SettledFlow DEF OwnFlow, SettledFlowIsOfSelected
  <2>5. QED
    BY <1>5, <1>6, <2>3, <2>4 DEF StartApply, changes, NetworkTypeOK
<1>7. ASSUME NEW ok \in BOOLEAN, PutPositions(ok) PROVE NetworkTypeOK' /\ OwnFlow'
  <2>1. apply' = [apply EXCEPT !.stage = "networks", !.data = flow]
    BY <1>7 DEF PutPositions
  <2>2. flow \in Flow /\ apply \in Apply
    BY DEF NetworkTypeOK
  <2>3. /\ apply' \in Apply /\ apply'.stage # "no"
        /\ apply'.own = apply.own /\ apply'.to = apply.to /\ apply'.data = flow
    BY <2>1, <2>2 DEF Apply
  <2>4. OwnFlow'
    BY <1>1, <2>3 DEF OwnFlow
  <2>5. unsaved' \in [Part -> Kept]
    BY <1>7 DEF PutPositions, Sent, NetworkTypeOK, Kept
  <2>6. QED
    BY <1>5, <1>7, <2>3, <2>4, <2>5 DEF PutPositions, NetworkTypeOK
<1>8. ASSUME NEW ok \in BOOLEAN, PutNetworks(ok) PROVE NetworkTypeOK' /\ OwnFlow'
  <2>1. apply' = Idle /\ isDirty' = "false" /\ late' = {} /\ unsaved' = Hidden(Sent("networks", ok))
    BY <1>8 DEF PutNetworks
  <2>2. Idle \in Apply /\ ~Idle.own
    BY DEF Idle, Apply, Flow
  <2>3. Sent("networks", ok) \in [Part -> Kept]
    BY DEF Sent, NetworkTypeOK, Kept
  <2>4. unsaved' \in [Part -> Kept]
    BY <2>1, <2>3 DEF Hidden, Kept
  <2>5. QED
    BY <1>5, <2>1, <2>2, <2>4 DEF OwnFlow
<1>9. QED
  BY <1>2, <1>4, <1>6, <1>7, <1>8 DEF Save

LEMMA PanelStep == PanelInv /\ [Next]_vars => PanelInv'
<1> SUFFICES ASSUME PanelInv, [Next]_vars PROVE PanelInv'
  OBVIOUS
<1>1. CASE Leave \/ ConfirmLeave
  <2>1. Init'
    BY <1>1 DEF Leave, ConfirmLeave, Reenter, Init
  <2>2. Init' => PanelInv'
    BY PanelInit, PTL
  <2>3. QED
    BY <2>1, <2>2
<1>2. CASE UNCHANGED vars
  <2>1. UNCHANGED <<selected, flow, picked, asking, apply, isDirty, unsaved, late, machines, blank, requests, current>>
    BY <1>2 DEF vars, changes, loading
  <2>2. NetworkTypeOK' /\ OwnFlow' /\ Warned'
    BY <2>1 DEF PanelInv, NetworkTypeOK, OwnFlow, Warned
  <2>3. Loaded'
    BY <2>1 DEF PanelInv, Loaded, RequestsOK, InOrder, MachinesFollow, WorkspaceFollows, Has, Due, Newest
  <2>4. QED
    BY <2>2, <2>3 DEF PanelInv
<1>3. QED
  BY <1>1, <1>2, EditStep, LoadStep, SaveStep DEF Next

LEMMA PanelInvariant == Spec => []PanelInv
  BY PanelInit, PanelStep, PTL DEF Spec

\* The state always has its shape; above all isDirty is true as long as there are changes
\* the page has to warn of.
THEOREM NetworkTypeCorrect == Spec => []NetworkTypeOK
  BY PanelInvariant, PTL DEF PanelInv

\* Whatever was switched, refreshed and answered in which order, a page on which nothing
\* failed and nothing is due shows the account selected.
THEOREM SettledShowsSelected == Spec => []SettledFlowIsOfSelected
  BY PanelInvariant, SettledFlow, PTL

\* A save started on a settled page sends both its requests the flow of its account.
THEOREM SavesGoToTheirAccount == Spec => []SavedToItsAccount
<1>1. PanelInv => SavedToItsAccount
  BY DEF PanelInv, OwnFlow, SavedToItsAccount
<1>2. QED
  BY <1>1, PanelInvariant, PTL

-----------------------------------------------------------------------------
\* A step after which a change to warn of is gone sent it, or came of a warning.
LEMMA LostStep ==
    ASSUME PanelInv, [Next]_vars
    PROVE  LostWarned
<1> SUFFICES ASSUME NEW p \in Part, unsaved[p] = "told", unsaved'[p] = "no" PROVE LostWarned
  BY DEF LostWarned
<1>1. isDirty = "true" /\ ~blank /\ \A i \in DOMAIN requests : requests[i].warned
  BY DEF PanelInv, NetworkTypeOK, Warned
<1>2. ASSUME Edit PROVE FALSE
  <2>1. PICK parts \in SUBSET Part, flagged \in BOOLEAN : Changed(parts, flagged)
    BY <1>2 DEF Edit, MoveNode, SelectNode, ChangeEdges, ConnectNodes, ByForm, LinkByForm,
       CreateIntnetByForm, UnlinkByForm, RemoveIntnet, Part
  <2>2. QED
    BY <2>1 DEF Changed
<1>3. ASSUME NEW i \in 1 .. MaxRequests, AnswerWorkspace(i) PROVE LostWarned
  BY <1>1, <1>3 DEF AnswerWorkspace, LostWarned
<1>4. ASSUME NEW i \in 1 .. MaxRequests, MachinesFail(i) PROVE FALSE
  BY <1>4 DEF MachinesFail, Hidden
<1>5. ASSUME Load PROVE LostWarned
  BY <1>3, <1>4, <1>5 DEF Load, SubmitOption, OpenModal, CancelModal, ConfirmSwitch, ExecuteSwitch,
     RefreshClean, ConfirmRefresh, Refresh, ConfirmRestore, AnswerMachines, WorkspaceFails, changes
<1>6. ASSUME Save PROVE LostWarned
  <2>1. CASE StartApply
    BY <2>1 DEF StartApply, changes
  <2>2. CASE PutPositions(FALSE) \/ PutNetworks(FALSE)
    BY <2>2 DEF PutPositions, PutNetworks, Sent, Hidden
  <2>3. CASE PutPositions(TRUE) \/ PutNetworks(TRUE)
    BY <2>3 DEF LostWarned
  <2>4. QED
    BY <1>6, <2>1, <2>2, <2>3 DEF Save
<1>7. ASSUME Leave PROVE FALSE
  BY <1>1, <1>7 DEF Leave
<1>8. CASE UNCHANGED vars
  BY <1>8 DEF vars, changes
<1>9. QED
  BY <1>2, <1>5, <1>6, <1>7, <1>8 DEF Next, LostWarned

\* No change the page is bound to warn of is lost without its warning.
THEOREM LossesAreWarned == Spec => LostChangesWereWarned
<1>1. PanelInv /\ [Next]_vars => [LostWarned]_vars
  BY LostStep
<1>2. QED
  BY <1>1, PanelInvariant, PTL DEF Spec, LostChangesWereWarned
==============================================================================
