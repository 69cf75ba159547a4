------------------------- MODULE PanelSession_proofs -------------------------
(***************************************************************************)
(* Theorems about PanelSession: its type invariant, that no socket of an   *)
(* account without access outlives the task that closes it, and that no    *)
(* log-out is without a cause.  They hold for any accounts and bounds.     *)
(* And about MachineFeed: its type invariant, and that the deletion of a   *)
(* machine comes after everything that would show it; for any machines.    *)
(***************************************************************************)
EXTENDS PanelSession, MachineFeed, FiniteSetTheorems, SequenceTheorems, TLAPS

\* Grants are numbered in the order they are issued.
OwnersAreNumbered == \E n \in 0 .. MaxGrant : owner \in [1 .. n -> Account]

\* What a new grant makes of the accounts of grants.
LEMMA GrantsGrow ==
    ASSUME OwnersAreNumbered, NEW u \in Account, IssueTo(u)
    PROVE  /\ OwnersAreNumbered'
           /\ access' \in Grant /\ refresh' = access'
           /\ Issued \subseteq Issued'
           /\ \A g \in Issued : owner'[g] = owner[g]
<1>1. PICK n \in 0 .. MaxGrant : owner \in [1 .. n -> Account]
  BY DEF OwnersAreNumbered
<1>2. n \in Nat /\ MaxGrant \in Nat
  BY SessionAssumption
<1>3. Issued = 1 .. n /\ Cardinality(Issued) = n
  BY <1>1, <1>2, FS_Interval, SMT DEF Issued
<1>4. n + 1 \in 1 .. MaxGrant /\ owner' = [i \in 1 .. n + 1 |-> IF i = n + 1 THEN u ELSE owner[i]]
  BY <1>3 DEF IssueTo, Grant
<1>5. owner' \in [1 .. n + 1 -> Account]
  BY <1>1, <1>2, <1>4
<1>6. OwnersAreNumbered'
  BY <1>2, <1>4, <1>5 DEF OwnersAreNumbered
<1>7. access' \in Grant /\ refresh' = access'
  BY <1>3, <1>4 DEF IssueTo, Grant
<1>8. Issued' = 1 .. n + 1
  BY <1>5 DEF Issued
<1>9. QED
  BY <1>2, <1>3, <1>4, <1>6, <1>7, <1>8

\* Every handler is of a grant that was issued.
Registered == \A h \in handlers : h.tok \in Issued

SessionInv == SessionTypeOK /\ Registered /\ DisabledHasNoSocket

USE DEF OwnersAreNumbered

LEMMA SessionInit == Init => SessionInv
<1> SUFFICES ASSUME Init PROVE SessionInv
  OBVIOUS
<1>1. owner = [i \in 1 .. 0 |-> i] /\ Issued = {}
  BY SMT DEF Init, Issued
<1>2. 0 \in 0 .. MaxGrant
  BY SessionAssumption
<1>3. owner \in [1 .. 0 -> Account]
  BY <1>1
<1>4. QED
  BY <1>1, <1>2, <1>3 DEF Init, SessionInv, SessionTypeOK, Registered, DisabledHasNoSocket,
     Token, None, Route, Sock

\* The parts of the invariant that a step preserves when it leaves the grants alone
\* and registers no new handler, takes no account out of the accounts to drop, and
\* disables no account without putting it there.
LEMMA HandlersStay ==
    ASSUME SessionInv, UNCHANGED owner, handlers' \subseteq Handler,
           \A k \in handlers' : \E h \in handlers : h.tok = k.tok,
           disabled' \ disabled \subseteq dropping', dropping \subseteq dropping'
    PROVE  Registered' /\ DisabledHasNoSocket'
  BY DEF SessionInv, Registered, DisabledHasNoSocket, Issued

\* A connection that ends leaves its handler registered.
LEMMA HangsKeepTokens ==
    ASSUME handlers \subseteq Handler
    PROVE  Hangs \subseteq Handler /\ \A k \in Hangs : \E h \in handlers : h.tok = k.tok
  BY DEF Hangs, Handler

\* What is sent to refresh the tokens only is a request.
LEMMA RefreshIsRequest == SessionTypeOK => OnlyRefresh \in Request
  BY SMT DEF SessionTypeOK, OnlyRefresh, Request, Token, None

\* After a close with code 4401 requests and socket are of their types.
LEMMA ClosedTypes ==
    ASSUME SessionTypeOK, Closed4401
    PROVE  sock' \in Sock /\ requests' \subseteq Request
<1>1. OnlyRefresh \in Request
  BY RefreshIsRequest
<1>2. QED
  BY <1>1 DEF SessionTypeOK, Closed4401, Sends, Sock

LEMMA SessionStep == SessionInv /\ [Next]_vars => SessionInv'
<1> SUFFICES ASSUME SessionInv, [Next]_vars PROVE SessionInv'
  OBVIOUS
<1> USE DEF SessionInv, Token, None
<1>1. ASSUME NEW g \in Issued, Expire(g) PROVE SessionInv'
  <2>1. SessionTypeOK'
    BY <1>1 DEF Expire, cookies, SessionTypeOK, Issued
  <2>2. QED
    BY <1>1, <2>1, HandlersStay DEF Expire, cookies, SessionTypeOK
<1>2. ASSUME NEW g \in Issued, RefreshExpires(g) PROVE SessionInv'
  <2>1. SessionTypeOK'
    BY <1>2 DEF RefreshExpires, cookies, SessionTypeOK, Issued
  <2>2. QED
    BY <1>2, <2>1, HandlersStay DEF RefreshExpires, cookies, SessionTypeOK
<1>3. ASSUME Fetch PROVE SessionInv'
  <2>1. [only |-> FALSE, stage |-> "send", tok |-> access, ref |-> refresh] \in Request
    BY SMT DEF SessionTypeOK, Request
  <2>2. SessionTypeOK'
    BY <1>3, <2>1 DEF Fetch, Sends, cookies, server, SessionTypeOK, Issued
  <2>3. QED
    BY <1>3, <2>2, HandlersStay DEF Fetch, cookies, server, SessionTypeOK
<1>4. ASSUME NEW r \in requests, Succeed(r) PROVE SessionInv'
  <2>1. SessionTypeOK'
    BY <1>4 DEF Succeed, cookies, server, SessionTypeOK, Issued, Route
  <2>2. QED
    BY <1>4, <2>1, HandlersStay DEF Succeed, cookies, server, SessionTypeOK
<1>5. ASSUME NEW r \in requests, Unauthorized(r) PROVE SessionInv'
  <2>1. SessionTypeOK'
    BY <1>5 DEF Unauthorized, cookies, server, SessionTypeOK, Issued, Request
  <2>2. QED
    BY <1>5, <2>1, HandlersStay DEF Unauthorized, cookies, server, SessionTypeOK
<1>6. ASSUME NEW r \in requests, Refresh(r) PROVE SessionInv'
  <2>1. r.ref \in Issued /\ owner[r.ref] \in Account /\ IssueTo(owner[r.ref])
    BY <1>6 DEF Refresh, ValidRefresh, Issued, SessionTypeOK
  <2>2. /\ OwnersAreNumbered' /\ access' \in Grant /\ refresh' = access'
        /\ Issued \subseteq Issued' /\ \A g \in Issued : owner'[g] = owner[g]
    BY <2>1, GrantsGrow DEF SessionTypeOK
  <2>3. requests' \subseteq Request
    BY <1>6, <2>2 DEF Refresh, SessionTypeOK, Request
  <2>4. QED
    BY <1>6, <2>2, <2>3 DEF Refresh, IssueTo, SessionTypeOK, Registered, DisabledHasNoSocket
<1>7. ASSUME NEW r \in requests, RefreshRefused(r) PROVE SessionInv'
  <2>1. SessionTypeOK'
    BY <1>7 DEF RefreshRefused, ClearTokens, server, SessionTypeOK, Issued, Route
  <2>2. QED
    BY <1>7, <2>1, HandlersStay DEF RefreshRefused, server, SessionTypeOK
<1>8. ASSUME NEW r \in requests, ResendRefused(r) \/ Lose(r) PROVE SessionInv'
  <2>1. SessionTypeOK'
    BY <1>8 DEF ResendRefused, Lose, Fails, cookies, server, SessionTypeOK, Issued, Route
  <2>2. QED
    BY <1>8, <2>1, HandlersStay DEF ResendRefused, Lose, cookies, server, SessionTypeOK
<1>9. ASSUME NEW u \in Account, Login(u) PROVE SessionInv'
  <2>1. /\ OwnersAreNumbered' /\ access' \in Grant /\ refresh' = access'
        /\ Issued \subseteq Issued' /\ \A g \in Issued : owner'[g] = owner[g]
    BY <1>9, GrantsGrow DEF Login, SessionTypeOK
  <2>2. QED
    BY <1>9, <2>1 DEF Login, IssueTo, SessionTypeOK, Registered, DisabledHasNoSocket, Route
<1>10. ASSUME NEW u \in Account, Disable(u) PROVE SessionInv'
  <2>1. SessionTypeOK'
    BY <1>10 DEF Disable, cookies, SessionTypeOK, Issued
  <2>2. QED
    BY <1>10, <2>1, HandlersStay DEF Disable, cookies, SessionTypeOK
<1>11. ASSUME NEW u \in Account, Enable(u) PROVE SessionInv'
  <2>1. SessionTypeOK'
    BY <1>11 DEF Enable, cookies, SessionTypeOK, Issued
  <2>2. QED
    BY <1>11, <2>1, HandlersStay DEF Enable, cookies, SessionTypeOK
<1>12. ASSUME NEW u \in Account, DisconnectUser(u) PROVE SessionInv'
  <2>1. SessionTypeOK'
    BY <1>12 DEF DisconnectUser, cookies, SessionTypeOK, Issued, Sock
  <2>2. \A h \in handlers' : h \in handlers /\ owner[h.tok] # u
    BY <1>12 DEF DisconnectUser
  <2>3. QED
    BY <1>12, <2>1, <2>2 DEF DisconnectUser, Registered, DisabledHasNoSocket, Issued
<1>13. ASSUME SubmitWrong PROVE SessionInv'
  <2>1. SessionTypeOK'
    BY <1>13, RefreshIsRequest DEF SubmitWrong, Sends, cookies, server, SessionTypeOK, Issued
  <2>2. QED
    BY <1>13, <2>1, HandlersStay DEF SubmitWrong, cookies, server, SessionTypeOK
<1>14. ASSUME Logout PROVE SessionInv'
  <2>1. SessionTypeOK'
    BY <1>14 DEF Logout, ClearTokens, server, SessionTypeOK, Issued, Route
  <2>2. QED
    BY <1>14, <2>1, HandlersStay DEF Logout, server, SessionTypeOK
<1>15. ASSUME Connect PROVE SessionInv'
  <2>1. SessionTypeOK'
    BY <1>15 DEF Connect, cookies, server, SessionTypeOK, Issued, Sock
  <2>2. QED
    BY <1>15, <2>1, HandlersStay DEF Connect, cookies, server, SessionTypeOK
<1>16. ASSUME Leave \/ UrlChanges PROVE SessionInv'
  <2>1. handlers' = Hangs /\ UNCHANGED <<cookies, server, requests, route>> /\ sock' \in Sock
    BY <1>16 DEF Leave, UrlChanges, Sock, SessionTypeOK
  <2>2. handlers' \subseteq Handler /\ \A k \in handlers' : \E h \in handlers : h.tok = k.tok
    BY <2>1, HangsKeepTokens DEF SessionTypeOK
  <2>3. SessionTypeOK'
    BY <2>1, <2>2 DEF cookies, server, SessionTypeOK, Issued
  <2>4. QED
    BY <2>1, <2>2, <2>3, HandlersStay DEF server
<1>17. ASSUME Accept PROVE SessionInv'
  <2>1. UNCHANGED <<cookies, route, server>>
    BY <1>17 DEF Accept
  <2>2. CASE Valid(sock.tok)
    <3>1. sock.tok \in Issued /\ sock.tok \in Grant /\ owner[sock.tok] \notin disabled
      BY <2>2, SessionAssumption DEF Valid, SessionTypeOK, Issued, Grant
    <3>2. /\ handlers' = handlers \cup {[tok |-> sock.tok, live |-> TRUE]}
          /\ sock' = [sock EXCEPT !.at = "open"] /\ UNCHANGED requests
      BY <1>17, <2>2 DEF Accept
    <3>3. handlers' \subseteq Handler /\ sock' \in Sock
      <4>1. [tok |-> sock.tok, live |-> TRUE] \in Handler
        BY <3>1 DEF Handler
      <4>2. sock' \in Sock
        BY <3>2 DEF SessionTypeOK, Sock
      <4>3. QED
        BY <3>2, <4>1, <4>2 DEF SessionTypeOK
    <3>4. SessionTypeOK'
      BY <2>1, <3>2, <3>3 DEF cookies, server, SessionTypeOK, Issued
    <3>5. QED
      BY <2>1, <3>1, <3>2, <3>4 DEF server, Registered, DisabledHasNoSocket, Issued
  <2>3. CASE ~Valid(sock.tok)
    <3>1. Closed4401 /\ UNCHANGED handlers
      BY <1>17, <2>3 DEF Accept
    <3>2. SessionTypeOK'
      BY <2>1, <3>1, ClosedTypes DEF cookies, server, SessionTypeOK, Issued
    <3>3. QED
      BY <2>1, <3>1, <3>2, HandlersStay DEF server, SessionTypeOK
  <2>4. QED
    BY <2>2, <2>3
<1>18. ASSUME NEW h \in handlers, CloseAtExpiry(h) PROVE SessionInv'
  <2>1. UNCHANGED <<cookies, route, server>> /\ handlers' = handlers \ {h}
    BY <1>18 DEF CloseAtExpiry
  <2>2. sock' \in Sock /\ requests' \subseteq Request
    BY <1>18, ClosedTypes DEF CloseAtExpiry, SessionTypeOK
  <2>3. SessionTypeOK'
    BY <2>1, <2>2 DEF cookies, server, SessionTypeOK, Issued
  <2>4. QED
    BY <2>1, <2>3, HandlersStay DEF server, SessionTypeOK
<1>19. ASSUME Restart PROVE SessionInv'
  <2>1. SessionTypeOK'
    BY <1>19 DEF Restart, cookies, SessionTypeOK, Issued, Sock
  <2>2. QED
    BY <1>19, <2>1 DEF Restart, Registered, DisabledHasNoSocket
<1>20. CASE UNCHANGED vars
  BY <1>20 DEF vars, cookies, server, SessionTypeOK, Registered, DisabledHasNoSocket, Issued
<1>21. QED
  BY <1>1, <1>2, <1>3, <1>4, <1>5, <1>6, <1>7, <1>8, <1>9, <1>10, <1>11, <1>12, <1>13,
     <1>14, <1>15, <1>16, <1>17, <1>18, <1>19, <1>20 DEF Next

LEMMA SessionInvariant == Spec => []SessionInv
  BY SessionInit, SessionStep, PTL DEF Spec

\* The state always has its shape: grants are numbered as they are issued, a refresh
\* token outlives its access token.
THEOREM SessionTypeCorrect == Spec => []SessionTypeOK
  BY SessionInvariant, PTL DEF SessionInv

\* A handler of an account without access is registered only while the task that
\* closes it is due, for any number of accounts and grants.
THEOREM DisabledAreDisconnected == Spec => []DisabledHasNoSocket
  BY SessionInvariant, PTL DEF SessionInv

-----------------------------------------------------------------------------
\* A step that takes the tokens away is the button, or a refresh that was refused for
\* a token that had expired, or whose account was disabled; a grant never is no token.
LEMMA LogoutStep ==
    ASSUME SessionInv, [Next]_vars
    PROVE  LogoutCaused
<1> SUFFICES ASSUME access # None, access' = None PROVE LogoutCaused
  BY DEF LogoutCaused
<1>1. ASSUME NEW u \in Account, IssueTo(u) PROVE FALSE
  BY <1>1, GrantsGrow, SessionAssumption DEF SessionInv, SessionTypeOK, None, Grant
<1>2. ASSUME NEW r \in requests, Refresh(r) PROVE FALSE
  <2>1. owner[r.ref] \in Account /\ IssueTo(owner[r.ref])
    BY <1>2 DEF Refresh, ValidRefresh, Issued, SessionInv, SessionTypeOK
  <2>2. QED
    BY <1>1, <2>1
<1>3. ASSUME NEW u \in Account, Login(u) PROVE FALSE
  BY <1>1, <1>3 DEF Login
<1>4. ASSUME NEW r \in requests, RefreshRefused(r)
      PROVE  /\ r \notin requests'
             /\ r.ref \in Issued => r.ref \in ended \/ owner[r.ref] \in disabled
  BY <1>4 DEF RefreshRefused, ValidRefresh
<1>5. Logout \/ \E r \in requests : RefreshRefused(r)
  BY <1>2, <1>3 DEF Next, vars, cookies, Expire, RefreshExpires, Fetch, Succeed, Unauthorized,
     ResendRefused, Lose, Disable, Enable, DisconnectUser, SubmitWrong, Connect, Leave,
     UrlChanges, Accept, CloseAtExpiry, Restart
<1>6. QED
  BY <1>4, <1>5 DEF LogoutCaused

\* Nobody is logged out without pressing the button or having sent a refresh token
\* that the API must refuse, however many refreshes overtake each other.
THEOREM LogoutsHaveCauses == Spec => LogoutHasCause
<1>1. SessionInv /\ [Next]_vars => [LogoutCaused]_vars
  BY LogoutStep
<1>2. QED
  BY <1>1, SessionInvariant, PTL DEF Spec, LogoutHasCause

-----------------------------------------------------------------------------
(* The feed of machines.  What the page is owed is in the messages to come,  *)
(* whether sent or still tasks.  A step puts some in that add no machine     *)
(* that is gone, or takes one from the front, or loses them all.             *)

\* A broadcast has nothing that adds a machine to those shown, or removes one.
PayloadFits == \A i \in DOMAIN payload : payload[i].type \in {"DATA_DYNAMIC", "DATA_EXTRA"}

\* Nothing is under way without a connection.
NothingWithout == ~conn => tasks = << >> /\ wire = << >>

FeedInv == FeedTypeOK /\ PayloadFits /\ NothingWithout /\ DeletionComesLast

\* What DeletionComesLast says of one machine, for any messages and any machines shown.
Covered(c, known, m) ==
    /\ m \in known => \E k \in DOMAIN c : Deletes(c[k], m)
    /\ \A j \in DOMAIN c : Adds(c[j], m) => \E k \in DOMAIN c : k > j /\ Deletes(c[k], m)

\* Messages put between others, none of which adds the machine, leave it covered.
LEMMA CoveredInserted ==
    ASSUME NEW w \in Seq(Message), NEW x \in Seq(Message), NEW t \in Seq(Message), NEW known, NEW m,
           Covered(w \o t, known, m), \A i \in DOMAIN x : ~Adds(x[i], m)
    PROVE  Covered((w \o x) \o t, known, m)
<1> DEFINE c == w \o t  d == (w \o x) \o t  at(k) == IF k =< Len(w) THEN k ELSE k + Len(x)
<1>1. /\ c \in Seq(Message) /\ d \in Seq(Message)
      /\ Len(c) = Len(w) + Len(t) /\ Len(d) = Len(w) + Len(x) + Len(t)
      /\ Len(w) \in Nat /\ Len(x) \in Nat /\ Len(t) \in Nat
      /\ DOMAIN c = 1 .. Len(w) + Len(t) /\ DOMAIN d = 1 .. Len(w) + Len(x) + Len(t)
  OBVIOUS
<1>2. \A k \in DOMAIN c : at(k) \in DOMAIN d /\ d[at(k)] = c[k]
  <2> SUFFICES ASSUME NEW k \in DOMAIN c PROVE at(k) \in DOMAIN d /\ d[at(k)] = c[k]
    OBVIOUS
  <2>1. CASE k =< Len(w)
    BY <1>1, <2>1
  <2>2. CASE k > Len(w)
    BY <1>1, <2>2
  <2>3. QED
    BY <1>1, <2>1, <2>2
<1>3. \A j \in DOMAIN d : Adds(d[j], m) => \E i \in DOMAIN c : j = at(i)
  <2> SUFFICES ASSUME NEW j \in DOMAIN d, Adds(d[j], m) PROVE \E i \in DOMAIN c : j = at(i)
    OBVIOUS
  <2>1. CASE j =< Len(w)
    BY <1>1, <2>1
  <2>2. CASE j > Len(w) /\ j =< Len(w) + Len(x)
    <3>1. d[j] = x[j - Len(w)] /\ j - Len(w) \in DOMAIN x
      BY <1>1, <2>2
    <3>2. QED
      BY <3>1
  <2>3. CASE j > Len(w) + Len(x)
    <3>1. j - Len(x) \in DOMAIN c /\ at(j - Len(x)) = j
      BY <1>1, <2>3
    <3>2. QED
      BY <3>1
  <2>4. QED
    BY <1>1, <2>1, <2>2, <2>3
<1>4. \A i, k \in DOMAIN c : k > i => at(k) > at(i)
  BY <1>1
<1> HIDE DEF c, d, at
<1>5. m \in known => \E k \in DOMAIN d : Deletes(d[k], m)
  <2> SUFFICES ASSUME m \in known PROVE \E k \in DOMAIN d : Deletes(d[k], m)
    OBVIOUS
  <2>1. PICK k \in DOMAIN c : Deletes(c[k], m)
    BY DEF Covered, c
  <2>2. QED
    BY <1>2, <2>1
<1>6. \A j \in DOMAIN d : Adds(d[j], m) => \E k \in DOMAIN d : k > j /\ Deletes(d[k], m)
  <2> SUFFICES ASSUME NEW j \in DOMAIN d, Adds(d[j], m) PROVE \E k \in DOMAIN d : k > j /\ Deletes(d[k], m)
    OBVIOUS
  <2>1. PICK i \in DOMAIN c : j = at(i)
    BY <1>3
  <2>2. Adds(c[i], m)
    BY <1>2, <2>1
  <2>3. PICK k \in DOMAIN c : k > i /\ Deletes(c[k], m)
    BY <2>2 DEF Covered, c
  <2>4. QED
    BY <1>2, <1>4, <2>1, <2>3
<1>7. QED
  BY <1>5, <1>6 DEF Covered, d

\* And so when they are put at the end.
LEMMA CoveredAppended ==
    ASSUME NEW c \in Seq(Message), NEW x \in Seq(Message), NEW known, NEW m,
           Covered(c, known, m), \A i \in DOMAIN x : ~Adds(x[i], m)
    PROVE  Covered(c \o x, known, m)
<1>1. << >> \in Seq(Message) /\ c \o << >> = c /\ (c \o x) \o << >> = c \o x
  OBVIOUS
<1>2. Covered(c \o << >>, known, m)
  BY <1>1
<1>3. Covered((c \o x) \o << >>, known, m)
  BY <1>1, <1>2, CoveredInserted
<1>4. QED
  BY <1>1, <1>3

\* The announcement of its deletion covers a machine.
LEMMA CoveredByDeletion ==
    ASSUME NEW c \in Seq(Message), NEW known, NEW m \in Machine
    PROVE  Covered(c \o <<Event("DELETE", m)>>, known, m)
<1> DEFINE d == c \o <<Event("DELETE", m)>>  n == Len(c) + 1
<1>1. Event("DELETE", m).type = "DELETE" /\ Event("DELETE", m).of = {m}
  BY DEF Event
<1>2. Deletes(Event("DELETE", m), m) /\ ~Adds(Event("DELETE", m), m)
  BY <1>1 DEF Deletes, Adds
<1>3. Len(c) \in Nat /\ DOMAIN d = 1 .. n /\ d[n] = Event("DELETE", m)
  OBVIOUS
<1> HIDE DEF d
<1>4. \A j \in DOMAIN d : Adds(d[j], m) => n > j
  BY <1>2, <1>3
<1>5. QED
  BY <1>2, <1>3, <1>4 DEF Covered, d

\* The page takes the first message: what it adds is still covered by what comes after.
LEMMA CoveredReceived ==
    ASSUME NEW h \in Message, NEW c \in Seq(Message), NEW d \in Seq(Message), d = <<h>> \o c,
           NEW known, NEW now, NEW m, Covered(d, known, m),
           m \in now => (m \in known /\ ~Deletes(h, m)) \/ Adds(h, m)
    PROVE  Covered(c, now, m)
<1>1. /\ Len(c) \in Nat /\ DOMAIN c = 1 .. Len(c) /\ DOMAIN d = 1 .. Len(c) + 1 /\ d[1] = h
      /\ \A i \in 1 .. Len(c) : d[i + 1] = c[i]
  OBVIOUS
<1>2. \A k \in DOMAIN d : k > 1 => k - 1 \in DOMAIN c /\ c[k - 1] = d[k]
  <2> SUFFICES ASSUME NEW k \in DOMAIN d, k > 1 PROVE k - 1 \in DOMAIN c /\ c[k - 1] = d[k]
    OBVIOUS
  <2>1. k - 1 \in 1 .. Len(c) /\ (k - 1) + 1 = k
    BY <1>1
  <2>2. QED
    BY <1>1, <2>1
<1>3. ASSUME m \in now PROVE \E k \in DOMAIN c : Deletes(c[k], m)
  <2>1. PICK k \in DOMAIN d : Deletes(d[k], m) /\ k > 1
    <3>1. CASE m \in known /\ ~Deletes(h, m)
      BY <1>1, <3>1 DEF Covered
    <3>2. CASE Adds(h, m)
      BY <1>1, <3>2 DEF Covered
    <3>3. QED
      BY <1>3, <3>1, <3>2
  <2>2. QED
    BY <1>2, <2>1
<1>4. ASSUME NEW j \in DOMAIN c, Adds(c[j], m) PROVE \E k \in DOMAIN c : k > j /\ Deletes(c[k], m)
  <2>1. j + 1 \in DOMAIN d /\ Adds(d[j + 1], m)
    BY <1>1, <1>4
  <2>2. PICK k \in DOMAIN d : k > j + 1 /\ Deletes(d[k], m)
    BY <2>1 DEF Covered
  <2>3. k > 1 /\ k - 1 > j
    BY <1>1, <2>2
  <2>4. QED
    BY <1>2, <2>2, <2>3
<1>5. QED
  BY <1>3, <1>4 DEF Covered

\* The machines whose deletion the page is owed.
Owed == Ended \ untold

\* DeletionComesLast in these words.
LEMMA ComesLastIs ==
    /\ Owed \subseteq Machine
    /\ DeletionComesLast <=> \A m \in Owed : Covered(Coming, DOMAIN machines, m)
  BY DEF DeletionComesLast, Covered, Owed, Ended

\* The keys of STATE_MAP, and that those of starts and stops are among them.
LEMMA StateEvents ==
    DOMAIN STATE_MAP = {"BOOTUP_START", "BOOTUP_SUCCESS", "BOOTUP_FAIL",
                        "SHUTDOWN_START", "SHUTDOWN_SUCCESS", "SHUTDOWN_FAIL"}
  BY DEF STATE_MAP

LEMMA TaskEvents ==
    ASSUME NEW kind \in {"start", "stop"}
    PROVE  /\ TASK_EVENT[kind].START \in DOMAIN STATE_MAP
           /\ TASK_EVENT[kind].SUCCESS \in DOMAIN STATE_MAP
           /\ TASK_EVENT[kind].FAIL \in DOMAIN STATE_MAP
  BY StateEvents DEF TASK_EVENT

\* Events and payloads are messages.
LEMMA EventsAre ==
    ASSUME NEW type \in DOMAIN STATE_MAP \cup {"CREATE", "DELETE"}, NEW m \in Machine
    PROVE  Event(type, m) \in Message /\ Event(type, m).type = type /\ Event(type, m).of = {m}
  BY DEF Event, Message

LEMMA PayloadsAre ==
    ASSUME NEW type \in {"DATA_STATIC", "DATA_DYNAMIC", "DATA_EXTRA"}, NEW ms \in SUBSET Machine
    PROVE  Payload(type, ms) \in Message /\ Payload(type, ms).type = type /\ Payload(type, ms).of = ms
  BY DEF Payload, Message

\* An event of a start or a stop adds no machine.
LEMMA TaskEventsAdd ==
    ASSUME NEW type \in DOMAIN STATE_MAP, NEW m \in Machine, NEW k
    PROVE  ~Adds(Event(type, m), k) /\ Event(type, m) \in Message
  BY StateEvents, EventsAre DEF Adds

\* A step that only announces: nothing it announces adds a machine whose end is owed.
LEMMA AnnouncedInv ==
    ASSUME FeedInv, NEW es \in Seq(Message), Announce(es),
           \A i \in DOMAIN es, m \in Owed' : ~Adds(es[i], m), Owed' \subseteq Owed,
           UNCHANGED <<payload, wire, conn, page>>
    PROVE  /\ tasks' \in Seq(Message) /\ PayloadFits' /\ NothingWithout' /\ DeletionComesLast'
<1> USE DEF FeedInv, FeedTypeOK
<1>1. conn \in BOOLEAN /\ tasks \in Seq(Message) /\ wire \in Seq(Message) /\ tasks \o es \in Seq(Message)
  OBVIOUS
<1>2. tasks' \in Seq(Message)
  BY <1>1 DEF Announce
<1>3. PayloadFits' /\ NothingWithout'
  BY DEF PayloadFits, NothingWithout, Announce
<1>4. ASSUME NEW m \in Owed'
      PROVE  Covered(Coming', DOMAIN machines', m)
  <2>1. Covered(Coming, DOMAIN machines, m) /\ Coming \in Seq(Message)
    BY <1>1, <1>4, ComesLastIs DEF Coming
  <2>2. machines' = machines
    BY DEF page
  <2>3. CASE conn
    <3>1. Coming' = Coming \o es
      BY <1>1, <2>3 DEF Announce, Coming
    <3>2. QED
      BY <1>4, <2>1, <2>2, <3>1, CoveredAppended
  <2>4. CASE ~conn
    BY <2>1, <2>2, <2>4 DEF Announce, Coming
  <2>5. QED
    BY <2>3, <2>4
<1>5. DeletionComesLast'
  BY <1>4 DEF DeletionComesLast, Covered, Owed
<1>6. QED
  BY <1>2, <1>3, <1>5

\* A step that leaves the channel and the page alone, and owes no new deletion.
LEMMA ChannelStays ==
    ASSUME FeedInv, UNCHANGED <<tasks, wire, conn, machines>>,
           Owed' \subseteq Owed
    PROVE  NothingWithout' /\ DeletionComesLast'
<1>1. NothingWithout'
  BY DEF FeedInv, NothingWithout
<1>2. Coming' = Coming
  BY DEF Coming
<1>3. QED
  BY <1>1, <1>2 DEF FeedInv, DeletionComesLast, Owed

\* With the connection goes what was under way; the deletions in it are untold.
LEMMA DisconnectInv ==
    ASSUME FeedInv, Disconnect
    PROVE  FeedInv'
<1> USE DEF FeedInv, FeedTypeOK, Disconnect, api, page
<1>1. tasks \in Seq(Message) /\ wire \in Seq(Message) /\ << >> \in Seq(Message)
  OBVIOUS
<1>2. PayloadFits' /\ NothingWithout'
  BY DEF PayloadFits, NothingWithout, Disconnected
<1>3. ASSUME NEW s \in Seq(Message) PROVE Deletions(s) \subseteq Machine
  <2>1. ASSUME NEW i \in DOMAIN s PROVE s[i].of \subseteq Machine
    <3>1. s[i] \in Message
      OBVIOUS
    <3>2. QED
      BY <3>1 DEF Message
  <2>2. QED
    BY <2>1 DEF Deletions
<1>4. ASSUME NEW m \in Owed'
      PROVE  Covered(Coming', DOMAIN machines', m)
  <2>1. Covered(Coming, DOMAIN machines, m) /\ m \notin Deletions(tasks) /\ m \notin Deletions(wire)
    BY <1>4, ComesLastIs DEF Owed, Ended
  <2>2. \A k \in DOMAIN Coming : ~Deletes(Coming[k], m)
    <3> SUFFICES ASSUME NEW k \in DOMAIN Coming, Deletes(Coming[k], m) PROVE FALSE
      OBVIOUS
    <3>1. CASE k =< Len(wire)
      <4>1. k \in 1 .. Len(wire) /\ Coming[k] = wire[k]
        BY <1>1, <3>1 DEF Coming
      <4>2. m \in Deletions(wire)
        BY <4>1 DEF Deletions, Deletes
      <4>3. QED
        BY <2>1, <4>2
    <3>2. CASE k > Len(wire)
      <4>1. k - Len(wire) \in 1 .. Len(tasks) /\ Coming[k] = tasks[k - Len(wire)]
        BY <1>1, <3>2 DEF Coming
      <4>2. m \in Deletions(tasks)
        BY <4>1 DEF Deletions, Deletes
      <4>3. QED
        BY <2>1, <4>2
    <3>3. QED
      BY <1>1, <3>1, <3>2 DEF Coming
  <2>3. m \notin DOMAIN machines'
    BY <2>1, <2>2 DEF Covered
  <2>4. DOMAIN Coming' = {}
    BY DEF Coming, Disconnected
  <2>5. QED
    BY <2>3, <2>4 DEF Covered
<1>5. DeletionComesLast'
  BY <1>4 DEF DeletionComesLast, Covered, Owed
<1>6. QED
  BY <1>1, <1>2, <1>3, <1>5 DEF Disconnected

\* A page that is left owes nothing, for it shows nothing and nothing comes.
LEMMA UnmountInv ==
    ASSUME FeedInv, NEW next \in {"nothing", "error"}, Disconnected, Unmounted(next), UNCHANGED api
    PROVE  FeedInv'
<1>1. /\ UNCHANGED <<life, on, busy, payload>> /\ conn' = FALSE /\ tasks' = << >> /\ wire' = << >>
      /\ machines' = << >> /\ shows' = next /\ untold' = {}
  BY DEF Disconnected, Unmounted, api
<1>2. << >> \in Seq(Message) /\ DOMAIN << >> = {} /\ << >> \o << >> = << >>
  OBVIOUS
<1>3. FeedTypeOK'
  BY <1>1, <1>2 DEF FeedInv, FeedTypeOK
<1>4. PayloadFits' /\ NothingWithout'
  BY <1>1 DEF FeedInv, PayloadFits, NothingWithout
<1>5. DeletionComesLast'
  BY <1>1, <1>2 DEF DeletionComesLast, Coming
<1>6. QED
  BY <1>3, <1>4, <1>5 DEF FeedInv

\* What a message makes of the machines shown.
LEMMA MessageShown ==
    ASSUME FeedInv, NEW msg \in Message
    PROVE  /\ DOMAIN OnNewMessage(msg) = Keys(msg) /\ Keys(msg) \subseteq Machine
           /\ \A m \in Keys(msg) : OnNewMessage(msg)[m] \in Shown
           /\ \A m \in Keys(msg) : (m \in DOMAIN machines /\ ~Deletes(msg, m)) \/ Adds(msg, m)
<1> USE DEF FeedInv, FeedTypeOK
<1>1. DOMAIN OnNewMessage(msg) = Keys(msg)
  BY DEF OnNewMessage
<1>2. Keys(msg) \subseteq Machine
  BY DEF Keys, Message
<1>3. \A type \in DOMAIN STATE_MAP : STATE_MAP[type] \in Shown
  BY StateEvents DEF STATE_MAP, Shown, Settled
<1>4. ASSUME NEW m \in Keys(msg) PROVE OnNewMessage(msg)[m] \in Shown
  <2>1. m \in DOMAIN machines => machines[m] \in Shown
    OBVIOUS
  <2>2. "FETCHING" \in Shown /\ "ACTIVE" \in Shown /\ "OFFLINE" \in Shown /\ "ERROR" \in Shown
    BY DEF Shown, Settled
  <2>3. m \notin DOMAIN machines => msg.type \in {"CREATE", "DATA_STATIC"}
    BY DEF Keys
  <2>4. CASE m \notin DOMAIN machines
    <3>1. OnNewMessage(msg)[m] = "FETCHING"
      BY <2>3, <2>4, StateEvents DEF OnNewMessage
    <3>2. QED
      BY <2>2, <3>1
  <2>5. CASE m \in DOMAIN machines /\ msg.type = "DATA_DYNAMIC"
    <3>1. OnNewMessage(msg)[m] =
             IF m \in msg.of THEN IF m \in msg.active THEN "ACTIVE"
                                  ELSE IF machines[m] = "ERROR" THEN "ERROR" ELSE "OFFLINE"
             ELSE "FETCHING"
      BY <2>5, StateEvents DEF OnNewMessage, Updated
    <3>2. QED
      BY <2>2, <3>1
  <2>6. CASE m \in DOMAIN machines /\ msg.type # "DATA_DYNAMIC"
    <3>1. OnNewMessage(msg)[m] \in {"FETCHING", STATE_MAP[msg.type], machines[m]}
             /\ (msg.type \in DOMAIN STATE_MAP \/ OnNewMessage(msg)[m] \in {"FETCHING", machines[m]})
      BY <2>6 DEF OnNewMessage
    <3>2. QED
      BY <1>3, <2>1, <2>2, <2>6, <3>1
  <2>7. QED
    BY <2>4, <2>5, <2>6
<1>5. \A m \in Keys(msg) : (m \in DOMAIN machines /\ ~Deletes(msg, m)) \/ Adds(msg, m)
  BY DEF Keys, Deletes, Adds
<1>6. QED
  BY <1>1, <1>2, <1>4, <1>5

\* Nothing is shown, nothing is under way and nothing is gone.
LEMMA FeedStarts == FeedInit => FeedInv
<1> SUFFICES ASSUME FeedInit PROVE FeedInv
  OBVIOUS
<1>1. DOMAIN machines = {}
  BY DEF FeedInit
<1>2. FeedTypeOK
  <2>1. << >> \in Seq(Message) /\ Len(<< >>) = 0
    OBVIOUS
  <2>2. life \in [Machine -> Life] /\ busy \in [Machine -> {"none", "start", "stop"}]
    BY DEF FeedInit, Life
  <2>3. tasks \in Seq(Message) /\ payload \in Seq(Message) /\ wire \in Seq(Message) /\ Len(payload) =< 1
    BY <2>1 DEF FeedInit
  <2>4. shows = "nothing" /\ conn = FALSE /\ on = {} /\ untold = {}
    BY DEF FeedInit
  <2>5. QED
    BY <1>1, <2>2, <2>3, <2>4 DEF FeedTypeOK
<1>3. PayloadFits /\ NothingWithout
  BY DEF FeedInit, PayloadFits, NothingWithout
<1>4. DeletionComesLast
  BY DEF FeedInit, DeletionComesLast, Ended
<1>5. QED
  BY <1>2, <1>3, <1>4 DEF FeedInv

\* One event.
LEMMA Single ==
    ASSUME NEW e \in Message
    PROVE  <<e>> \in Seq(Message) /\ \A i \in DOMAIN <<e>> : <<e>>[i] = e
  OBVIOUS

\* A start or a stop, by whatever button.
LEMMA AcceptInv ==
    ASSUME FeedInv, NEW kind \in {"start", "stop"}, NEW m \in Machine, AcceptTask(kind, m)
    PROVE  FeedInv'
<1> USE DEF FeedInv
<1> DEFINE e == Event(TASK_EVENT[kind].START, m)  f == Event(TASK_EVENT[kind].FAIL, m)
<1>1. e \in Message /\ f \in Message /\ \A k : ~Adds(e, k) /\ ~Adds(f, k)
  BY TaskEvents, TaskEventsAdd
<1>2. PICK es \in {<<e>>, <<e, f>>} : Announce(es)
  BY DEF AcceptTask
<1>3. UNCHANGED <<life, on, payload, wire, conn, untold, page>>
  BY DEF AcceptTask
<1>4. busy' \in [Machine -> {"none", "start", "stop"}]
  BY DEF AcceptTask, FeedTypeOK
<1> HIDE DEF e, f
<1>5. es \in Seq(Message) /\ \A i \in DOMAIN es : es[i] \in {e, f}
  BY <1>1, <1>2
<1>6. Owed' \subseteq Owed
  BY <1>3 DEF Owed, Ended
<1>7. tasks' \in Seq(Message) /\ PayloadFits' /\ NothingWithout' /\ DeletionComesLast'
  BY <1>1, <1>2, <1>3, <1>5, <1>6, AnnouncedInv
<1>8. FeedTypeOK'
  BY <1>3, <1>4, <1>7 DEF FeedTypeOK, page
<1>9. QED
  BY <1>7, <1>8

\* SendEvent changes who holds a
\* message and not what comes.
LEMMA SendInv == FeedInv /\ SendEvent => FeedInv'
<1> SUFFICES ASSUME FeedInv, SendEvent PROVE FeedInv'
  OBVIOUS
<1> USE DEF FeedInv
<1>1. tasks \in Seq(Message) /\ wire \in Seq(Message) /\ tasks # << >>
  BY DEF FeedTypeOK, SendEvent
<1>2. /\ Head(tasks) \in Message /\ Tail(tasks) \in Seq(Message)
      /\ Append(wire, Head(tasks)) \in Seq(Message)
      /\ Append(wire, Head(tasks)) \o Tail(tasks) = wire \o tasks
  BY <1>1
<1>3. UNCHANGED <<life, on, busy, payload, conn, untold, machines, shows>>
  BY DEF SendEvent, api, page
<1>4. FeedTypeOK'
  BY <1>2, <1>3 DEF FeedTypeOK, SendEvent
<1>5. PayloadFits' /\ NothingWithout'
  BY <1>1, <1>3 DEF PayloadFits, NothingWithout, SendEvent
<1>6. Coming' = Coming
  BY <1>2 DEF Coming, SendEvent
<1>7. DeletionComesLast'
  BY <1>3, <1>6 DEF DeletionComesLast, Ended
<1>8. QED
  BY <1>4, <1>5, <1>7

\* A broadcast goes in front of the tasks, and adds no machine.
LEMMA BroadcastInv == FeedInv /\ Broadcast => FeedInv'
<1> SUFFICES ASSUME FeedInv, Broadcast PROVE FeedInv'
  OBVIOUS
<1> USE DEF FeedInv
<1>1. tasks \in Seq(Message) /\ wire \in Seq(Message) /\ payload \in Seq(Message)
  BY DEF FeedTypeOK
<1>2. << >> \in Seq(Message) /\ Len(<< >>) = 0 /\ DOMAIN << >> = {}
  OBVIOUS
<1>3. UNCHANGED <<life, on, busy, tasks, conn, untold, machines, shows>> /\ payload' = << >>
  BY DEF Broadcast, page
<1>4. wire' \in {wire, wire \o payload} /\ (~conn => wire' = wire)
  BY DEF Broadcast
<1>5. FeedTypeOK'
  <2>1. wire' \in Seq(Message)
    <3>1. wire \o payload \in Seq(Message)
      BY <1>1
    <3>2. QED
      BY <1>1, <1>4, <3>1
  <2>2. QED
    BY <1>2, <1>3, <2>1 DEF FeedTypeOK
<1>6. PayloadFits' /\ NothingWithout'
  BY <1>2, <1>3, <1>4 DEF PayloadFits, NothingWithout
<1>7. ASSUME NEW m \in Owed'
      PROVE  Covered(Coming', DOMAIN machines', m)
  <2>1. Covered(wire \o tasks, DOMAIN machines, m)
    BY <1>3, <1>7, ComesLastIs DEF Coming, Owed, Ended
  <2>2. \A i \in DOMAIN payload : ~Adds(payload[i], m)
    BY DEF PayloadFits, Adds
  <2>3. Covered((wire \o payload) \o tasks, DOMAIN machines, m)
    BY <1>1, <2>1, <2>2, CoveredInserted
  <2>4. QED
    BY <1>3, <1>4, <2>1, <2>3 DEF Coming
<1>8. DeletionComesLast'
  BY <1>7 DEF DeletionComesLast, Covered, Owed
<1>9. QED
  BY <1>5, <1>6, <1>8

\* What a new connection is sent has no machine that is gone, and the ghosts are untold.
LEMMA ConnectInv ==
    ASSUME FeedInv, NEW sent \in SUBSET {"static", "dynamic"}, ConnectPage(sent)
    PROVE  FeedInv'
<1> USE DEF FeedInv
<1> DEFINE st == Payload("DATA_STATIC", Defined)  dy == Payload("DATA_DYNAMIC", Here)
           s == IF "static" \in sent THEN <<st>> ELSE << >>
           d == IF "dynamic" \in sent THEN <<dy>> ELSE << >>
<1>1. st \in Message /\ dy \in Message /\ st.of = Defined /\ dy.of = Here
  BY PayloadsAre DEF Defined, Here
<1>2. wire' = s \o d
  BY DEF ConnectPage
<1> HIDE DEF st, dy
<1>3. s \in Seq(Message) /\ d \in Seq(Message) /\ s \o d \in Seq(Message)
      /\ \A i \in DOMAIN (s \o d) : (s \o d)[i] \in {st, dy}
  BY <1>1
<1> HIDE DEF s, d
<1>4. UNCHANGED <<life, on, busy, tasks, machines, shows>> /\ payload' = << >> /\ conn' = TRUE
      /\ shows # "error" /\ tasks = << >> /\ wire = << >> /\ untold \subseteq untold'
  BY DEF ConnectPage, page, NothingWithout
<1>4a. untold' \subseteq Machine /\ Owed' \subseteq Owed
  BY DEF ConnectPage, Owed, Ended, FeedTypeOK
<1>5. << >> \in Seq(Message) /\ Len(<< >>) = 0 /\ DOMAIN << >> = {}
  OBVIOUS
<1>6. FeedTypeOK'
  BY <1>2, <1>3, <1>4, <1>4a, <1>5 DEF FeedTypeOK
<1>7. PayloadFits' /\ NothingWithout'
  BY <1>4, <1>5 DEF PayloadFits, NothingWithout
<1>8. Coming' = s \o d /\ Coming = << >>
  BY <1>2, <1>3, <1>4 DEF Coming
<1>9. ASSUME NEW m \in Owed'
      PROVE  Covered(Coming', DOMAIN machines', m)
  <2>1. Covered(<< >>, DOMAIN machines, m)
    BY <1>4a, <1>8, <1>9, ComesLastIs
  <2>2. m \notin DOMAIN machines'
    BY <1>4, <1>5, <2>1 DEF Covered
  <2>3. m \in Ended /\ m \notin untold'
    BY <1>4, <1>9 DEF Owed, Ended
  <2>4. "static" \in sent => m \notin Defined
    BY <2>3 DEF ConnectPage
  <2>5. \A i \in DOMAIN (s \o d) : "static" \in sent \/ (s \o d)[i] = dy
    BY DEF s, d
  <2>6. dy.type = "DATA_DYNAMIC"
    BY PayloadsAre DEF dy, Here
  <2>7. \A i \in DOMAIN Coming' : ~Adds(Coming'[i], m)
    BY <1>1, <1>3, <1>8, <2>3, <2>4, <2>5, <2>6 DEF Adds, Here, Ended
  <2>8. QED
    BY <2>2, <2>7 DEF Covered
<1>10. DeletionComesLast'
  BY <1>9 DEF DeletionComesLast, Covered, Owed
<1>11. QED
  BY <1>6, <1>7, <1>10

\* What the page takes is covered by what is still to come.
LEMMA ReceiveInv == FeedInv /\ Receive => FeedInv'
<1> SUFFICES ASSUME FeedInv, Receive PROVE FeedInv'
  OBVIOUS
<1> USE DEF FeedInv
<1> DEFINE h == Head(wire)  c == Tail(wire) \o tasks
<1>1. tasks \in Seq(Message) /\ wire \in Seq(Message) /\ wire # << >> /\ conn
  BY DEF FeedTypeOK, Receive, NothingWithout
<1>2. /\ h \in Message /\ Tail(wire) \in Seq(Message) /\ c \in Seq(Message)
      /\ wire \o tasks = <<h>> \o c /\ wire \o tasks \in Seq(Message)
  BY <1>1
<1>3. UNCHANGED <<life, on, busy, payload, tasks, conn, untold>> /\ wire' = Tail(wire)
      /\ machines' = OnNewMessage(h) /\ shows' = "machines"
  BY DEF Receive, api
<1> HIDE DEF h, c
<1>4. DOMAIN machines' \subseteq Machine /\ \A m \in DOMAIN machines' : machines'[m] \in Shown
  BY <1>2, <1>3, MessageShown
<1>5. FeedTypeOK'
  BY <1>2, <1>3, <1>4 DEF FeedTypeOK
<1>6. PayloadFits' /\ NothingWithout'
  BY <1>1, <1>3 DEF PayloadFits, NothingWithout
<1>7. Coming = wire \o tasks /\ Coming' = c
  BY <1>3 DEF Coming, c
<1>8. ASSUME NEW m \in Owed'
      PROVE  Covered(Coming', DOMAIN machines', m)
  <2>1. Covered(Coming, DOMAIN machines, m)
    BY <1>3, <1>8, ComesLastIs DEF Owed, Ended
  <2>2. m \in DOMAIN machines' => (m \in DOMAIN machines /\ ~Deletes(h, m)) \/ Adds(h, m)
    BY <1>2, <1>3, MessageShown
  <2>3. QED
    BY <1>2, <1>7, <2>1, <2>2, CoveredReceived
<1>9. DeletionComesLast'
  BY <1>8 DEF DeletionComesLast, Covered, Owed
<1>10. QED
  BY <1>5, <1>6, <1>9

\* One case for each action.
LEMMA FeedStep == FeedInv /\ [FeedNext]_feedVars => FeedInv'
<1> SUFFICES ASSUME FeedInv, [FeedNext]_feedVars PROVE FeedInv'
  OBVIOUS
<1> USE DEF FeedInv
<1>1. ASSUME NEW m \in Machine, Define(m) PROVE FeedInv'
  <2>1. FeedTypeOK' /\ PayloadFits'
    BY <1>1 DEF Define, channel, page, FeedTypeOK, PayloadFits, Life
  <2>2. QED
    BY <1>1, <2>1, ChannelStays DEF Define, channel, page, FeedTypeOK, Owed, Ended
<1>2. ASSUME NEW m \in Machine, Create(m) PROVE FeedInv'
  <2> DEFINE e == Event("CREATE", m)
  <2>1. e \in Message /\ e.of = {m}
    BY EventsAre
  <2> HIDE DEF e
  <2>2. Announce(<<e>>)
    BY <1>2 DEF Create, e
  <2>3. life' \in [Machine -> Life] /\ life'[m] = "here" /\ \A k \in Machine \ {m} : life'[k] = life[k]
    BY <1>2 DEF Create, FeedTypeOK, Life
  <2>4. UNCHANGED <<on, busy, payload, wire, conn, untold, page>>
    BY <1>2 DEF Create
  <2>5. tasks' \in Seq(Message) /\ PayloadFits' /\ NothingWithout' /\ DeletionComesLast'
    <3>1. \A i \in DOMAIN <<e>>, k \in Machine : k # m => ~Adds(<<e>>[i], k)
      BY <2>1, Single DEF Adds
    <3>2. <<e>> \in Seq(Message)
      BY <2>1
    <3>3. Owed' \subseteq Owed /\ m \notin Owed'
      BY <2>3, <2>4 DEF Owed, Ended
    <3>4. QED
      BY <2>2, <2>4, <3>1, <3>2, <3>3, ComesLastIs, AnnouncedInv DEF Owed, Ended
  <2>6. FeedTypeOK'
    BY <2>3, <2>4, <2>5 DEF FeedTypeOK, page
  <2>7. QED
    BY <2>5, <2>6
<1>3. ASSUME NEW m \in Machine, NEW end \in {"gone", "ghost"}, UndoCreate(m, end) PROVE FeedInv'
  <2>1. FeedTypeOK' /\ PayloadFits'
    BY <1>3 DEF UndoCreate, page, FeedTypeOK, PayloadFits, Life
  <2>2. Owed' \subseteq Owed
    BY <1>3 DEF UndoCreate, FeedTypeOK, Owed, Ended
  <2>3. QED
    BY <1>3, <2>1, <2>2, ChannelStays DEF UndoCreate, page
<1>4. ASSUME NEW m \in Machine, DeleteRows(m) \/ KeepRows(m) \/ Vanish(m) PROVE FeedInv'
  <2>1. FeedTypeOK' /\ PayloadFits'
    BY <1>4 DEF DeleteRows, KeepRows, Vanish, channel, page, FeedTypeOK, PayloadFits, Life
  <2>2. Owed' \subseteq Owed
    BY <1>4 DEF DeleteRows, KeepRows, Vanish, channel, FeedTypeOK, Owed, Ended
  <2>3. QED
    BY <1>4, <2>1, <2>2, ChannelStays DEF DeleteRows, KeepRows, Vanish, channel, page
<1>5. ASSUME NEW m \in Machine, NEW end \in {"gone", "ghost"}, NEW success \in BOOLEAN,
             Delete(m, end, success)
      PROVE  FeedInv'
  <2> DEFINE e == Event("DELETE", m)  told == success /\ conn
  <2>1. e \in Message /\ e.type = "DELETE"
    BY EventsAre
  <2> HIDE DEF e
  <2>2. /\ UNCHANGED <<on, busy, payload, wire, conn, machines, shows>>
        /\ tasks' = IF told THEN tasks \o <<e>> ELSE tasks
        /\ untold' = IF told THEN untold ELSE untold \cup {m}
    BY <1>5 DEF Delete, Announce, page, e
  <2>3. life' \in [Machine -> Life] /\ \A k \in Machine \ {m} : life'[k] = life[k]
    BY <1>5 DEF Delete, FeedTypeOK, Life
  <2> HIDE DEF told
  <2>4. tasks \in Seq(Message) /\ wire \in Seq(Message) /\ <<e>> \in Seq(Message) /\ Coming \in Seq(Message)
    BY <2>1 DEF FeedTypeOK, Coming
  <2>5. FeedTypeOK'
    BY <2>2, <2>3, <2>4 DEF FeedTypeOK
  <2>6. PayloadFits' /\ NothingWithout'
    BY <2>2 DEF PayloadFits, NothingWithout, told
  <2>7. ASSUME NEW k \in Owed'
        PROVE  Covered(Coming', DOMAIN machines', k)
    <3>1. k \in Machine /\ k \notin untold' /\ (k # m => k \in Owed)
      BY <2>2, <2>3, <2>7 DEF Owed, Ended
    <3>2. CASE told
      <4>1. Coming' = Coming \o <<e>>
        BY <2>2, <2>4, <3>2 DEF Coming
      <4>2. CASE k = m
        BY <2>2, <2>4, <4>1, <4>2, CoveredByDeletion DEF e
      <4>3. CASE k # m
        <5>1. Covered(Coming, DOMAIN machines, k)
          BY <3>1, <4>3, ComesLastIs
        <5>2. \A i \in DOMAIN <<e>> : ~Adds(<<e>>[i], k)
          BY <2>1, Single DEF Adds
        <5>3. QED
          BY <2>2, <2>4, <4>1, <5>1, <5>2, CoveredAppended
      <4>4. QED
        BY <4>2, <4>3
    <3>3. CASE ~told
      <4>1. k # m /\ Coming' = Coming
        BY <2>2, <3>1, <3>3 DEF Coming
      <4>2. QED
        BY <2>2, <3>1, <4>1, ComesLastIs
    <3>4. QED
      BY <3>2, <3>3
  <2>8. DeletionComesLast'
    BY <2>7 DEF DeletionComesLast, Covered, Owed
  <2>9. QED
    BY <2>5, <2>6, <2>8
<1>6. ASSUME NEW m \in Machine, Modify(m) PROVE FeedInv'
  <2> DEFINE e == Payload("DATA_STATIC", {m})
  <2>1. e \in Message /\ e.of = {m} /\ m \in Here
    BY <1>6, PayloadsAre DEF Modify
  <2> HIDE DEF e
  <2>2. Announce(<<e>>) /\ UNCHANGED <<api, wire, conn, untold, page>>
    BY <1>6 DEF Modify, e
  <2>3. tasks' \in Seq(Message) /\ PayloadFits' /\ NothingWithout' /\ DeletionComesLast'
    <3>1. Owed' = Owed
      BY <2>2 DEF Owed, Ended, api
    <3>2. \A i \in DOMAIN <<e>>, k \in Owed' : ~Adds(<<e>>[i], k)
      BY <2>1, <3>1, Single DEF Adds, Here, Owed, Ended
    <3>3. <<e>> \in Seq(Message)
      BY <2>1
    <3>4. QED
      BY <2>2, <3>1, <3>2, <3>3, AnnouncedInv DEF api
  <2>4. FeedTypeOK'
    BY <2>2, <2>3 DEF FeedTypeOK, page, api
  <2>5. QED
    BY <2>3, <2>4
<1>7. ASSUME NEW m \in Machine, NEW answer \in {"SUCCESS", "FAIL"}, TaskEnds(m, answer) PROVE FeedInv'
  <2> DEFINE e == Event(TASK_EVENT[busy[m]][answer], m)
  <2>1. busy[m] \in {"start", "stop"}
    BY <1>7 DEF TaskEnds, FeedTypeOK
  <2>2. TASK_EVENT[busy[m]][answer] \in DOMAIN STATE_MAP
    BY <2>1, TaskEvents
  <2>3. e \in Message /\ \A k : ~Adds(e, k)
    BY <2>2, TaskEventsAdd
  <2> HIDE DEF e
  <2>4. Announce(<<e>>) /\ UNCHANGED <<life, on, payload, wire, conn, untold, page>>
    BY <1>7 DEF TaskEnds, e
  <2>5. tasks' \in Seq(Message) /\ PayloadFits' /\ NothingWithout' /\ DeletionComesLast'
    <3>1. <<e>> \in Seq(Message) /\ \A i \in DOMAIN <<e>>, k \in Machine : ~Adds(<<e>>[i], k)
      BY <2>3, Single
    <3>2. Owed' \subseteq Owed /\ Owed' \subseteq Machine
      BY <2>4 DEF Owed, Ended
    <3>3. QED
      BY <2>4, <3>1, <3>2, AnnouncedInv
  <2>6. busy' \in [Machine -> {"none", "start", "stop"}]
    BY <1>7 DEF TaskEnds, FeedTypeOK
  <2>7. FeedTypeOK'
    BY <2>4, <2>5, <2>6 DEF FeedTypeOK, page
  <2>8. QED
    BY <2>5, <2>7
<1>8. ASSUME NEW m \in Machine, Flip(m) PROVE FeedInv'
  <2>1. FeedTypeOK' /\ PayloadFits'
    BY <1>8 DEF Flip, channel, page, FeedTypeOK, PayloadFits
  <2>2. QED
    BY <1>8, <2>1, ChannelStays DEF Flip, channel, page, Owed, Ended
<1>9. ASSUME NEW m \in Machine, NEW kind \in {"start", "stop"},
             AcceptTask(kind, m) \/ Press(kind, m)
      PROVE  FeedInv'
  BY <1>9, AcceptInv DEF Press
<1>10. ASSUME NEW m \in Machine,
              ToggleRow(m) \/ ToggleCard(m) \/ StartSelected(m) \/ StopSelected(m)
       PROVE  FeedInv'
  <2>1. Toggled(m) \in {"start", "stop"}
    BY DEF Toggled
  <2>2. QED
    BY <1>10, <2>1, AcceptInv DEF ToggleRow, ToggleCard, StartSelected, StopSelected
<1>11. ASSUME NEW ms \in SUBSET Here, NEW type \in {"DATA_DYNAMIC", "DATA_EXTRA"}, Retrieve(type, ms)
       PROVE  FeedInv'
  <2> DEFINE p == Payload(type, ms)
  <2>1. p \in Message /\ p.type = type
    BY PayloadsAre DEF Here
  <2> HIDE DEF p
  <2>2. payload' = <<p>> /\ UNCHANGED <<life, on, busy, channel, page>>
    BY <1>11 DEF Retrieve, p
  <2>3. PayloadFits' /\ payload' \in Seq(Message) /\ Len(payload') = 1
    BY <2>1, <2>2 DEF PayloadFits
  <2>4. FeedTypeOK'
    BY <2>2, <2>3 DEF FeedTypeOK, channel, page
  <2>5. QED
    BY <2>2, <2>3, <2>4, ChannelStays DEF channel, page, Owed, Ended
<1>12. ASSUME Disconnect PROVE FeedInv'
  BY <1>12, DisconnectInv
<1>13. ASSUME LeavePage \/ Crash PROVE FeedInv'
  BY <1>13, UnmountInv DEF LeavePage, Crash
<1>14. ASSUME RefreshPage PROVE FeedInv'
  <2>1. UNCHANGED <<life, on, busy, payload, tasks, wire, conn, untold, machines>> /\ shows' = "nothing"
        /\ shows = "error"
    BY <1>14 DEF RefreshPage, api, channel
  <2>2. FeedTypeOK' /\ PayloadFits'
    BY <2>1 DEF FeedTypeOK, PayloadFits
  <2>3. QED
    BY <2>1, <2>2, ChannelStays DEF Owed, Ended
<1>15. CASE UNCHANGED feedVars
  <2>1. FeedTypeOK' /\ PayloadFits'
    BY <1>15 DEF feedVars, api, channel, page, FeedTypeOK, PayloadFits
  <2>2. QED
    BY <1>15, <2>1, ChannelStays DEF feedVars, api, channel, page, Owed, Ended
<1>16. QED
  BY <1>1, <1>2, <1>3, <1>4, <1>5, <1>6, <1>7, <1>8, <1>9, <1>10, <1>11, <1>12, <1>13, <1>14, <1>15,
     SendInv, BroadcastInv, ConnectInv, ReceiveInv DEF FeedNext

\* The shape of the feed; where the page shows an error, its socket is gone, and where it
\* shows machines it has had a message (FeedTypeOK).
THEOREM FeedTypeCorrect == FeedSpec => []FeedTypeOK
<1>1. FeedInv => FeedTypeOK
  BY DEF FeedInv
<1>2. QED
  BY FeedStarts, FeedStep, <1>1, PTL DEF FeedSpec

\* A page that is not left out of the end of a machine is told it last: no payload a
\* broadcast read before can bring the machine back for good; and a connection only while
\* libvirt still lists it (DeletionComesLast).
THEOREM DeletionsComeLast == FeedSpec => []DeletionComesLast
<1>1. FeedInv => DeletionComesLast
  BY DEF FeedInv
<1>2. QED
  BY FeedStarts, FeedStep, <1>1, PTL DEF FeedSpec
==============================================================================
