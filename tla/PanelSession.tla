----------------------------- MODULE PanelSession -----------------------------
(***************************************************************************)
(* The session of a browser: the token cookies of the admin panel, the     *)
(* requests that refresh them, the pages they open, and the web socket     *)
(* that a page keeps; with the part of the API they talk to: the tokens,   *)
(* the accounts and the registry of connections.                           *)
(*                                                                         *)
(* A grant is what /token and /refresh answer: an access and a refresh     *)
(* token of one account, both valid while they have not expired.  A        *)
(* request keeps the headers of the render that sent it.  One step is a    *)
(* round trip: everything before it may happen while the request is under  *)
(* way, so requests overtake each other, and a request may outlive the     *)
(* session that sent it.                                                   *)
(***************************************************************************)
EXTENDS Naturals, FiniteSets

CONSTANTS
    Account,
    MaxGrant,    \* bound: the grants the API issues
    MaxInFlight  \* bound: the requests under way at once

ASSUME SessionAssumption == MaxGrant \in Nat /\ MaxInFlight \in Nat

Grant == 1 .. MaxGrant
None == 0                    \* the cookie is null
Token == Grant \cup {None}

VARIABLES
    access, refresh,  \* the cookies
    requests,         \* the requests under way
    route,            \* the page shown: of the login, or of a panel (or its error boundary)
    sock,             \* useApiWebSocket of the page
    owner,            \* the API: the account of each grant issued
    expired,          \* the grants whose access token has expired
    ended,            \* the grants whose refresh token has expired too
    disabled,         \* the accounts disabled or deleted
    dropping,         \* the accounts whose disconnect_user task has not run
    handlers          \* GlobalWebSocketManager: the handlers registered

cookies == <<access, refresh>>
server == <<owner, expired, ended, disabled, dropping>>
vars == <<cookies, requests, route, sock, server, handlers>>

Issued == DOMAIN owner

\* A fetch is sent, refreshes the tokens if need be, and is sent again.  Two other
\* requests only refresh: the socket's hook has nothing to repeat, and a login
\* with a wrong password, which is a 401 too, is refused again.
Request == [only : BOOLEAN, stage : {"send", "refresh", "resend"}, tok : Token, ref : Token]

Route == {"login", "panel"}
Sock == [at : {"off", "connecting", "open", "closed"}, tok : Token]
Handler == [tok : Grant, live : BOOLEAN]

SessionTypeOK ==
    /\ access \in Token /\ refresh \in Token
    /\ requests \subseteq Request /\ route \in Route
    /\ sock \in Sock
    /\ \E n \in 0 .. MaxGrant : owner \in [1 .. n -> Account]
    /\ ended \subseteq expired /\ expired \subseteq Issued
    /\ disabled \subseteq Account /\ dropping \subseteq Account
    /\ handlers \subseteq Handler

\* A browser without cookies: the router sends "/" to "/login".
Init ==
    /\ access = None /\ refresh = None /\ requests = {}
    /\ route = "login" /\ sock = [at |-> "off", tok |-> None]
    /\ owner = << >> /\ expired = {} /\ ended = {}
    /\ disabled = {} /\ dropping = {} /\ handlers = {}

-----------------------------------------------------------------------------
(* Tokens.                                                                  *)

\* Mutant: a refresh token is good once, and only the newest is accepted.
ValidRotated(t) == t = Cardinality(Issued) /\ t \in Issued \ ended /\ owner[t] \notin disabled

\* validate_user_token, for an access and for a refresh token.
Valid(t) == t \in Issued \ expired /\ owner[t] \notin disabled
ValidRefresh(t) == t \in Issued \ ended /\ owner[t] \notin disabled

\* get_user_tokens, and the two cookies set by what it answers.
IssueTo(u) ==
    LET g == Cardinality(Issued) + 1
    IN  /\ g \in Grant
        /\ owner' = [i \in 1 .. g |-> IF i = g THEN u ELSE owner[i]]
        /\ access' = g /\ refresh' = g
        /\ UNCHANGED <<expired, ended, disabled, dropping>>

\* logout: both cookies null, and the page of the login.
ClearTokens == access' = None /\ refresh' = None

\* The access token lives for an hour, the refresh token for a day.
Expire(g) ==
    /\ g \in Issued \ expired
    /\ expired' = expired \cup {g}
    /\ UNCHANGED <<cookies, requests, route, sock, owner, ended, disabled, dropping, handlers>>

RefreshExpires(g) ==
    /\ g \in expired \ ended
    /\ ended' = ended \cup {g}
    /\ UNCHANGED <<cookies, requests, route, sock, owner, expired, disabled, dropping, handlers>>

-----------------------------------------------------------------------------
(* Requests of the panel.                                                   *)

Sends(r) ==
    /\ Cardinality(requests) < MaxInFlight
    /\ requests' = requests \cup {r}

OnlyRefresh == [only |-> TRUE, stage |-> "refresh", tok |-> None, ref |-> refresh]

\* A component fetches as it mounts: Protected, ReverseProtected, the providers,
\* which fetch again when the tokens change, or one of a page.
Fetch ==
    /\ Sends([only |-> FALSE, stage |-> "send", tok |-> access, ref |-> refresh])
    /\ UNCHANGED <<cookies, route, sock, server, handlers>>

\* sendRequest gets its answer, on which ReverseProtected leaves the login.
Succeed(r) ==
    /\ r \in requests /\ r.stage \in {"send", "resend"} /\ Valid(r.tok)
    /\ requests' = requests \ {r}
    /\ route' \in {route, "panel"}
    /\ UNCHANGED <<cookies, sock, server, handlers>>

\* The request fails; Protected takes a 401 to the login.
Fails(r, unauthorized) ==
    /\ requests' = requests \ {r}
    /\ route' \in {route} \cup {p \in {"login"} : unauthorized}

\* A 401 begins a refresh with the refresh token of the same render.
Unauthorized(r) ==
    /\ r \in requests /\ r.stage = "send" /\ ~Valid(r.tok)
    /\ requests' = (requests \ {r}) \cup {[r EXCEPT !.stage = "refresh", !.tok = None]}
    /\ UNCHANGED <<cookies, route, sock, server, handlers>>

\* The refresh answers: the cookies are set, and the request is sent again.
Refresh(r) ==
    /\ r \in requests /\ r.stage = "refresh" /\ ValidRefresh(r.ref)
    /\ IssueTo(owner[r.ref])
    /\ requests' = (requests \ {r}) \cup
                   (IF r.only THEN {}
                    ELSE {[r EXCEPT !.stage = "resend", !.tok = access', !.ref = None]})
    /\ UNCHANGED <<route, sock, handlers>>

\* The refresh is refused: the user is logged out, and the request fails.
RefreshRefused(r) ==
    /\ r \in requests /\ r.stage = "refresh" /\ ~ValidRefresh(r.ref)
    /\ ClearTokens
    /\ requests' = requests \ {r} /\ route' = "login"
    /\ UNCHANGED <<sock, server, handlers>>

\* The request that was sent again is refused again.
ResendRefused(r) ==
    /\ r \in requests /\ r.stage = "resend" /\ ~Valid(r.tok)
    /\ Fails(r, TRUE)
    /\ UNCHANGED <<cookies, sock, server, handlers>>

\* No answer, or not in time, or an error of the API; without an answer to the
\* refresh the request fails with the 401 it had.
Lose(r) ==
    /\ r \in requests
    /\ Fails(r, r.stage = "refresh")
    /\ UNCHANGED <<cookies, sock, server, handlers>>

-----------------------------------------------------------------------------
(* The pages.                                                               *)

\* The form of the login is submitted, and account u is let in.
Login(u) ==
    /\ route = "login" /\ u \notin disabled
    /\ IssueTo(u)
    /\ route' = "panel"
    /\ UNCHANGED <<requests, sock, handlers>>

SubmitWrong ==
    /\ route = "login" /\ Sends(OnlyRefresh)
    /\ UNCHANGED <<cookies, route, sock, server, handlers>>

\* The button of the profile, or of the error page.
Logout ==
    /\ route = "panel"
    /\ ClearTokens /\ route' = "login"
    /\ UNCHANGED <<requests, sock, server, handlers>>

-----------------------------------------------------------------------------
(* The web socket.                                                          *)

\* The connection of the client ends: its handler stays registered.
Hangs == {IF h.live THEN [h EXCEPT !.live = FALSE] ELSE h : h \in handlers}

Connect ==
    /\ sock.at = "off" /\ route = "panel"
    /\ sock' = [at |-> "connecting", tok |-> access]
    /\ UNCHANGED <<cookies, requests, route, server, handlers>>

\* The page goes, and with it the connection.
Leave ==
    /\ sock.at # "off"
    /\ sock' = [at |-> "off", tok |-> None] /\ handlers' = Hangs
    /\ UNCHANGED <<cookies, requests, route, server>>

\* The token is part of the URL: a new one closes the connection and opens another.
UrlChanges ==
    /\ sock.at # "off" /\ sock.tok # access
    /\ sock' = [at |-> "connecting", tok |-> access] /\ handlers' = Hangs
    /\ UNCHANGED <<cookies, requests, route, server>>

\* shouldReconnect, after a close with code 4401: unless it did in the last 30
\* seconds, which may be the case or not, it reconnects 5 seconds later, with a
\* refresh under way that nobody waits for.
Closed4401 ==
    \/ sock' = [sock EXCEPT !.at = "closed"] /\ UNCHANGED requests
    \/ /\ sock' = [sock EXCEPT !.at = "connecting"]
       /\ Sends(OnlyRefresh)

\* Mutant: accept does not ask whether the account is disabled.
AcceptUnchecked ==
    /\ sock.at = "connecting"
    /\ IF sock.tok \in Issued \ expired
       THEN /\ handlers' = handlers \cup {[tok |-> sock.tok, live |-> TRUE]}
            /\ sock' = [sock EXCEPT !.at = "open"]
            /\ UNCHANGED requests
       ELSE Closed4401 /\ UNCHANGED handlers
    /\ UNCHANGED <<cookies, route, server>>

\* accept: validation and registration, which nothing comes between.
Accept ==
    /\ sock.at = "connecting"
    /\ IF Valid(sock.tok)
       THEN /\ handlers' = handlers \cup {[tok |-> sock.tok, live |-> TRUE]}
            /\ sock' = [sock EXCEPT !.at = "open"]
            /\ UNCHANGED requests
       ELSE Closed4401 /\ UNCHANGED handlers
    /\ UNCHANGED <<cookies, route, server>>

\* Mutant: a close that finds the connection gone leaves the registration.
CloseAtExpiryIfLive(h) ==
    /\ h \in handlers /\ h.tok \in expired /\ h.live
    /\ handlers' = handlers \ {h}
    /\ Closed4401
    /\ UNCHANGED <<cookies, route, server>>

\* The closer of h: out of the registry, and the client is told if it is there.
CloseAtExpiry(h) ==
    /\ h \in handlers /\ h.tok \in expired
    /\ handlers' = handlers \ {h}
    /\ IF h.live THEN Closed4401 ELSE UNCHANGED <<sock, requests>>
    /\ UNCHANGED <<cookies, route, server>>

\* An account is disabled or deleted; its connections are closed by a task.
Disable(u) ==
    /\ u \notin disabled
    /\ disabled' = disabled \cup {u} /\ dropping' = dropping \cup {u}
    /\ UNCHANGED <<cookies, requests, route, sock, owner, expired, ended, handlers>>

Enable(u) ==
    /\ u \in disabled /\ disabled' = disabled \ {u}
    /\ UNCHANGED <<cookies, requests, route, sock, owner, expired, ended, dropping, handlers>>

\* disconnect_user: with code 4403, after which the hook does not reconnect.
DisconnectUser(u) ==
    /\ u \in dropping /\ dropping' = dropping \ {u}
    /\ LET hs == {h \in handlers : owner[h.tok] = u}
       IN  /\ handlers' = handlers \ hs
           /\ sock' = IF \E h \in hs : h.live THEN [sock EXCEPT !.at = "closed"] ELSE sock
    /\ UNCHANGED <<cookies, requests, route, owner, expired, ended, disabled>>

\* The API restarts: nothing it held survives, and code 1006 is not 4401.
Restart ==
    /\ handlers # {} /\ handlers' = {} /\ dropping' = {}
    /\ sock' = IF sock.at = "open" THEN [sock EXCEPT !.at = "closed"] ELSE sock
    /\ UNCHANGED <<cookies, requests, route, owner, expired, ended, disabled>>

-----------------------------------------------------------------------------
Next ==
    \/ \E g \in Issued : Expire(g) \/ RefreshExpires(g)
    \/ Fetch
    \/ \E r \in requests : \/ Succeed(r) \/ Unauthorized(r) \/ Refresh(r)
                           \/ RefreshRefused(r) \/ ResendRefused(r) \/ Lose(r)
    \/ \E u \in Account : Login(u) \/ Disable(u) \/ Enable(u) \/ DisconnectUser(u)
    \/ SubmitWrong \/ Logout
    \/ Connect \/ Leave \/ UrlChanges \/ Accept
    \/ \E h \in handlers : CloseAtExpiry(h)
    \/ Restart

Spec == Init /\ [][Next]_vars

\* Time passes, and a task that the API has created runs.
FairSpec ==
    /\ Spec
    /\ \A g \in Grant : WF_vars(g \in Issued /\ Expire(g))
    /\ \A h \in Handler : WF_vars(CloseAtExpiry(h))
    /\ \A u \in Account : WF_vars(DisconnectUser(u))

-----------------------------------------------------------------------------
(* Properties.                                                              *)

\* A handler of a disabled or deleted account is registered only while the task
\* that will close it is due: accept validates and registers in one go, and the
\* endpoints create the task in the step that disables.
DisabledHasNoSocket ==
    \A h \in handlers : owner[h.tok] \in disabled => owner[h.tok] \in dropping

\* The tokens go only when the user logs out, or by a request that carried a
\* refresh token the API must refuse: refreshes that run at once, each with the
\* token of its own render, do not log each other out.
LogoutCaused ==
    access # None /\ access' = None =>
        \/ Logout
        \/ \E r \in requests : /\ r \notin requests'
                               /\ r.ref \in Issued => r.ref \in ended \/ owner[r.ref] \in disabled
LogoutHasCause == [][LogoutCaused]_vars

\* A registered handler is gone some day, although nothing unregisters it when
\* its client leaves: the closer of its token is what bounds the registry.
HandlerEndsWithToken == \A h \in Handler : h \in handlers ~> h \notin handlers

===============================================================================
