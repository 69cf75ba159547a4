----------------------------- MODULE UserAccounts -----------------------------
(***************************************************************************)
(* Accounts, roles and their guacamole entities: api/modules/users and the *)
(* endpoints of /users.                                                    *)
(*                                                                         *)
(* A handler is a coroutine that never awaits, so handlers do not          *)
(* interleave.  Two other things run beside them in threads: the           *)
(* authentication of a request, which reads the permissions the handler    *)
(* will act on some time before it runs, and the jobs of create-in-bulk,   *)
(* whose validation and two transactions fall between any two handlers.    *)
(*                                                                         *)
(* A uuid says which table it belongs to, and is drawn once.               *)
(***************************************************************************)
EXTENDS FiniteSets

CONSTANTS
    Admin, Client,  \* the uuids of administrators and of clients
    Root,           \* the administrator that 02-initdb.sql inserts
    Role,           \* the roles, which no endpoint creates or removes
    Permission,
    Grants,         \* the permissions of each role
    ManageAdmins, ManageClients,  \* MANAGE_ADMIN_USERS, MANAGE_CLIENT_USERS
    Email, NoEmail,
    Request,        \* slots for requests, reused when answered
    Job             \* jobs of create-in-bulk

ASSUME AccountsAssumption ==
    /\ Admin \cap Client = {}
    /\ Root \in Admin
    /\ Grants \in [Role -> SUBSET Permission]
    /\ UNION {Grants[o] : o \in Role} = Permission
    /\ ManageAdmins \in Permission /\ ManageClients \in Permission
    /\ NoEmail \notin Email

User == Admin \cup Client

VARIABLES
    users,     \* the rows of administrators and clients
    born,      \* the uuids drawn so far
    disabled,  \* the accounts disabled
    roles,     \* administrators_roles
    email,     \* the email of an account, or of the form it will be made from
    entities,  \* the users that guacamole_entity names
    waiting,   \* requests authenticated whose handler has not run
    seen,      \* the permissions their authentication read
    job        \* the jobs: how far, for which users, with which permissions

tables == <<users, disabled, roles, email, entities>>
vars == <<tables, born, waiting, seen, job>>

JobState == {"none", "pending", "validated", "committed", "success", "error", "lost"}
Pending == {"pending", "validated", "committed"}

NoJob == [pc |-> "none", users |-> {}, seen |-> {}]

\* The foreign key of administrators_roles is part of the type.
TypeOK ==
    /\ users \subseteq born /\ born \subseteq User
    /\ disabled \subseteq users
    /\ roles \in [Admin -> SUBSET Role]
    /\ \A a \in Admin \ users : roles[a] = {}
    /\ email \in [User -> Email \cup {NoEmail}]
    /\ entities \subseteq born
    /\ waiting \subseteq Request
    /\ seen \in [Request -> SUBSET Permission]
    /\ job \in [Job -> [pc : JobState, users : SUBSET born, seen : SUBSET Permission]]

\* The root administrator is installed with roles that grant every permission.
Init ==
    /\ users = {Root} /\ born = {Root} /\ entities = {Root} /\ disabled = {}
    /\ roles = [a \in Admin |-> IF a = Root THEN Role ELSE {}]
    /\ email = [u \in User |-> NoEmail]
    /\ waiting = {} /\ seen = [r \in Request |-> {}]
    /\ job = [j \in Job |-> NoJob]

-----------------------------------------------------------------------------
Granted(os) == UNION {Grants[o] : o \in os}

\* verify_role_integrity: the roles of as, disabled or not, grant every permission.
Integrity(as, assigned) ==
    Permission \subseteq UNION {Granted(assigned[a]) : a \in as}

Admins == users \cap Admin

\* Mutant: only the table that u belongs to is searched.
EmailFreeInTable(e, u) ==
    e = NoEmail \/ \A v \in users \ {u} : (v \in Admin <=> u \in Admin) => email[v] # e

\* get_user_by_email finds nobody but u.
EmailFree(e, u) == e = NoEmail \/ \A v \in users \ {u} : email[v] # e

\* The permission that managing account u takes.
Manages(u) == IF u \in Admin THEN ManageAdmins ELSE ManageClients

-----------------------------------------------------------------------------
(* Requests.                                                                *)

\* get_authenticated_administrator, in a thread.
Authenticate(r) ==
    /\ r \notin waiting
    /\ \E a \in Admins \ disabled :
          seen' = [seen EXCEPT ![r] = Granted(roles[a])]
    /\ waiting' = waiting \cup {r}
    /\ UNCHANGED <<tables, born, job>>

\* The handler of r answers; seen[r] means nothing any more.
Answers(r) ==
    /\ r \in waiting
    /\ waiting' = waiting \ {r}
    /\ seen' = [seen EXCEPT ![r] = {}]

\* A check refuses the request, or the database fails.
Refuse(r) == Answers(r) /\ UNCHANGED <<tables, born, job>>

\* create_user: one transaction for the row, the roles and the entity.
CreateUser(r, u, os) ==
    /\ Answers(r)
    /\ u \notin born /\ Manages(u) \in seen[r]
    /\ u \in Client => os = {}
    /\ Granted(os) \subseteq seen[r]
    /\ \E e \in Email \cup {NoEmail} :
          EmailFree(e, u) /\ email' = [email EXCEPT ![u] = e]
    /\ \E off \in BOOLEAN : disabled' = IF off THEN disabled \cup {u} ELSE disabled
    /\ users' = users \cup {u} /\ born' = born \cup {u}
    /\ entities' = entities \cup {u}
    /\ roles' = IF u \in Admin THEN [roles EXCEPT ![u] = os] ELSE roles
    /\ UNCHANGED job

\* The rows of us go, and with them, by ON DELETE CASCADE, their roles.
remove_records(us) ==
    /\ users' = users \ us /\ disabled' = disabled \ us /\ entities' = entities \ us
    /\ roles' = [a \in Admin |-> IF a \in us THEN {} ELSE roles[a]]
    /\ UNCHANGED <<born, email, job>>

\* Mutant: delete_users forgets verify_role_integrity.
DeleteUsersUnchecked(r, us) ==
    /\ Answers(r)
    /\ us \subseteq users
    /\ \A u \in us : Manages(u) \in seen[r]
    /\ remove_records(us)

\* delete_user and delete_users: one transaction, rolled back when removing
\* administrators would leave a permission unassigned.
DeleteUsers(r, us) ==
    /\ Answers(r)
    /\ us \subseteq users
    /\ \A u \in us : Manages(u) \in seen[r]
    /\ us \cap Admin # {} => Integrity(Admins \ us, roles)
    /\ remove_records(us)

\* update_administrator_roles: the roles of a are replaced; an empty list is
\* not a change.
AssignRoles(r, a, os) ==
    /\ Granted(os) \subseteq seen[r]
    /\ roles' = [roles EXCEPT ![a] = os]
    /\ Integrity(Admins, roles')

\* modify_user: the roles in one transaction, then the rest in another, which
\* may fail when the first is committed.
ModifyUser(r, u, os) ==
    /\ Answers(r)
    /\ u \in users /\ Manages(u) \in seen[r]
    /\ IF os = {} \/ u \in Client THEN UNCHANGED roles ELSE AssignRoles(r, u, os)
    /\ \/ UNCHANGED <<email, disabled>>
       \/ \E e \in Email \cup {NoEmail}, d \in {disabled, disabled \cup {u}, disabled \ {u}} :
             /\ EmailFree(e, u)
             /\ email' = IF e = NoEmail THEN email ELSE [email EXCEPT ![u] = e]
             /\ disabled' = d
    /\ UNCHANGED <<users, born, entities, job>>

-----------------------------------------------------------------------------
(* create-in-bulk.                                                          *)

SameTable(u, v) == u \in Admin <=> v \in Admin

JobMoves(j, pc) == job' = [job EXCEPT ![j].pc = pc]

\* The endpoint answers with the uuid of a job that a thread is to run.
StartJob(r, j, us) ==
    /\ Answers(r)
    /\ job[j].pc = "none" /\ us # {} /\ us \cap born = {}
    /\ job' = [job EXCEPT ![j] = [pc |-> "pending", users |-> us, seen |-> seen[r]]]
    /\ born' = born \cup us
    /\ \E f \in [us -> Email \cup {NoEmail}] :
          email' = [u \in User |-> IF u \in us THEN f[u] ELSE email[u]]
    /\ UNCHANGED <<users, disabled, roles, entities>>

\* No email is taken or asked for twice, and the permissions of the request
\* allow the accounts.  Administrators come without roles: to insert roles in
\* bulk, create_records names columns that the table does not have, and raises.
ValidateJob(j) ==
    LET us == job[j].users IN
    /\ job[j].pc = "pending"
    /\ \A u \in us : EmailFree(email[u], u) /\ Manages(u) \in job[j].seen
    /\ \A u, v \in us : email[u] = email[v] => u = v \/ email[u] = NoEmail
    /\ JobMoves(j, "validated")
    /\ UNCHANGED <<tables, born, waiting, seen>>

\* The first transaction.  An email is unique in a table, not across the two.
CommitJob(j) ==
    LET us == job[j].users IN
    /\ job[j].pc = "validated"
    /\ \A u \in us, v \in users :
          SameTable(u, v) /\ email[u] = email[v] => email[u] = NoEmail
    /\ users' = users \cup us
    /\ \E off \in SUBSET us : disabled' = disabled \cup off
    /\ JobMoves(j, "committed")
    /\ UNCHANGED <<born, roles, email, entities, waiting, seen>>

\* The second transaction: create_entity for every form.
EntitiesJob(j) ==
    /\ job[j].pc = "committed"
    /\ entities' = entities \cup job[j].users
    /\ JobMoves(j, "success")
    /\ UNCHANGED <<users, born, disabled, roles, email, waiting, seen>>

\* Mutant: the status is "success" whatever was raised.
FailJobSilently(j) ==
    /\ job[j].pc \in Pending
    /\ JobMoves(j, "success")
    /\ UNCHANGED <<tables, born, waiting, seen>>

\* Mutant: the validation runs outside the try, and its error ends the thread only.
FailJobLate(j) ==
    /\ job[j].pc \in Pending \ {"pending"}
    /\ JobMoves(j, "error")
    /\ UNCHANGED <<tables, born, waiting, seen>>

\* Whatever raises, raises an exception that run_task catches.
FailJob(j) ==
    /\ job[j].pc \in Pending
    /\ JobMoves(j, "error")
    /\ UNCHANGED <<tables, born, waiting, seen>>

\* The API restarts: requests, jobs and their status are gone.
Restart ==
    /\ job' = [j \in Job |-> IF job[j].pc \in Pending THEN [job[j] EXCEPT !.pc = "lost"]
                             ELSE job[j]]
    /\ waiting' = {} /\ seen' = [r \in Request |-> {}]
    /\ UNCHANGED <<tables, born>>

-----------------------------------------------------------------------------
Handler(r) ==
    \/ Refuse(r)
    \/ \E u \in User, os \in SUBSET Role : CreateUser(r, u, os) \/ ModifyUser(r, u, os)
    \/ \E us \in SUBSET User : DeleteUsers(r, us)
    \/ \E j \in Job, us \in SUBSET User : StartJob(r, j, us)

RunJob(j) == ValidateJob(j) \/ CommitJob(j) \/ EntitiesJob(j) \/ FailJob(j)

Serve ==
    \/ \E r \in Request : Authenticate(r) \/ Handler(r)
    \/ \E j \in Job : RunJob(j)

Next == Serve \/ Restart

Spec == Init /\ [][Next]_vars

\* A thread runs to its end.
FairSpec == Spec /\ \A j \in Job : WF_vars(RunJob(j))
-----------------------------------------------------------------------------
(* Properties.                                                              *)

\* Whatever requests and jobs do, and however old the permissions they act on,
\* every permission stays assigned to an administrator: verify_role_integrity
\* is called wherever roles or administrators go.
EveryPermissionAssigned == Integrity(Admins, roles)

\* "to allow for one-to-one user mapping" (02-initdb.sql:186).  A user without a
\* guacamole entity cannot open a remote desktop: only a job that has not ended, or
\* was not reported to succeed, leaves such users.  An entity without a user is what
\* a job leaves that succeeded after its user was deleted again.
UsersMatchEntities ==
    /\ \A u \in users \ entities :
          \E j \in Job : u \in job[j].users /\ job[j].pc \in {"committed", "error", "lost"}
    /\ \A u \in entities \ users :
          \E j \in Job : u \in job[j].users /\ job[j].pc = "success"

\* "Email: Must be unique (if provided)" (account-system.md:108).  The two tables
\* have a constraint each and none in common; handlers, which do not interleave,
\* keep the rule all the same.  An administrator and a client get the same email
\* only when a job made one of them.
EmailClashNeedsJob ==
    \A u, v \in users : email[u] = email[v] =>
        \/ u = v \/ email[u] = NoEmail
        \/ ~SameTable(u, v) /\ \E j \in Job : job[j].users \cap {u, v} # {}

\* The panel polls a job for as long as its status is pending.
EveryJobEnds == \A j \in Job : job[j].pc = "pending" ~> job[j].pc \notin Pending
=============================================================================
