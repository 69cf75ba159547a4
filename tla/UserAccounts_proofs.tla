------------------------- MODULE UserAccounts_proofs -------------------------
(***************************************************************************)
(* Theorems about accounts, where they are kept and where they are shown.  *)
(*                                                                         *)
(* UserAccounts, for every number of accounts, roles, permissions,         *)
(* requests and jobs: its types, among them the foreign key of             *)
(* administrators_roles; that no permission is ever unassigned; which      *)
(* users lack an entity; and which accounts may share an email.            *)
(*                                                                         *)
(* AccountsPage, for any accounts, searches and number of requests: its    *)
(* types; that what is deleted was selected; and that the list comes to    *)
(* show what the page has changed.                                         *)
(***************************************************************************)
EXTENDS UserAccounts, AccountsPage, FiniteSetTheorems, SequenceTheorems, WellFoundedInduction, TLAPS

-----------------------------------------------------------------------------
(* What verify_role_integrity sees.                                         *)

\* Taking on administrators, and replacing nobody's roles, keeps integrity.
LEMMA IntegrityGrows ==
    ASSUME NEW as, NEW bs, NEW f, NEW g,
           as \subseteq bs, \A a \in as : g[a] = f[a],
           Integrity(as, f)
    PROVE  Integrity(bs, g)
<1> SUFFICES ASSUME NEW p \in Permission
             PROVE  \E b \in bs : p \in Granted(g[b])
    BY Zenon DEF Integrity
<1>1. PICK a \in as : p \in Granted(f[a])
    BY Zenon DEF Integrity
<1>2. g[a] = f[a]
    BY <1>1
<1>3. p \in Granted(g[a])
    BY <1>1, <1>2
<1> QED
    BY <1>1, <1>3

\* The roles of other administrators do not matter.
LEMMA IntegrityLocal ==
    ASSUME NEW as, NEW f, NEW g, \A a \in as : g[a] = f[a], Integrity(as, f)
    PROVE  Integrity(as, g)
BY IntegrityGrows

-----------------------------------------------------------------------------
(* Types.                                                                   *)

LEMMA InitTypes == ASSUME AccountsAssumption PROVE Init => TypeOK
BY DEF AccountsAssumption, Init, TypeOK, NoJob, JobState, User

\* A request that answers.
LEMMA AnswerTypes ==
    ASSUME TypeOK, NEW r \in Request, Answers(r)
    PROVE  waiting' \subseteq Request /\ seen' \in [Request -> SUBSET Permission]
BY DEF TypeOK, Answers

\* A job that moves keeps its users and its permissions.
LEMMA JobTypes ==
    ASSUME TypeOK, NEW j \in Job, NEW pc \in JobState, JobMoves(j, pc)
    PROVE  job' \in [Job -> [pc : JobState, users : SUBSET born, seen : SUBSET Permission]]
BY DEF TypeOK, JobMoves

\* More uuids drawn do not hurt the jobs.
LEMMA JobsGrow ==
    ASSUME TypeOK, NEW us, born \subseteq us
    PROVE  \A i \in Job :
               job[i] \in [pc : JobState, users : SUBSET us, seen : SUBSET Permission]
<1> SUFFICES ASSUME NEW i \in Job
             PROVE  job[i] \in [pc : JobState, users : SUBSET us, seen : SUBSET Permission]
    OBVIOUS
<1>1. job[i] \in [pc : JobState, users : SUBSET born, seen : SUBSET Permission]
    BY DEF TypeOK
<1> QED
    BY <1>1

\* Every action keeps the types.
LEMMA NextTypes ==
    ASSUME AccountsAssumption, TypeOK, [Next]_vars
    PROVE  TypeOK'
<1>1. ASSUME NEW r \in Request, Authenticate(r) PROVE TypeOK'
  <2>1. seen' \in [Request -> SUBSET Permission]
      BY <1>1, AccountsAssumption
      DEF TypeOK, Authenticate, Granted, Admins, AccountsAssumption
  <2> QED
      BY <1>1, <2>1 DEF TypeOK, Authenticate, tables
<1>2. ASSUME NEW r \in Request, Refuse(r) PROVE TypeOK'
    BY <1>2, AnswerTypes DEF Refuse, TypeOK, tables
<1>3. ASSUME NEW r \in Request, NEW u \in User, NEW os \in SUBSET Role, CreateUser(r, u, os)
      PROVE  TypeOK'
  <2>1. waiting' \subseteq Request /\ seen' \in [Request -> SUBSET Permission]
      BY <1>3, AnswerTypes DEF CreateUser
  <2>2. email' \in [User -> Email \cup {NoEmail}]
      BY <1>3 DEF CreateUser, TypeOK
  <2>3. roles' \in [Admin -> SUBSET Role] /\ \A a \in Admin \ users' : roles'[a] = {}
      BY <1>3 DEF CreateUser, TypeOK
  <2>4. users' \subseteq born' /\ born' \subseteq User /\ disabled' \subseteq users'
        /\ entities' \subseteq born'
      BY <1>3 DEF CreateUser, TypeOK
  <2>5. job' \in [Job -> [pc : JobState, users : SUBSET born', seen : SUBSET Permission]]
    <3>1. born \subseteq born' /\ job' = job
        BY <1>3 DEF CreateUser
    <3>2. \A i \in Job : job[i] \in [pc : JobState, users : SUBSET born', seen : SUBSET Permission]
        BY <3>1, JobsGrow
    <3> QED
        BY <3>1, <3>2 DEF TypeOK
  <2> QED
      BY <1>3, <2>1, <2>2, <2>3, <2>4, <2>5 DEF CreateUser, TypeOK
<1>4. ASSUME NEW r \in Request, NEW u \in User, NEW os \in SUBSET Role, ModifyUser(r, u, os)
      PROVE  TypeOK'
  <2>1. waiting' \subseteq Request /\ seen' \in [Request -> SUBSET Permission]
      BY <1>4, AnswerTypes DEF ModifyUser
  <2>2. roles' \in [Admin -> SUBSET Role] /\ \A a \in Admin \ users : roles'[a] = {}
    <3>1. CASE os = {} \/ u \in Client
        BY <1>4, <3>1 DEF ModifyUser, TypeOK
    <3>2. CASE ~(os = {} \/ u \in Client)
        BY <1>4, <3>2 DEF ModifyUser, AssignRoles, TypeOK, User
    <3> QED
        BY <3>1, <3>2
  <2>3. email' \in [User -> Email \cup {NoEmail}] /\ disabled' \subseteq users
      BY <1>4 DEF ModifyUser, TypeOK
  <2> QED
      BY <1>4, <2>1, <2>2, <2>3 DEF ModifyUser, TypeOK
<1>5. ASSUME NEW r \in Request, NEW us \in SUBSET User, DeleteUsers(r, us) PROVE TypeOK'
  <2>1. waiting' \subseteq Request /\ seen' \in [Request -> SUBSET Permission]
      BY <1>5, AnswerTypes DEF DeleteUsers
  <2>2. roles' \in [Admin -> SUBSET Role] /\ \A a \in Admin \ users' : roles'[a] = {}
      BY <1>5 DEF DeleteUsers, remove_records, TypeOK
  <2> QED
      BY <1>5, <2>1, <2>2 DEF DeleteUsers, remove_records, TypeOK
<1>6. ASSUME NEW r \in Request, NEW j \in Job, NEW us \in SUBSET User, StartJob(r, j, us)
      PROVE  TypeOK'
  <2>1. waiting' \subseteq Request /\ seen' \in [Request -> SUBSET Permission]
      BY <1>6, AnswerTypes DEF StartJob
  <2>2. email' \in [User -> Email \cup {NoEmail}]
      BY <1>6 DEF StartJob, TypeOK
  <2>3. born \subseteq born' /\ us \subseteq born' /\ born' \subseteq User
      BY <1>6 DEF StartJob, TypeOK
  <2>4. job' \in [Job -> [pc : JobState, users : SUBSET born', seen : SUBSET Permission]]
    <3>1. \A i \in Job : job[i] \in [pc : JobState, users : SUBSET born', seen : SUBSET Permission]
        BY <2>3, JobsGrow
    <3>2. [pc |-> "pending", users |-> us, seen |-> seen[r]]
              \in [pc : JobState, users : SUBSET born', seen : SUBSET Permission]
        BY <2>3 DEF TypeOK, JobState
    <3> QED
        BY <1>6, <3>1, <3>2 DEF StartJob, TypeOK
  <2> QED
      BY <1>6, <2>1, <2>2, <2>3, <2>4 DEF StartJob, TypeOK
<1>7. ASSUME NEW j \in Job, RunJob(j) PROVE TypeOK'
  <2>1. PICK pc \in JobState : JobMoves(j, pc)
      BY <1>7 DEF RunJob, ValidateJob, CommitJob, EntitiesJob, FailJob, JobState
  <2>2. job' \in [Job -> [pc : JobState, users : SUBSET born, seen : SUBSET Permission]]
      BY <2>1, JobTypes
  <2>3. CASE ValidateJob(j)
      BY <2>2, <2>3 DEF ValidateJob, TypeOK, tables
  <2>4. CASE CommitJob(j)
    <3>1. job[j].users \subseteq born
        BY DEF TypeOK
    <3>2. PICK off \in SUBSET job[j].users : disabled' = disabled \cup off
        BY <2>4 DEF CommitJob
    <3>3. users' = users \cup job[j].users /\ UNCHANGED <<born, roles, email, entities, waiting, seen>>
        BY <2>4 DEF CommitJob
    <3> QED
        BY <2>2, <3>1, <3>2, <3>3 DEF TypeOK
  <2>5. CASE EntitiesJob(j)
    <3>1. job[j].users \subseteq born
        BY DEF TypeOK
    <3> QED
        BY <2>2, <2>5, <3>1 DEF EntitiesJob, TypeOK
  <2>6. CASE FailJob(j)
      BY <2>2, <2>6 DEF FailJob, TypeOK, tables
  <2> QED
      BY <1>7, <2>3, <2>4, <2>5, <2>6 DEF RunJob
<1>8. ASSUME Restart PROVE TypeOK'
  <2>1. job' \in [Job -> [pc : JobState, users : SUBSET born, seen : SUBSET Permission]]
    <3>1. \A i \in Job : job'[i] \in [pc : JobState, users : SUBSET born, seen : SUBSET Permission]
        BY <1>8 DEF Restart, TypeOK, JobState
    <3> QED
        BY <1>8, <3>1 DEF Restart
  <2>2. waiting' \subseteq Request /\ seen' \in [Request -> SUBSET Permission]
      BY <1>8 DEF Restart
  <2>3. UNCHANGED <<users, disabled, roles, email, entities, born>>
      BY <1>8 DEF Restart, tables
  <2> QED
      BY <2>1, <2>2, <2>3 DEF TypeOK
<1>9. CASE UNCHANGED vars
    BY <1>9 DEF vars, tables, TypeOK
<1> QED
    BY <1>1, <1>2, <1>3, <1>4, <1>5, <1>6, <1>7, <1>8, <1>9 DEF Next, Serve, Handler

\* The rows, the foreign key of administrators_roles and the requests and jobs
\* keep their types, whoever creates, modifies and removes accounts at once.
THEOREM TypeCorrect == Spec => []TypeOK
<1>1. Init => TypeOK
    BY InitTypes, AccountsAssumption
<1>2. TypeOK /\ [Next]_vars => TypeOK'
    BY NextTypes, AccountsAssumption
<1> QED
    BY <1>1, <1>2, PTL DEF Spec

-----------------------------------------------------------------------------
(* Integrity.                                                               *)

\* Every action keeps integrity.
LEMMA NextIntegrity ==
    ASSUME AccountsAssumption, TypeOK, EveryPermissionAssigned, [Next]_vars
    PROVE  EveryPermissionAssigned'
<1> USE DEF EveryPermissionAssigned, Admins
<1>1. ASSUME UNCHANGED <<users, roles>> PROVE Integrity(Admins, roles)'
    BY <1>1, Zenon DEF Integrity, Granted
<1>2. ASSUME NEW r \in Request, NEW u \in User, NEW os \in SUBSET Role, CreateUser(r, u, os)
      PROVE  EveryPermissionAssigned'
  <2>1. u \notin users /\ users' = users \cup {u}
      BY <1>2 DEF CreateUser, TypeOK
  <2>2. \A a \in users \cap Admin : roles'[a] = roles[a]
      BY <1>2, <2>1 DEF CreateUser, TypeOK
  <2>3. users \cap Admin \subseteq users' \cap Admin
      BY <2>1
  <2>4. Integrity(users' \cap Admin, roles')
      BY <2>2, <2>3, IntegrityGrows
  <2> QED
      BY <2>4
<1>3. ASSUME NEW r \in Request, NEW u \in User, NEW os \in SUBSET Role, ModifyUser(r, u, os)
      PROVE  EveryPermissionAssigned'
  <2>1. users' = users
      BY <1>3 DEF ModifyUser
  <2>2. CASE os = {} \/ u \in Client
      BY <1>1, <1>3, <2>1, <2>2 DEF ModifyUser
  <2>3. CASE ~(os = {} \/ u \in Client)
    <3>1. Integrity(users \cap Admin, roles')
        BY <1>3, <2>3, Zenon DEF ModifyUser, AssignRoles
    <3> QED
        BY <2>1, <3>1
  <2> QED
      BY <2>2, <2>3
<1>4. ASSUME NEW r \in Request, NEW us \in SUBSET User, DeleteUsers(r, us)
      PROVE  EveryPermissionAssigned'
  <2>1. users' = users \ us
      BY <1>4 DEF DeleteUsers, remove_records
  <2>2. \A a \in (users \cap Admin) \ us : roles'[a] = roles[a]
      BY <1>4 DEF DeleteUsers, remove_records
  <2>3. Integrity((users \cap Admin) \ us, roles)
    <3>1. CASE us \cap Admin = {}
      <4>1. (users \cap Admin) \ us = users \cap Admin
          BY <3>1
      <4> QED
          BY <4>1
    <3>2. CASE us \cap Admin # {}
        BY <1>4, <3>2 DEF DeleteUsers
    <3> QED
        BY <3>1, <3>2
  <2>4. Integrity((users \cap Admin) \ us, roles')
      BY <2>2, <2>3, IntegrityLocal
  <2>5. (users \cap Admin) \ us = users' \cap Admin
      BY <2>1
  <2> QED
      BY <2>4, <2>5
<1>5. ASSUME NEW j \in Job, CommitJob(j) PROVE EveryPermissionAssigned'
  <2>1. users \cap Admin \subseteq users' \cap Admin /\ roles' = roles
      BY <1>5 DEF CommitJob
  <2>2. Integrity(users' \cap Admin, roles')
      BY <2>1, IntegrityGrows
  <2> QED
      BY <2>2
<1>6. ASSUME NEW r \in Request, Authenticate(r) \/ Refuse(r) PROVE EveryPermissionAssigned'
    BY <1>1, <1>6 DEF Authenticate, Refuse, tables
<1>7. ASSUME NEW r \in Request, NEW j \in Job, NEW us \in SUBSET User, StartJob(r, j, us)
      PROVE  EveryPermissionAssigned'
    BY <1>1, <1>7 DEF StartJob
<1>8. ASSUME NEW j \in Job, ValidateJob(j) \/ EntitiesJob(j) \/ FailJob(j)
      PROVE  EveryPermissionAssigned'
    BY <1>1, <1>8 DEF ValidateJob, EntitiesJob, FailJob, tables
<1>9. CASE Restart \/ UNCHANGED vars
    BY <1>1, <1>9 DEF Restart, vars, tables
<1> QED
    BY <1>2, <1>3, <1>4, <1>5, <1>6, <1>7, <1>8, <1>9 DEF Next, Serve, Handler, RunJob

\* No sequence of requests and jobs leaves a permission unassigned, so the
\* account system can never lock every administrator out of a permission by
\* taking roles or accounts away.
THEOREM NoPermissionIsLost == Spec => []EveryPermissionAssigned
<1>1. Init => EveryPermissionAssigned
  <2> SUFFICES ASSUME Init, NEW p \in Permission
               PROVE  \E a \in Admins : p \in Granted(roles[a])
      BY Zenon DEF EveryPermissionAssigned, Integrity
  <2>1. Root \in Admins /\ roles[Root] = Role
      BY AccountsAssumption DEF Init, Admins, AccountsAssumption
  <2>2. p \in Granted(Role)
      BY AccountsAssumption DEF AccountsAssumption, Granted
  <2> QED
      BY <2>1, <2>2
<1>2. TypeOK /\ EveryPermissionAssigned /\ [Next]_vars => EveryPermissionAssigned'
    BY NextIntegrity, AccountsAssumption
<1> QED
    BY <1>1, <1>2, TypeCorrect, PTL DEF Spec
-----------------------------------------------------------------------------
(* Users, entities and jobs.                                                *)

\* What a job will insert is nobody else's, and is not there before it does.
JobsApart ==
    /\ \A i, j \in Job : i # j => job[i].users \cap job[j].users = {}
    /\ \A j \in Job : job[j].pc = "none" => job[j].users = {}
    /\ \A j \in Job : job[j].pc \in {"pending", "validated"} =>
           job[j].users \cap (users \cup entities) = {}
    /\ \A j \in Job : job[j].pc = "committed" => job[j].users \cap entities = {}

\* What the validation has seen of the forms is still so when they are inserted.
FormsApart ==
    \A j \in Job : job[j].pc = "validated" =>
        \A u, v \in job[j].users : email[u] = email[v] => u = v \/ email[u] = NoEmail

Matched == TypeOK /\ JobsApart /\ UsersMatchEntities

\* The last step of a job: its other fields and the other jobs stay.
LEMMA JobMoved ==
    ASSUME TypeOK, NEW j \in Job, NEW pc, JobMoves(j, pc)
    PROVE  /\ job'[j].pc = pc
           /\ \A i \in Job : job'[i].users = job[i].users
           /\ \A i \in Job : i # j => job'[i] = job[i]
BY DEF TypeOK, JobMoves

\* A request that creates jobs nothing: the account is in both tables or in none.
LEMMA CreateMatched ==
    ASSUME Matched, NEW r \in Request, NEW u \in User, NEW os \in SUBSET Role,
           CreateUser(r, u, os)
    PROVE  JobsApart' /\ UsersMatchEntities'
<1>1. /\ users' = users \cup {u} /\ entities' = entities \cup {u} /\ job' = job
      /\ u \notin born
    BY DEF CreateUser
<1>2. \A j \in Job : u \notin job[j].users
    BY <1>1 DEF Matched, TypeOK
<1>3. JobsApart'
    BY <1>1, <1>2 DEF Matched, JobsApart
<1>4. UsersMatchEntities'
    BY <1>1 DEF Matched, UsersMatchEntities
<1> QED
    BY <1>3, <1>4

\* An account is deleted from both.
LEMMA DeleteMatched ==
    ASSUME Matched, NEW r \in Request, NEW us \in SUBSET User, DeleteUsers(r, us)
    PROVE  JobsApart' /\ UsersMatchEntities'
<1>1. users' = users \ us /\ entities' = entities \ us /\ job' = job
    BY DEF DeleteUsers, remove_records
<1>2. JobsApart'
    BY <1>1 DEF Matched, JobsApart
<1>3. UsersMatchEntities'
    BY <1>1 DEF Matched, UsersMatchEntities
<1> QED
    BY <1>2, <1>3

\* The forms of a new job get uuids of their own.
LEMMA StartMatched ==
    ASSUME Matched, NEW r \in Request, NEW j \in Job, NEW us \in SUBSET User,
           StartJob(r, j, us)
    PROVE  JobsApart' /\ UsersMatchEntities'
<1>1. /\ users' = users /\ entities' = entities
      /\ us \cap born = {} /\ job[j].pc = "none" /\ job[j].users = {}
    BY DEF StartJob, Matched, JobsApart
<1>2. /\ job'[j].pc = "pending" /\ job'[j].users = us
      /\ \A i \in Job : i # j => job'[i] = job[i]
    BY DEF StartJob, Matched, TypeOK
<1>3. \A i \in Job : job[i].users \cap us = {}
    BY <1>1 DEF Matched, TypeOK
<1>4. us \cap (users \cup entities) = {}
    BY <1>1 DEF Matched, TypeOK
<1>5. JobsApart'
    BY <1>1, <1>2, <1>3, <1>4 DEF Matched, JobsApart
<1>6. UsersMatchEntities'
    BY <1>1, <1>2 DEF Matched, UsersMatchEntities
<1> QED
    BY <1>5, <1>6

\* The job that inserts users accounts for their missing entities.
LEMMA CommitMatched ==
    ASSUME Matched, NEW j \in Job, CommitJob(j)
    PROVE  JobsApart' /\ UsersMatchEntities'
<1> DEFINE us == job[j].users
<1>1. /\ job[j].pc = "validated" /\ JobMoves(j, "committed")
      /\ users' = users \cup us /\ entities' = entities
    BY DEF CommitJob
<1>2. /\ job'[j].pc = "committed"
      /\ \A i \in Job : job'[i].users = job[i].users
      /\ \A i \in Job : i # j => job'[i] = job[i]
    BY <1>1, JobMoved DEF Matched
<1>3. us \cap entities = {}
    BY <1>1 DEF Matched, JobsApart
<1>4. \A i \in Job : i # j => job[i].users \cap us = {}
    BY DEF Matched, JobsApart
<1> HIDE DEF us
<1>5. JobsApart'
  <2>1. \A i, k \in Job : i # k => job'[i].users \cap job'[k].users = {}
      BY <1>2 DEF Matched, JobsApart
  <2>2. \A i \in Job : job'[i].pc = "none" => job'[i].users = {}
      BY <1>2 DEF Matched, JobsApart
  <2>3. \A i \in Job : job'[i].pc \in {"pending", "validated"} =>
            job'[i].users \cap (users' \cup entities') = {}
    <3> SUFFICES ASSUME NEW i \in Job, job'[i].pc \in {"pending", "validated"}
                 PROVE  job'[i].users \cap (users' \cup entities') = {}
        OBVIOUS
    <3>1. i # j /\ job'[i] = job[i]
        BY <1>2
    <3>2. job[i].users \cap (users \cup entities) = {}
        BY <3>1 DEF Matched, JobsApart
    <3> QED
        BY <1>1, <1>4, <3>1, <3>2
  <2>4. \A i \in Job : job'[i].pc = "committed" => job'[i].users \cap entities' = {}
      BY <1>1, <1>2, <1>3 DEF Matched, JobsApart, us
  <2> QED
      BY <2>1, <2>2, <2>3, <2>4 DEF JobsApart
<1>6. UsersMatchEntities'
  <2>1. ASSUME NEW u \in users' \ entities'
        PROVE  \E i \in Job : /\ u \in job'[i].users
                              /\ job'[i].pc \in {"committed", "error", "lost"}
    <3>1. CASE u \in us
        BY <1>2, <3>1 DEF us
    <3>2. CASE u \notin us
      <4>1. PICK i \in Job : u \in job[i].users /\ job[i].pc \in {"committed", "error", "lost"}
          BY <1>1, <2>1, <3>2 DEF Matched, UsersMatchEntities
      <4> QED
          BY <1>1, <1>2, <4>1
    <3> QED
        BY <3>1, <3>2
  <2>2. ASSUME NEW u \in entities' \ users'
        PROVE  \E i \in Job : u \in job'[i].users /\ job'[i].pc = "success"
    <3>1. PICK i \in Job : u \in job[i].users /\ job[i].pc = "success"
        BY <1>1, <2>2 DEF Matched, UsersMatchEntities
    <3> QED
        BY <1>1, <1>2, <3>1
  <2> QED
      BY <2>1, <2>2 DEF UsersMatchEntities
<1> QED
    BY <1>5, <1>6

\* The job that succeeds accounts for the entities of users deleted meanwhile.
LEMMA EntitiesMatched ==
    ASSUME Matched, NEW j \in Job, EntitiesJob(j)
    PROVE  JobsApart' /\ UsersMatchEntities'
<1> DEFINE us == job[j].users
<1>1. /\ job[j].pc = "committed" /\ JobMoves(j, "success")
      /\ users' = users /\ entities' = entities \cup us
    BY DEF EntitiesJob
<1>2. /\ job'[j].pc = "success"
      /\ \A i \in Job : job'[i].users = job[i].users
      /\ \A i \in Job : i # j => job'[i] = job[i]
    BY <1>1, JobMoved DEF Matched
<1>3. \A i \in Job : i # j => job[i].users \cap us = {}
    BY DEF Matched, JobsApart
<1>4. us = job[j].users
    OBVIOUS
<1> HIDE DEF us
<1>5. JobsApart'
  <2>1. \A i, k \in Job : i # k => job'[i].users \cap job'[k].users = {}
      BY <1>2 DEF Matched, JobsApart
  <2>2. \A i \in Job : job'[i].pc = "none" => job'[i].users = {}
      BY <1>2 DEF Matched, JobsApart
  <2>3. ASSUME NEW i \in Job, job'[i].pc \in {"pending", "validated"}
        PROVE  job'[i].users \cap (users' \cup entities') = {}
    <3>1. i # j /\ job'[i] = job[i]
        BY <1>2, <2>3
    <3>2. job[i].users \cap (users \cup entities) = {}
        BY <2>3, <3>1 DEF Matched, JobsApart
    <3> QED
        BY <1>1, <1>3, <3>1, <3>2
  <2>4. ASSUME NEW i \in Job, job'[i].pc = "committed"
        PROVE  job'[i].users \cap entities' = {}
    <3>1. i # j /\ job'[i] = job[i]
        BY <1>2, <2>4
    <3>2. job[i].users \cap entities = {}
        BY <2>4, <3>1 DEF Matched, JobsApart
    <3> QED
        BY <1>1, <1>3, <3>1, <3>2
  <2> QED
      BY <2>1, <2>2, <2>3, <2>4 DEF JobsApart
<1>6. UsersMatchEntities'
  <2>1. ASSUME NEW u \in users' \ entities'
        PROVE  \E i \in Job : /\ u \in job'[i].users
                              /\ job'[i].pc \in {"committed", "error", "lost"}
    <3>1. u \notin us
        BY <1>1, <2>1
    <3>2. PICK i \in Job : u \in job[i].users /\ job[i].pc \in {"committed", "error", "lost"}
        BY <1>1, <2>1 DEF Matched, UsersMatchEntities
    <3> QED
        BY <1>2, <1>4, <3>1, <3>2
  <2>2. ASSUME NEW u \in entities' \ users'
        PROVE  \E i \in Job : u \in job'[i].users /\ job'[i].pc = "success"
    <3>1. CASE u \in us
        BY <1>2, <1>4, <3>1
    <3>2. CASE u \notin us
      <4>1. PICK i \in Job : u \in job[i].users /\ job[i].pc = "success"
          BY <1>1, <2>2, <3>2 DEF Matched, UsersMatchEntities
      <4> QED
          BY <1>1, <1>2, <4>1
    <3> QED
        BY <3>1, <3>2
  <2> QED
      BY <2>1, <2>2 DEF UsersMatchEntities
<1> QED
    BY <1>5, <1>6

\* A job that fails or is lost after its first transaction still accounts for
\* the users it has inserted.
LEMMA EndsMatched ==
    ASSUME Matched, users' = users, entities' = entities,
           \A i \in Job : job'[i].users = job[i].users,
           \A i \in Job : \/ job'[i].pc = job[i].pc
                          \/ job[i].pc = "pending" /\ job'[i].pc = "validated"
                          \/ job[i].pc \in Pending /\ job'[i].pc \in {"error", "lost"}
    PROVE  JobsApart' /\ UsersMatchEntities'
<1>1. JobsApart'
  <2>1. \A i, k \in Job : i # k => job'[i].users \cap job'[k].users = {}
      BY DEF Matched, JobsApart
  <2>2. \A i \in Job : job'[i].pc = "none" => job'[i].users = {}
      BY DEF Matched, JobsApart, Pending
  <2>3. \A i \in Job : job'[i].pc \in {"pending", "validated"} =>
            job'[i].users \cap (users' \cup entities') = {}
      BY DEF Matched, JobsApart
  <2>4. \A i \in Job : job'[i].pc = "committed" => job'[i].users \cap entities' = {}
      BY DEF Matched, JobsApart
  <2> QED
      BY <2>1, <2>2, <2>3, <2>4 DEF JobsApart
<1>2. UsersMatchEntities'
  <2>1. ASSUME NEW u \in users \ entities
        PROVE  \E i \in Job : /\ u \in job'[i].users
                              /\ job'[i].pc \in {"committed", "error", "lost"}
    <3>1. PICK i \in Job : u \in job[i].users /\ job[i].pc \in {"committed", "error", "lost"}
        BY <2>1 DEF Matched, UsersMatchEntities
    <3> QED
        BY <3>1 DEF Pending
  <2>2. ASSUME NEW u \in entities \ users
        PROVE  \E i \in Job : u \in job'[i].users /\ job'[i].pc = "success"
    <3>1. PICK i \in Job : u \in job[i].users /\ job[i].pc = "success"
        BY <2>2 DEF Matched, UsersMatchEntities
    <3> QED
        BY <3>1 DEF Pending
  <2> QED
      BY <2>1, <2>2 DEF UsersMatchEntities
<1> QED
    BY <1>1, <1>2

\* Every action keeps the jobs apart and the users matched.
LEMMA NextMatched ==
    ASSUME Matched, [Next]_vars
    PROVE  JobsApart' /\ UsersMatchEntities'
<1>1. ASSUME UNCHANGED <<users, entities, job>> PROVE JobsApart' /\ UsersMatchEntities'
    BY <1>1, EndsMatched
<1>2. ASSUME NEW r \in Request, Authenticate(r) \/ Refuse(r)
      PROVE  JobsApart' /\ UsersMatchEntities'
    BY <1>1, <1>2 DEF Authenticate, Refuse, tables
<1>3. ASSUME NEW r \in Request, NEW u \in User, NEW os \in SUBSET Role, ModifyUser(r, u, os)
      PROVE  JobsApart' /\ UsersMatchEntities'
    BY <1>1, <1>3 DEF ModifyUser
<1>4. ASSUME NEW j \in Job, ValidateJob(j) \/ FailJob(j) PROVE JobsApart' /\ UsersMatchEntities'
  <2>1. users' = users /\ entities' = entities
      BY <1>4 DEF ValidateJob, FailJob, tables
  <2>2. \/ job[j].pc = "pending" /\ JobMoves(j, "validated")
        \/ job[j].pc \in Pending /\ JobMoves(j, "error")
      BY <1>4 DEF ValidateJob, FailJob
  <2> QED
      BY <2>1, <2>2, JobMoved, EndsMatched DEF Matched
<1>5. CASE Restart
  <2>1. users' = users /\ entities' = entities
      BY <1>5 DEF Restart, tables
  <2>2. \A i \in Job : /\ job'[i].users = job[i].users
                       /\ \/ job'[i].pc = job[i].pc
                          \/ job[i].pc \in Pending /\ job'[i].pc = "lost"
      BY <1>5 DEF Restart, Matched, TypeOK
  <2> QED
      BY <2>1, <2>2, EndsMatched
<1>6. CASE UNCHANGED vars
    BY <1>1, <1>6 DEF vars, tables
<1> QED
    BY <1>2, <1>3, <1>4, <1>5, <1>6, CreateMatched, DeleteMatched, StartMatched,
       CommitMatched, EntitiesMatched
    DEF Next, Serve, Handler, RunJob

\* A user without an entity is always a job's doing, of one that has not ended or
\* has not reported success, and an entity without a user that of one that has.
THEOREM UsersAndEntities == Spec => []UsersMatchEntities
<1>1. Init => JobsApart /\ UsersMatchEntities
    BY DEF Init, NoJob, JobsApart, UsersMatchEntities
<1>2. TypeOK /\ JobsApart /\ UsersMatchEntities /\ [Next]_vars =>
          JobsApart' /\ UsersMatchEntities'
    BY NextMatched DEF Matched
<1> QED
    BY <1>1, <1>2, TypeCorrect, PTL DEF Spec
-----------------------------------------------------------------------------
(* Emails.                                                                  *)

Apart == TypeOK /\ JobsApart /\ FormsApart /\ EmailClashNeedsJob

\* A handler that sets the email of u has found it free, and creates no clash;
\* the emails of everyone else, and what the jobs insert, stay.
LEMMA FreeEmailApart ==
    ASSUME Apart, NEW u \in User, NEW e \in Email \cup {NoEmail}, EmailFree(e, u),
           users' \subseteq users \cup {u}, email' = [email EXCEPT ![u] = e],
           job' = job, u \in users \/ u \notin born
    PROVE  FormsApart' /\ EmailClashNeedsJob'
<1>1. email'[u] = e /\ \A v \in User : v # u => email'[v] = email[v]
    BY DEF Apart, TypeOK
<1>2. \A j \in Job : job[j].pc = "validated" => u \notin job[j].users
    BY DEF Apart, JobsApart, TypeOK
<1>3. \A j \in Job : job[j].users \subseteq User
    BY DEF Apart, TypeOK
<1>4. FormsApart'
  <2> SUFFICES ASSUME NEW j \in Job, job[j].pc = "validated",
                      NEW v \in job[j].users, NEW w \in job[j].users,
                      email'[v] = email'[w]
               PROVE  v = w \/ email'[v] = NoEmail
      BY DEF FormsApart
  <2>1. email'[v] = email[v] /\ email'[w] = email[w]
      BY <1>1, <1>2, <1>3
  <2> QED
      BY <2>1 DEF Apart, FormsApart
<1>5. EmailClashNeedsJob'
  <2> SUFFICES ASSUME NEW v \in users', NEW w \in users', email'[v] = email'[w],
                      v # w, email'[v] # NoEmail
               PROVE  ~SameTable(v, w) /\ \E j \in Job : job[j].users \cap {v, w} # {}
      BY DEF EmailClashNeedsJob, SameTable
  <2>1. v \in User /\ w \in User /\ v \in users \cup {u} /\ w \in users \cup {u}
      BY DEF Apart, TypeOK
  <2>2. CASE v = u
    <3>1. w \in users \ {u} /\ email[w] = e /\ e # NoEmail
        BY <1>1, <2>1, <2>2
    <3> QED
        BY <3>1 DEF EmailFree
  <2>3. CASE w = u
    <3>1. v \in users \ {u} /\ email[v] = e /\ e # NoEmail
        BY <1>1, <2>1, <2>3
    <3> QED
        BY <3>1 DEF EmailFree
  <2>4. CASE v # u /\ w # u
    <3>1. v \in users /\ w \in users /\ email[v] = email[w] /\ email[v] # NoEmail
        BY <1>1, <2>1, <2>4
    <3> QED
        BY <3>1 DEF Apart, EmailClashNeedsJob
  <2> QED
      BY <2>2, <2>3, <2>4
<1> QED
    BY <1>4, <1>5

\* Where no email changes, nobody comes and no job is validated.
LEMMA StillApart ==
    ASSUME Apart, users' \subseteq users, email' = email,
           \A i \in Job : job'[i].users = job[i].users,
           \A i \in Job : job'[i].pc = "validated" => job[i].pc = "validated"
    PROVE  FormsApart' /\ EmailClashNeedsJob'
<1>1. FormsApart'
    BY DEF Apart, FormsApart
<1>2. EmailClashNeedsJob'
  <2> SUFFICES ASSUME NEW v \in users', NEW w \in users', email[v] = email[w],
                      v # w, email[v] # NoEmail
               PROVE  ~SameTable(v, w) /\ \E j \in Job : job'[j].users \cap {v, w} # {}
      BY DEF EmailClashNeedsJob, SameTable
  <2>1. v \in users /\ w \in users
      OBVIOUS
  <2>2. ~SameTable(v, w) /\ \E j \in Job : job[j].users \cap {v, w} # {}
      BY <2>1 DEF Apart, EmailClashNeedsJob
  <2> QED
      BY <2>2
<1> QED
    BY <1>1, <1>2

\* create_user and modify_user.
LEMMA HandlerApart ==
    ASSUME Apart, NEW r \in Request, NEW u \in User, NEW os \in SUBSET Role,
           CreateUser(r, u, os) \/ ModifyUser(r, u, os)
    PROVE  FormsApart' /\ EmailClashNeedsJob'
<1>1. CASE CreateUser(r, u, os)
  <2>1. PICK e \in Email \cup {NoEmail} :
            EmailFree(e, u) /\ email' = [email EXCEPT ![u] = e]
      BY <1>1 DEF CreateUser
  <2> QED
      BY <1>1, <2>1, FreeEmailApart DEF CreateUser
<1>2. CASE ModifyUser(r, u, os)
  <2>1. u \in users /\ users' = users /\ job' = job
      BY <1>2 DEF ModifyUser
  <2>2. \/ email' = email
        \/ \E e \in Email \cup {NoEmail} :
              EmailFree(e, u) /\ email' = [email EXCEPT ![u] = e]
      BY <1>2 DEF ModifyUser
  <2>3. CASE email' = email
      BY <2>1, <2>3, StillApart
  <2>4. CASE \E e \in Email \cup {NoEmail} :
                 EmailFree(e, u) /\ email' = [email EXCEPT ![u] = e]
      BY <2>1, <2>4, FreeEmailApart
  <2> QED
      BY <2>2, <2>3, <2>4
<1> QED
    BY <1>1, <1>2

\* The forms of a new job have emails nobody has checked, of nobody yet.
LEMMA StartApart ==
    ASSUME Apart, NEW r \in Request, NEW j \in Job, NEW us \in SUBSET User,
           StartJob(r, j, us)
    PROVE  FormsApart' /\ EmailClashNeedsJob'
<1>1. /\ users' = users /\ us \cap born = {}
      /\ job[j].users = {}
      /\ job'[j].pc = "pending"
      /\ \A i \in Job : i # j => job'[i] = job[i]
    BY DEF StartJob, Apart, JobsApart, TypeOK
<1>2. \A v \in User \ us : email'[v] = email[v]
    BY DEF StartJob
<1>3. FormsApart'
  <2> SUFFICES ASSUME NEW i \in Job, job'[i].pc = "validated",
                      NEW v \in job'[i].users, NEW w \in job'[i].users,
                      email'[v] = email'[w]
               PROVE  v = w \/ email'[v] = NoEmail
      BY DEF FormsApart
  <2>1. job'[i] = job[i]
      BY <1>1
  <2>2. v \in User \ us /\ w \in User \ us
      BY <1>1, <2>1 DEF Apart, TypeOK
  <2> QED
      BY <1>2, <2>1, <2>2 DEF Apart, FormsApart
<1>4. EmailClashNeedsJob'
  <2> SUFFICES ASSUME NEW v \in users, NEW w \in users, email'[v] = email'[w],
                      v # w, email'[v] # NoEmail
               PROVE  ~SameTable(v, w) /\ \E i \in Job : job'[i].users \cap {v, w} # {}
      BY <1>1 DEF EmailClashNeedsJob, SameTable
  <2>1. v \in User \ us /\ w \in User \ us
      BY <1>1 DEF Apart, TypeOK
  <2>2. ~SameTable(v, w) /\ \E i \in Job : job[i].users \cap {v, w} # {}
      BY <1>2, <2>1 DEF Apart, EmailClashNeedsJob
  <2> QED
      BY <1>1, <2>2
<1> QED
    BY <1>3, <1>4

\* The validation compares the forms with each other.
LEMMA ValidateApart ==
    ASSUME Apart, NEW j \in Job, ValidateJob(j)
    PROVE  FormsApart' /\ EmailClashNeedsJob'
<1>1. /\ users' = users /\ email' = email /\ JobMoves(j, "validated")
      /\ \A u, v \in job[j].users : email[u] = email[v] => u = v \/ email[u] = NoEmail
    BY DEF ValidateJob, tables
<1>2. /\ \A i \in Job : job'[i].users = job[i].users
      /\ \A i \in Job : i # j => job'[i] = job[i]
    BY <1>1, JobMoved DEF Apart
<1>3. FormsApart'
    BY <1>1, <1>2 DEF Apart, FormsApart
<1>4. EmailClashNeedsJob'
    BY <1>1, <1>2 DEF Apart, EmailClashNeedsJob
<1> QED
    BY <1>3, <1>4

\* The first transaction of a job keeps the constraint of each table; a clash
\* across the two it makes has one of its own users.
LEMMA CommitApart ==
    ASSUME Apart, NEW j \in Job, CommitJob(j)
    PROVE  FormsApart' /\ EmailClashNeedsJob'
<1> DEFINE us == job[j].users
<1>1. /\ job[j].pc = "validated" /\ JobMoves(j, "committed")
      /\ users' = users \cup us /\ email' = email
      /\ \A u \in us, v \in users :
             SameTable(u, v) /\ email[u] = email[v] => email[u] = NoEmail
    BY DEF CommitJob
<1>2. /\ job'[j].pc = "committed"
      /\ \A i \in Job : job'[i].users = job[i].users
      /\ \A i \in Job : i # j => job'[i] = job[i]
    BY <1>1, JobMoved DEF Apart
<1>3. \A u, v \in us : email[u] = email[v] => u = v \/ email[u] = NoEmail
    BY <1>1 DEF Apart, FormsApart
<1>4. us = job[j].users
    OBVIOUS
<1> HIDE DEF us
<1>5. FormsApart'
    BY <1>1, <1>2 DEF Apart, FormsApart
<1>6. EmailClashNeedsJob'
  <2> SUFFICES ASSUME NEW v \in users \cup us, NEW w \in users \cup us,
                      email[v] = email[w], v # w, email[v] # NoEmail
               PROVE  ~SameTable(v, w) /\ \E i \in Job : job'[i].users \cap {v, w} # {}
      BY <1>1 DEF EmailClashNeedsJob, SameTable
  <2>1. CASE v \in us
      BY <1>1, <1>2, <1>3, <1>4, <2>1
  <2>2. CASE w \in us
    <3>1. ~SameTable(w, v)
        BY <1>1, <1>3, <2>2
    <3> QED
        BY <1>2, <1>4, <2>2, <3>1 DEF SameTable
  <2>3. CASE v \in users /\ w \in users
      BY <1>2, <2>3 DEF Apart, EmailClashNeedsJob
  <2> QED
      BY <2>1, <2>2, <2>3
<1> QED
    BY <1>5, <1>6

\* Every action keeps emails apart.
LEMMA NextApart ==
    ASSUME Apart, [Next]_vars
    PROVE  FormsApart' /\ EmailClashNeedsJob'
<1>1. ASSUME NEW r \in Request, Authenticate(r) \/ Refuse(r)
      PROVE  FormsApart' /\ EmailClashNeedsJob'
    BY <1>1, StillApart DEF Authenticate, Refuse, tables
<1>2. ASSUME NEW r \in Request, NEW us \in SUBSET User, DeleteUsers(r, us)
      PROVE  FormsApart' /\ EmailClashNeedsJob'
    BY <1>2, StillApart DEF DeleteUsers, remove_records
<1>3. ASSUME NEW j \in Job, EntitiesJob(j) \/ FailJob(j)
      PROVE  FormsApart' /\ EmailClashNeedsJob'
  <2>1. users' = users /\ email' = email
      BY <1>3 DEF EntitiesJob, FailJob, tables
  <2>2. JobMoves(j, "success") \/ JobMoves(j, "error")
      BY <1>3 DEF EntitiesJob, FailJob
  <2>3. /\ \A i \in Job : job'[i].users = job[i].users
        /\ \A i \in Job : i # j => job'[i] = job[i]
        /\ job'[j].pc \in {"success", "error"}
      BY <2>2, JobMoved DEF Apart
  <2>4. \A i \in Job : job'[i].pc = "validated" => job[i].pc = "validated"
      BY <2>3
  <2> QED
      BY <2>1, <2>3, <2>4, StillApart
<1>4. CASE Restart
  <2>1. users' = users /\ email' = email
      BY <1>4 DEF Restart, tables
  <2>2. \A i \in Job : /\ job'[i].users = job[i].users
                       /\ \/ job'[i].pc = job[i].pc
                          \/ job'[i].pc = "lost"
      BY <1>4 DEF Restart, Apart, TypeOK
  <2> QED
      BY <2>1, <2>2, StillApart
<1>5. CASE UNCHANGED vars
    BY <1>5, StillApart DEF vars, tables
<1> QED
    BY <1>1, <1>2, <1>3, <1>4, <1>5, HandlerApart, StartApart, ValidateApart, CommitApart
    DEF Next, Serve, Handler, RunJob

\* Two accounts share an email only across the two tables, and only if a job has
\* made one of them: no interleaving of handlers brings them to it.
THEOREM EmailsStayApart == Spec => []EmailClashNeedsJob
<1>1. Init => JobsApart /\ FormsApart /\ EmailClashNeedsJob /\ UsersMatchEntities
    BY DEF Init, NoJob, JobsApart, FormsApart, EmailClashNeedsJob, UsersMatchEntities
<1>2. TypeOK /\ JobsApart /\ UsersMatchEntities /\ [Next]_vars =>
          JobsApart' /\ UsersMatchEntities'
    BY NextMatched DEF Matched
<1>3. TypeOK /\ JobsApart /\ FormsApart /\ EmailClashNeedsJob /\ [Next]_vars =>
          FormsApart' /\ EmailClashNeedsJob'
    BY NextApart DEF Apart
<1> QED
    BY <1>1, <1>2, <1>3, TypeCorrect, PTL DEF Spec

-----------------------------------------------------------------------------
(* The page: the rows that are selected, in the order of the list.          *)

\* Induction on the natural numbers, for a set.
LEMMA SetInduction ==
    ASSUME NEW T, T \subseteq Nat, 0 \in T, \A n \in T : n + 1 \in T
    PROVE  T = Nat
<1> SUFFICES ASSUME Nat \ T # {} PROVE FALSE
  OBVIOUS
<1>1. PICK x \in Nat \ T : \A y \in Nat \ T : ~(<<y, x>> \in OpToRel(<, Nat))
  <2>1. Nat \ T \subseteq Nat
    OBVIOUS
  <2> HIDE DEF OpToRel
  <2> QED
    BY <2>1, NatLessThanWellFounded, WFMin
<1>2. x # 0 /\ x - 1 \in Nat
  OBVIOUS
<1>3. <<x - 1, x>> \in OpToRel(<, Nat)
  BY <1>2 DEF OpToRel
<1>4. x - 1 \in T
  BY <1>1, <1>2, <1>3
<1>5. x \in T
  BY <1>2, <1>4
<1> QED
  BY <1>5

\* The function of InOrder, up to some account of the list.
UpTo(f, S, m) ==
    f = [n \in 0 .. m |-> IF n = 0 THEN << >>
                          ELSE IF Order[n] \in S THEN Append(f[n - 1], Order[n])
                          ELSE f[n - 1]]

\* There is one.
LEMMA OrderedSoFar == ASSUME NEW S PROVE \A m \in Nat : \E f : UpTo(f, S, m)
<1> DEFINE T == {m \in Nat : \E f : UpTo(f, S, m)}
<1>1. 0 \in T
  <2> DEFINE f == [n \in {0} |-> << >>]
  <2>1. f = [n \in 0 .. 0 |-> IF n = 0 THEN << >>
                              ELSE IF Order[n] \in S THEN Append(f[n - 1], Order[n])
                              ELSE f[n - 1]]
    OBVIOUS
  <2> HIDE DEF f
  <2> QED
    BY <2>1 DEF UpTo
<1>2. \A m \in T : m + 1 \in T
  <2> TAKE m \in T
  <2>1. PICK f : UpTo(f, S, m)
    OBVIOUS
  <2> DEFINE next == IF Order[m + 1] \in S THEN Append(f[m], Order[m + 1]) ELSE f[m]
             g == [n \in 0 .. m + 1 |-> IF n = m + 1 THEN next ELSE f[n]]
             h == [n \in 0 .. m + 1 |-> IF n = 0 THEN << >>
                                        ELSE IF Order[n] \in S THEN Append(g[n - 1], Order[n])
                                        ELSE g[n - 1]]
  <2>2. ASSUME NEW n \in 0 .. m + 1 PROVE g[n] = h[n]
    <3>1. CASE n = m + 1
      <4>1. g[n] = next /\ n # 0 /\ g[n - 1] = f[m]
        BY <3>1
      <4> QED
        BY <3>1, <4>1
    <3>2. CASE n # m + 1
      <4>1. n \in 0 .. m /\ g[n] = f[n] /\ (n # 0 => n - 1 \in 0 .. m + 1 /\ g[n - 1] = f[n - 1])
        BY <3>2
      <4>2. f[n] = IF n = 0 THEN << >>
                   ELSE IF Order[n] \in S THEN Append(f[n - 1], Order[n])
                   ELSE f[n - 1]
        BY <2>1, <4>1 DEF UpTo
      <4> QED
        BY <4>1, <4>2
    <3> QED
      BY <3>1, <3>2
  <2>3. g = h
    BY <2>2
  <2>4. UpTo(g, S, m + 1)
    BY <2>3 DEF UpTo
  <2> QED
    BY <2>4
<1>3. T = Nat
  <2> HIDE DEF T
  <2>1. T \subseteq Nat
    BY DEF T
  <2> QED
    BY <1>1, <1>2, <2>1, SetInduction
<1> QED
  BY <1>3

\* It has accounts of the set only, and so has what is selected.
LEMMA OrderedRows ==
    ASSUME NEW S
    PROVE  InOrder(S) \in Seq(Account) /\ ToSet(InOrder(S)) \subseteq S
<1>0. Order \in Seq(Account) /\ Len(Order) \in Nat /\ \A n \in 1 .. Len(Order) : Order[n] \in Account
  BY PageAssumption
<1> DEFINE f == CHOOSE f : UpTo(f, S, Len(Order))
<1>1. UpTo(f, S, Len(Order))
  BY <1>0, OrderedSoFar
<1>2. InOrder(S) = f[Len(Order)]
  BY DEF InOrder, UpTo
<1> HIDE DEF f
<1> DEFINE Good(s) == s \in Seq(Account) /\ ToSet(s) \subseteq S
           T == {n \in Nat : n <= Len(Order) => Good(f[n])}
<1>3. 0 \in T
  <2>1. f[0] = << >>
    BY <1>0, <1>1 DEF UpTo
  <2>2. Good(f[0])
    BY <2>1 DEF ToSet
  <2> QED
    BY <2>2
<1>4. \A n \in T : n + 1 \in T
  <2> SUFFICES ASSUME NEW n \in T, n + 1 <= Len(Order) PROVE Good(f[n + 1])
    OBVIOUS
  <2>1. n \in Nat /\ Good(f[n])
    BY <1>0
  <2>2. f[n + 1] = IF Order[n + 1] \in S THEN Append(f[n], Order[n + 1]) ELSE f[n]
    <3>1. n + 1 \in 0 .. Len(Order) /\ n + 1 # 0 /\ (n + 1) - 1 = n
      BY <1>0, <2>1
    <3> HIDE DEF T
    <3>2. f[n + 1] = IF n + 1 = 0 THEN << >>
                     ELSE IF Order[n + 1] \in S THEN Append(f[(n + 1) - 1], Order[n + 1])
                     ELSE f[(n + 1) - 1]
      BY <1>1, <3>1 DEF UpTo
    <3> QED
      BY <3>1, <3>2
  <2>3. Order[n + 1] \in Account
    BY <1>0, <2>1
  <2>4. ASSUME Order[n + 1] \in S PROVE Good(Append(f[n], Order[n + 1]))
    BY <2>1, <2>3, <2>4 DEF ToSet
  <2> QED
    BY <2>1, <2>2, <2>4
<1>5. T = Nat
  <2> HIDE DEF T
  <2>1. T \subseteq Nat
    BY DEF T
  <2> QED
    BY <1>3, <1>4, <2>1, SetInduction
<1>6. Good(f[Len(Order)])
  BY <1>0, <1>5
<1> QED
  BY <1>2, <1>6
-----------------------------------------------------------------------------
(* The requests of the page.                                                *)

\* A request: what it was served by is no newer than the database; a change that was
\* served was made; the answer of the last request for the list has what the page was
\* told of; and one for an account is for one, which the modal knows.
RequestFits(r, db, told, uuid) ==
    /\ r \in PageRequest
    /\ \A a \in Account : r.rows[a] <= db[a]
    /\ r.served /\ r.kind \notin {"list", "user"} => \A a \in r.who : db[a] >= Made(r.kind)
    /\ r.kind = "list" /\ r.last /\ r.served => \A a \in Account : told[a] <= r.rows[a]
    /\ r.kind \in {"user", "save"} => \E a \in Account : r.who = {a}
    /\ r.kind \in {"user", "save", "password"} => uuid # NoOne

\* The requests: one change at a time.
RequestsFit(sent, db, told, uuid) ==
    /\ sent \in Seq(PageRequest)
    /\ \A i \in DOMAIN sent : RequestFits(sent[i], db, told, uuid)
    /\ \A i, j \in DOMAIN sent : {sent[i].kind, sent[j].kind} \cap {"list", "user"} = {} => i = j

\* There is room for them, and for what follows a save.
RoomFor(sent) ==
    /\ Len(sent) <= MaxRequests
    /\ (\E i \in DOMAIN sent : sent[i].kind = "save") => Len(sent) < MaxRequests

\* The types of what the operators of the page return.
LEMMA PageTypes ==
    /\ Version \subseteq Nat /\ NoRows \in Rows /\ Account \in Searches
    /\ \A kind : Made(kind) \in {1, 2}
    /\ \A kind, who : kind \in {"list", "user", "delete", "deleteRow", "create", "save", "password"}
            /\ who \subseteq Account => New(kind, who) \in PageRequest
  BY PageAssumption DEF Version, NoRows, Rows, Made, New, PageRequest

\* The answer to a request that was not asked yet has nothing.
LEMMA NewFits ==
    ASSUME NEW db \in Rows, NEW told, NEW uuid, NEW who \in SUBSET Account,
           NEW kind \in {"list", "user", "delete", "deleteRow", "create", "save", "password"},
           kind \in {"user", "save"} => \E a \in Account : who = {a},
           kind \in {"user", "save", "password"} => uuid # NoOne
    PROVE  RequestFits(New(kind, who), db, told, uuid)
<1>1. New(kind, who) \in PageRequest
  BY PageTypes
<1>2. \A a \in Account : New(kind, who).rows[a] = 0 /\ db[a] \in Nat
  BY DEF New, NoRows, Rows, Version
<1>3. ~New(kind, who).served /\ New(kind, who).kind = kind /\ New(kind, who).who = who
  BY DEF New
<1> QED
  BY <1>1, <1>2, <1>3 DEF RequestFits

\* The database and what the modal is for may change under a request.
LEMMA RequestStays ==
    ASSUME NEW db \in Rows, NEW db2 \in Rows, NEW told, NEW uuid, NEW uuid2, NEW r,
           \A a \in Account : db[a] <= db2[a], uuid2 = uuid \/ uuid2 # NoOne,
           RequestFits(r, db, told, uuid)
    PROVE  RequestFits(r, db2, told, uuid2)
<1>1. r \in PageRequest /\ r.rows \in Rows /\ r.who \subseteq Account /\ Made(r.kind) \in Nat
  BY PageTypes DEF RequestFits, PageRequest
<1>2. \A a \in Account : r.rows[a] \in Nat /\ db[a] \in Nat /\ db2[a] \in Nat
  BY <1>1 DEF Rows, Version
<1>3. \A a \in Account : r.rows[a] <= db2[a]
  BY <1>2 DEF RequestFits
<1>4. r.served /\ r.kind \notin {"list", "user"} => \A a \in r.who : db2[a] >= Made(r.kind)
  BY <1>1, <1>2 DEF RequestFits
<1> QED
  BY <1>1, <1>3, <1>4 DEF RequestFits

\* And it may no longer be the last one for the list: then whatever the page was told.
LEMMA RequestSuperseded ==
    ASSUME NEW db, NEW told, NEW told2, NEW uuid, NEW r, NEW last \in BOOLEAN,
           RequestFits(r, db, told, uuid),
           r.kind = "list" => ~last \/ (last = r.last /\ told2 = told)
    PROVE  RequestFits([r EXCEPT !.last = last], db, told2, uuid)
<1> DEFINE q == [r EXCEPT !.last = last]
<1>1. r \in PageRequest
  BY DEF RequestFits
<1>2. /\ q \in PageRequest /\ q.kind = r.kind /\ q.who = r.who /\ q.served = r.served /\ q.rows = r.rows
      /\ q.last = last
  BY <1>1 DEF PageRequest
<1> HIDE DEF q
<1>3. q.kind = "list" /\ q.last /\ q.served => \A a \in Account : told2[a] <= q.rows[a]
  BY <1>2 DEF RequestFits
<1>4. RequestFits(q, db, told2, uuid)
  BY <1>2, <1>3 DEF RequestFits
<1> QED
  BY <1>4 DEF q

\* A request is appended, and one for the list is the last one.
Appended(next, sent, r) ==
    /\ next \in Seq(PageRequest) /\ Len(next) = Len(sent) + 1
    /\ DOMAIN next = 1 .. Len(sent) + 1 /\ DOMAIN sent = 1 .. Len(sent) /\ Len(sent) \in Nat
    /\ next[Len(sent) + 1] = r
    /\ \A i \in 1 .. Len(sent) :
          \E last \in BOOLEAN :
              /\ next[i] = [sent[i] EXCEPT !.last = last]
              /\ next[i].kind = sent[i].kind /\ next[i].who = sent[i].who
              /\ sent[i].kind = "list" => (last <=> sent[i].last /\ r.kind # "list")

LEMMA SentRequests ==
    ASSUME NEW sent \in Seq(PageRequest), NEW r \in PageRequest
    PROVE  Appended(Send(sent, r), sent, r)
<1> DEFINE older(i) == [sent[i] EXCEPT !.last = @ /\ {sent[i].kind, r.kind} # {"list"}]
           old == [i \in DOMAIN sent |-> older(i)]
<1>1. DOMAIN sent = 1 .. Len(sent) /\ Len(sent) \in Nat /\ \A i \in 1 .. Len(sent) : sent[i] \in PageRequest
  OBVIOUS
<1>2. ASSUME NEW i \in 1 .. Len(sent)
      PROVE  \E last \in BOOLEAN :
                /\ older(i) = [sent[i] EXCEPT !.last = last]
                /\ older(i) \in PageRequest
                /\ older(i).kind = sent[i].kind /\ older(i).who = sent[i].who
                /\ sent[i].kind = "list" => (last <=> sent[i].last /\ r.kind # "list")
  <2> DEFINE last == sent[i].last /\ {sent[i].kind, r.kind} # {"list"}
  <2>1. last \in BOOLEAN /\ older(i) = [sent[i] EXCEPT !.last = last]
    BY DEF last
  <2>2. sent[i].kind = "list" => (last <=> sent[i].last /\ r.kind # "list")
    BY DEF last
  <2> HIDE DEF last, older
  <2>3. older(i) \in PageRequest /\ older(i).kind = sent[i].kind /\ older(i).who = sent[i].who
    BY <1>1, <2>1 DEF PageRequest
  <2> QED
    BY <2>1, <2>2, <2>3
<1> HIDE DEF older
<1>3. old \in Seq(PageRequest) /\ Len(old) = Len(sent) /\ \A i \in 1 .. Len(sent) : old[i] = older(i)
  BY <1>1, <1>2
<1>4. Send(sent, r) = Append(old, r)
  BY DEF Send, older
<1> HIDE DEF old
<1>5. /\ Append(old, r) \in Seq(PageRequest) /\ Len(Append(old, r)) = Len(sent) + 1
      /\ DOMAIN Append(old, r) = 1 .. Len(sent) + 1
      /\ Append(old, r)[Len(sent) + 1] = r
      /\ \A i \in 1 .. Len(sent) : Append(old, r)[i] = older(i)
  BY <1>1, <1>3
<1> QED
  BY <1>1, <1>2, <1>4, <1>5 DEF Appended

\* What RemoveAt leaves.
LEMMA RequestRemoved ==
    ASSUME NEW S, NEW s \in Seq(S), NEW i \in 1 .. Len(s)
    PROVE  /\ RemoveAt(s, i) \in Seq(S) /\ Len(RemoveAt(s, i)) = Len(s) - 1
           /\ \A j \in 1 .. Len(s) - 1 : RemoveAt(s, i)[j] = s[IF j < i THEN j ELSE j + 1]
<1> DEFINE a == SubSeq(s, 1, i - 1)
           b == SubSeq(s, i + 1, Len(s))
<1>1. a \in Seq(S) /\ Len(a) = i - 1 /\ \A j \in 1 .. i - 1 : a[j] = s[j]
  OBVIOUS
<1>2. b \in Seq(S) /\ Len(b) = Len(s) - i /\ \A j \in 1 .. Len(s) - i : b[j] = s[i + j]
  OBVIOUS
<1> HIDE DEF a, b
<1>3. /\ a \o b \in Seq(S) /\ Len(a \o b) = Len(s) - 1
      /\ \A j \in 1 .. Len(s) - 1 : (a \o b)[j] = IF j < i THEN a[j] ELSE b[j - (i - 1)]
  <2>1. Len(a) \in Nat /\ Len(b) \in Nat /\ Len(a) + Len(b) = Len(s) - 1
    BY <1>1, <1>2
  <2>2. /\ a \o b \in Seq(S) /\ Len(a \o b) = Len(a) + Len(b)
        /\ \A j \in 1 .. Len(a) + Len(b) : (a \o b)[j] = IF j <= Len(a) THEN a[j] ELSE b[j - Len(a)]
    BY <1>1, <1>2, ConcatProperties
  <2> QED
    BY <1>1, <2>1, <2>2
<1>4. \A j \in 1 .. Len(s) - 1 : (a \o b)[j] = s[IF j < i THEN j ELSE j + 1]
  BY <1>1, <1>2, <1>3
<1> QED
  BY <1>3, <1>4 DEF a, b, RemoveAt

\* What is sent fits when it is the only change.  One for the list fits whatever the page
\* has been told meanwhile.
LEMMA SentFit ==
    ASSUME NEW sent, NEW db, NEW told, NEW told2, NEW uuid, NEW r,
           RequestsFit(sent, db, told, uuid), RequestFits(r, db, told2, uuid),
           told2 = told \/ r.kind = "list",
           r.kind \in {"list", "user"} \/ \A i \in DOMAIN sent : sent[i].kind \in {"list", "user"}
    PROVE  /\ RequestsFit(Send(sent, r), db, told2, uuid)
           /\ Len(sent) \in Nat /\ Len(Send(sent, r)) = Len(sent) + 1
           /\ (\E i \in DOMAIN Send(sent, r) : Send(sent, r)[i].kind = "save") =>
                  r.kind = "save" \/ \E i \in DOMAIN sent : sent[i].kind = "save"
           /\ \A who \in Deletions(Send(sent, r)) :
                  who \in Deletions(sent) \/ (r.kind = "delete" /\ who = r.who)
<1> DEFINE next == Send(sent, r)
<1>1. sent \in Seq(PageRequest) /\ r \in PageRequest
  BY DEF RequestsFit, RequestFits
<1>2. Appended(next, sent, r)
  BY <1>1, SentRequests
<1>3. /\ next \in Seq(PageRequest) /\ Len(next) = Len(sent) + 1
      /\ DOMAIN next = 1 .. Len(sent) + 1 /\ DOMAIN sent = 1 .. Len(sent) /\ Len(sent) \in Nat
      /\ next[Len(sent) + 1] = r
      /\ \A i \in 1 .. Len(sent) :
            \E last \in BOOLEAN :
                /\ next[i] = [sent[i] EXCEPT !.last = last]
                /\ next[i].kind = sent[i].kind /\ next[i].who = sent[i].who
                /\ sent[i].kind = "list" => (last <=> sent[i].last /\ r.kind # "list")
  BY <1>2, Zenon DEF Appended
<1> HIDE DEF next
<1>4. \A i \in DOMAIN next : i \in DOMAIN sent \/ i = Len(sent) + 1
  BY <1>3
<1>5. ASSUME NEW i \in DOMAIN next PROVE RequestFits(next[i], db, told2, uuid)
  <2>1. CASE i = Len(sent) + 1
    BY <1>3, <2>1
  <2>2. CASE i \in DOMAIN sent
    <3>1. PICK last \in BOOLEAN :
            /\ next[i] = [sent[i] EXCEPT !.last = last]
            /\ sent[i].kind = "list" => (last <=> sent[i].last /\ r.kind # "list")
      BY <1>3, <2>2
    <3>2. RequestFits(sent[i], db, told, uuid) /\ sent[i] \in PageRequest
      BY <2>2 DEF RequestsFit, RequestFits
    <3>3. sent[i].kind = "list" => ~last \/ (last = sent[i].last /\ told2 = told)
      <4>1. sent[i].last \in BOOLEAN
        BY <3>2 DEF PageRequest
      <4> QED
        BY <3>1, <4>1
    <3>4. RequestFits([sent[i] EXCEPT !.last = last], db, told2, uuid)
      BY <3>2, <3>3, RequestSuperseded
    <3> QED
      BY <3>1, <3>4
  <2> QED
    BY <1>4, <2>1, <2>2
<1>6. ASSUME NEW i \in DOMAIN sent
      PROVE  i \in DOMAIN next /\ next[i].kind = sent[i].kind /\ next[i].who = sent[i].who
  <2>1. i \in 1 .. Len(sent) /\ i \in DOMAIN next
    BY <1>3
  <2> QED
    BY <1>3, <2>1, Zenon
<1>7. \A i, j \in DOMAIN next : {next[i].kind, next[j].kind} \cap {"list", "user"} = {} => i = j
  <2> SUFFICES ASSUME NEW i \in DOMAIN next, NEW j \in DOMAIN next,
                      next[i].kind \notin {"list", "user"}, next[j].kind \notin {"list", "user"}
               PROVE  i = j
    OBVIOUS
  <2>1. CASE i \in DOMAIN sent /\ j \in DOMAIN sent
    <3>1. {sent[i].kind, sent[j].kind} \cap {"list", "user"} = {}
      BY <1>6, <2>1
    <3> QED
      BY <2>1, <3>1 DEF RequestsFit
  <2>2. CASE i = Len(sent) + 1 /\ j \in DOMAIN sent
    BY <1>3, <1>6, <2>2
  <2>3. CASE j = Len(sent) + 1 /\ i \in DOMAIN sent
    BY <1>3, <1>6, <2>3
  <2> QED
    BY <1>4, <2>1, <2>2, <2>3
<1>8. RequestsFit(next, db, told2, uuid)
  BY <1>3, <1>5, <1>7 DEF RequestsFit
<1>9. (\E i \in DOMAIN next : next[i].kind = "save") => r.kind = "save" \/ \E i \in DOMAIN sent : sent[i].kind = "save"
  BY <1>3, <1>4, <1>6
<1>10. \A who \in Deletions(next) : who \in Deletions(sent) \/ (r.kind = "delete" /\ who = r.who)
  <2> TAKE who \in Deletions(next)
  <2>1. PICK i \in DOMAIN next : next[i].kind = "delete" /\ who = next[i].who
    BY DEF Deletions
  <2> QED
    BY <1>3, <1>4, <1>6, <2>1 DEF Deletions
<1> QED
  BY <1>3, <1>8, <1>9, <1>10 DEF next

\* An answered request goes, and the others stay.
LEMMA OthersFit ==
    ASSUME NEW db, NEW told, NEW uuid, RequestsFit(requests, db, told, uuid), NEW i \in DOMAIN requests
    PROVE  /\ RequestsFit(Others(i), db, told, uuid)
           /\ Len(requests) \in Nat \ {0} /\ Len(Others(i)) = Len(requests) - 1
           /\ \A j \in DOMAIN Others(i) : \E k \in DOMAIN requests \ {i} : Others(i)[j] = requests[k]
           /\ Deletions(Others(i)) \subseteq Deletions(requests)
<1> DEFINE rest == Others(i)
           from(j) == IF j < i THEN j ELSE j + 1
<1>1. /\ requests \in Seq(PageRequest) /\ i \in 1 .. Len(requests) /\ DOMAIN requests = 1 .. Len(requests)
      /\ Len(requests) \in Nat \ {0} /\ i \in Int
  BY DEF RequestsFit
<1>2. /\ rest \in Seq(PageRequest) /\ Len(rest) = Len(requests) - 1
      /\ \A j \in 1 .. Len(requests) - 1 : rest[j] = requests[IF j < i THEN j ELSE j + 1]
  BY <1>1, RequestRemoved DEF Others
<1>3. DOMAIN rest = 1 .. Len(requests) - 1
  BY <1>1, <1>2
<1> HIDE DEF rest
<1>4. \A j \in DOMAIN rest : from(j) \in DOMAIN requests \ {i} /\ rest[j] = requests[from(j)]
  BY <1>1, <1>2, <1>3
<1>5. \A j, k \in DOMAIN rest : from(j) = from(k) => j = k
  BY <1>1, <1>3
<1> HIDE DEF from
<1>6. \A j \in DOMAIN rest : RequestFits(rest[j], db, told, uuid)
  BY <1>4 DEF RequestsFit
<1>7. \A j, k \in DOMAIN rest : {rest[j].kind, rest[k].kind} \cap {"list", "user"} = {} => j = k
  BY <1>4, <1>5 DEF RequestsFit
<1>8. Deletions(rest) \subseteq Deletions(requests)
  BY <1>4 DEF Deletions
<1> QED
  BY <1>1, <1>2, <1>4, <1>6, <1>7, <1>8 DEF RequestsFit, rest

\* A request with what it was served by.
Served(r, rows) == [r EXCEPT !.served = TRUE, !.rows = rows]

\* One that is served has what it asked for, and a change is made.
LEMMA ServedFit ==
    ASSUME NEW db \in Rows, NEW db2 \in Rows, NEW told, NEW uuid,
           NEW i \in DOMAIN requests, RequestsFit(requests, db, told, uuid),
           \A a \in Account : db[a] <= db2[a] /\ told[a] <= db[a],
           NEW rows, rows = (IF requests[i].kind = "list" THEN db ELSE NoRows),
           requests[i].kind \notin {"list", "user"} => \A a \in requests[i].who : db2[a] >= Made(requests[i].kind),
           requests' = [requests EXCEPT ![i] = Served(requests[i], rows)]
    PROVE  /\ RequestsFit(requests', db2, told, uuid)
           /\ Len(requests') = Len(requests) /\ DOMAIN requests' = DOMAIN requests
           /\ \A j \in DOMAIN requests : requests'[j].kind = requests[j].kind /\ requests'[j].who = requests[j].who
<1> DEFINE q == Served(requests[i], rows)
<1>1. requests \in Seq(PageRequest) /\ requests[i] \in PageRequest /\ RequestFits(requests[i], db, told, uuid)
  BY DEF RequestsFit, RequestFits
<1>2. rows \in Rows /\ \A a \in Account : rows[a] <= db2[a]
  BY PageTypes DEF Rows, Version, NoRows
<1>3. /\ q \in PageRequest /\ q.kind = requests[i].kind /\ q.who = requests[i].who /\ q.rows = rows
  BY <1>1, <1>2 DEF PageRequest, Served
<1> HIDE DEF q
<1>4. q.kind = "list" => \A a \in Account : told[a] <= q.rows[a]
  BY <1>3
<1>5. RequestFits(q, db2, told, uuid)
  BY <1>1, <1>2, <1>3, <1>4 DEF RequestFits
<1>6. requests' = [requests EXCEPT ![i] = q]
  BY DEF q
<1>7. /\ requests' \in Seq(PageRequest) /\ Len(requests') = Len(requests) /\ DOMAIN requests' = DOMAIN requests
      /\ \A j \in DOMAIN requests : requests'[j] = IF j = i THEN q ELSE requests[j]
  BY <1>1, <1>3, <1>6
<1>8. \A j \in DOMAIN requests : RequestFits(requests[j], db2, told, uuid)
  BY RequestStays DEF RequestsFit
<1>9. \A j \in DOMAIN requests : requests'[j].kind = requests[j].kind /\ requests'[j].who = requests[j].who
  BY <1>3, <1>7
<1>10. \A j \in DOMAIN requests' : RequestFits(requests'[j], db2, told, uuid)
  BY <1>5, <1>7, <1>8
<1>11. \A j, k \in DOMAIN requests' : {requests'[j].kind, requests'[k].kind} \cap {"list", "user"} = {} => j = k
  BY <1>7, <1>9 DEF RequestsFit
<1> QED
  BY <1>7, <1>9, <1>10, <1>11 DEF RequestsFit

\* Those that are not answered stay, whatever else changes.
LEMMA RequestsStay ==
    ASSUME NEW sent, NEW db \in Rows, NEW db2 \in Rows, NEW told, NEW uuid, NEW uuid2,
           \A a \in Account : db[a] <= db2[a], uuid2 = uuid \/ uuid2 # NoOne,
           RequestsFit(sent, db, told, uuid)
    PROVE  RequestsFit(sent, db2, told, uuid2)
  BY RequestStays DEF RequestsFit

\* The user starts a request when there is room.
LEMMA RoomLeft ==
    ASSUME requests \in Seq(PageRequest), NEW n \in Nat, Room(n)
    PROVE  /\ Len(requests) + n <= MaxRequests
           /\ (\E i \in DOMAIN requests : requests[i].kind = "save") => Len(requests) + n < MaxRequests
<1> DEFINE saves == {i \in DOMAIN requests : requests[i].kind = "save"}
<1>1. Len(requests) \in Nat /\ MaxRequests \in Nat /\ DOMAIN requests = 1 .. Len(requests)
  BY PageAssumption
<1>2. IsFiniteSet(DOMAIN requests)
  BY <1>1, FS_Interval
<1>3. IsFiniteSet(saves)
  BY <1>2, FS_Subset
<1>4. Cardinality(saves) \in Nat /\ (Cardinality(saves) = 0 <=> saves = {})
  BY <1>3, FS_CardinalityType, FS_EmptySet
<1>5. Len(requests) + Cardinality(saves) + n <= MaxRequests
  BY DEF Room
<1>6. (\E i \in DOMAIN requests : requests[i].kind = "save") => saves # {}
  OBVIOUS
<1> HIDE DEF saves
<1> QED
  BY <1>1, <1>4, <1>5, <1>6

-----------------------------------------------------------------------------
(* The invariant of the page.                                               *)

\* The rows and what the page was told are no newer than the database.
ListFits ==
    /\ server \in Rows /\ mine \in Rows /\ latest \in BOOLEAN
    /\ list \in [shown : BOOLEAN, rows : Rows] /\ (~list.shown => list.rows = NoRows)
    /\ \A a \in Account : mine[a] <= server[a] /\ list.rows[a] <= server[a]
    /\ ShowsItsChanges

\* What the button of the table deletes was selected.
TableFits ==
    /\ selection \subseteq Account /\ filter \in Searches
    /\ uuids \in Seq(Account) /\ chosen \subseteq Account /\ \A a \in chosen : server[a] > 0
    /\ ToSet(uuids) \subseteq chosen

\* A modal that is open, or has an account, is for one.
ModalFits ==
    /\ confirm \in {"none", "selected"} \cup Account
    /\ modal \in [opened : BOOLEAN, edit : BOOLEAN, password : BOOLEAN, uuid : Account \cup {NoOne}]
    /\ user \in Account \cup {NoOne}
    /\ modal.opened \/ modal.password \/ user # NoOne => modal.uuid # NoOne

\* The requests fit, with room for what follows them.
Sent == RequestsFit(requests, server, mine, modal.uuid) /\ RoomFor(requests)

\* The inductive invariant.
PageInv == ListFits /\ TableFits /\ ModalFits /\ Sent

\* It has the types.
LEMMA PageInvTypes == PageInv => PageTypeOK
  BY DEF PageInv, ListFits, TableFits, ModalFits, Sent, RequestsFit, RoomFor, PageTypeOK

\* What a step newly asks to delete was chosen.
DeletesChosen == \A who \in Deletions(requests') \ Deletions(requests) : who \subseteq chosen

\* It holds when the page is opened.
LEMMA PageStarts == ASSUME PageInit PROVE PageInv
<1>1. server \in Rows /\ mine = NoRows /\ list = NoList
  BY DEF PageInit, Rows, Version
<1>2. ListFits
  <2>1. NoRows \in Rows /\ latest = FALSE
    BY PageTypes DEF PageInit
  <2>2. list \in [shown : BOOLEAN, rows : Rows] /\ ~list.shown /\ list.rows = NoRows
    BY <1>1, <2>1 DEF NoList
  <2>3. \A a \in Account : NoRows[a] = 0 /\ server[a] >= 0
    BY <1>1 DEF NoRows, Rows, Version
  <2> QED
    BY <1>1, <2>1, <2>2, <2>3 DEF ListFits, ShowsItsChanges
<1>3. TableFits
  BY PageTypes DEF PageInit, TableFits, ToSet
<1>4. ModalFits
  BY DEF PageInit, ModalFits
<1>5. Sent
  <2>1. requests = <<New("list", {})>> /\ RequestFits(New("list", {}), server, mine, modal.uuid)
    BY <1>1, NewFits DEF PageInit
  <2>2. New("list", {}).kind = "list" /\ New("list", {}) \in PageRequest
    BY <2>1 DEF New, RequestFits
  <2>3. /\ requests \in Seq(PageRequest) /\ Len(requests) = 1 /\ DOMAIN requests = {1} /\ requests[1] = New("list", {})
    BY <2>1, <2>2
  <2>4. RequestsFit(requests, server, mine, modal.uuid)
    BY <2>1, <2>2, <2>3 DEF RequestsFit
  <2>5. RoomFor(requests)
    BY <2>2, <2>3, PageAssumption DEF RoomFor
  <2> QED
    BY <2>4, <2>5 DEF Sent
<1> QED
  BY <1>2, <1>3, <1>4, <1>5 DEF PageInv

\* What a step leaves alone.
LEMMA ListStays == ASSUME ListFits, UNCHANGED <<server, list, mine, latest>> PROVE ListFits'
  BY DEF ListFits, ShowsItsChanges

\* The same of the table.
LEMMA TableStays == ASSUME TableFits, UNCHANGED <<server, table>> PROVE TableFits'
  BY DEF TableFits, table

\* The same of the modals.
LEMMA ModalStays == ASSUME ModalFits, UNCHANGED <<confirm, modal, user>> PROVE ModalFits'
  BY DEF ModalFits

\* The same of the requests, for which the modal may be for another account.
LEMMA SentStay ==
    ASSUME Sent, ListFits, UNCHANGED <<server, requests, mine>>, modal'.uuid = modal.uuid \/ modal'.uuid # NoOne
    PROVE  Sent' /\ DeletesChosen
<1>1. server \in Rows /\ \A a \in Account : server[a] <= server[a]
  BY DEF ListFits, Rows, Version
<1>2. RequestsFit(requests, server, mine, modal'.uuid)
  BY <1>1, RequestsStay DEF Sent
<1> QED
  BY <1>2 DEF Sent, RoomFor, DeletesChosen

\* What is selected and listed are accounts that there were.
LEMMA SelectedAreListed ==
    ASSUME ListFits', selection' \subseteq Account
    PROVE  /\ SelectedRows \in Seq(Account) /\ ToSet(SelectedRows) \subseteq Account
           /\ \A a \in ToSet(SelectedRows) : server'[a] > 0
<1> DEFINE S == {a \in selection' : list'.rows[a] = 1}
<1>1. SelectedRows \in Seq(Account) /\ ToSet(SelectedRows) \subseteq S
  BY OrderedRows DEF SelectedRows
<1>2. \A a \in S : a \in Account /\ server'[a] > 0
  BY DEF ListFits, Rows, Version
<1> QED
  BY <1>1, <1>2

\* The page renders: the modals of the controls get just that.
LEMMA PageRendered ==
    ASSUME ListFits', selection' \subseteq Account, filter' \in Searches, PageRenders
    PROVE  TableFits'
  BY SelectedAreListed DEF PageRenders, TableFits

\* The table renders: it is merged into what they had.
LEMMA TableRendered ==
    ASSUME ListFits', selection' \subseteq Account, filter' \in Searches, TableFits, server' = server, TableRenders
    PROVE  TableFits'
<1> DEFINE new == SelectedRows
<1>1. /\ new \in Seq(Account) /\ ToSet(new) \subseteq Account /\ \A a \in ToSet(new) : server'[a] > 0
  BY SelectedAreListed
<1>2. uuids' = Merge(uuids, new) /\ chosen' = chosen \cup ToSet(new)
  BY DEF TableRenders
<1> HIDE DEF new
<1>3. uuids \in Seq(Account) /\ ToSet(uuids) \subseteq chosen /\ chosen \subseteq Account
  BY DEF TableFits
<1>4. Len(uuids) \in Nat /\ Len(new) \in Nat
  BY <1>1, <1>3
<1> DEFINE n == IF Len(uuids) > Len(new) THEN Len(uuids) ELSE Len(new)
           m == Merge(uuids, new)
<1>5. /\ m = [i \in 1 .. n |-> IF i <= Len(new) THEN new[i] ELSE uuids[i]] /\ n \in Nat
  BY <1>4 DEF Merge
<1> HIDE DEF m
<1>6. \A i \in 1 .. n : m[i] \in ToSet(uuids) \cup ToSet(new)
  <2> TAKE i \in 1 .. n
  <2>1. CASE i <= Len(new)
    <3>1. i \in DOMAIN new /\ m[i] = new[i]
      BY <1>1, <1>4, <1>5, <2>1
    <3> QED
      BY <3>1 DEF ToSet
  <2>2. CASE ~(i <= Len(new))
    <3>1. i \in DOMAIN uuids /\ m[i] = uuids[i]
      BY <1>3, <1>4, <1>5, <2>2
    <3> QED
      BY <3>1 DEF ToSet
  <2> QED
    BY <2>1, <2>2
<1> HIDE DEF n
<1>7. m \in Seq(Account) /\ DOMAIN m = 1 .. n
  BY <1>1, <1>3, <1>5, <1>6
<1>8. ToSet(m) \subseteq ToSet(uuids) \cup ToSet(new)
  BY <1>6, <1>7 DEF ToSet
<1> QED
  BY <1>1, <1>2, <1>3, <1>7, <1>8 DEF TableFits, m

-----------------------------------------------------------------------------
(* The steps of the user on the page.                                       *)

\* The page renders, and there is no more to it than a modal that is closed or turned.
LEMMA Rendering ==
    ASSUME PageInv, ContextChanges \/ CloseAccount \/ Edit \/ CancelEdit \/ ClosePassword
    PROVE  PageInv' /\ DeletesChosen
<1>1. /\ UNCHANGED <<server, requests, list, selection, filter, confirm, user, mine, latest>> /\ PageRenders
      /\ ModalFits'
  <2>1. CASE ContextChanges
    BY <2>1 DEF PageInv, ContextChanges, ModalFits
  <2>2. CASE CloseAccount
    BY <2>2 DEF PageInv, CloseAccount, ModalFits
  <2>3. CASE Edit \/ CancelEdit
    BY <2>3 DEF PageInv, Edit, CancelEdit, Toggle, ModalFits
  <2>4. CASE ClosePassword
    BY <2>4 DEF PageInv, ClosePassword, ModalFits
  <2> QED
    BY <2>1, <2>2, <2>3, <2>4
<1>2. modal'.uuid = modal.uuid
  BY DEF PageInv, ModalFits, ContextChanges, CloseAccount, Edit, CancelEdit, Toggle, ClosePassword
<1>3. ListFits'
  BY <1>1, ListStays DEF PageInv
<1>4. TableFits'
  BY <1>1, <1>3, PageRendered DEF PageInv, TableFits
<1>5. Sent' /\ DeletesChosen
  BY <1>1, <1>2, SentStay DEF PageInv
<1> QED
  BY <1>1, <1>3, <1>4, <1>5 DEF PageInv

\* The selection and the search: only the table renders.
LEMMA Selecting ==
    ASSUME PageInv, ToggleAll \/ (\E a \in Account : ToggleRow(a)) \/ (\E matching \in Searches : Search(matching))
    PROVE  PageInv' /\ DeletesChosen
<1>1. Visible \subseteq Account
  BY PageAssumption DEF Visible, PageInv, TableFits
<1>2. filter' \in Searches /\ \E new \in SUBSET Account : Select(new)
  <2>1. CASE ToggleAll
    BY <1>1, <2>1 DEF PageInv, TableFits, ToggleAll
  <2>2. CASE \E a \in Account : ToggleRow(a)
    BY <1>1, <2>2 DEF PageInv, TableFits, ToggleRow
  <2>3. CASE \E matching \in Searches : Search(matching)
    BY <1>1, <2>3 DEF PageInv, TableFits, Search
  <2> QED
    BY <2>1, <2>2, <2>3
<1>3. /\ UNCHANGED <<server, requests, list, confirm, modal, user, mine, latest>> /\ TableRenders
      /\ selection' \subseteq Account
  BY <1>2 DEF Select
<1>4. ListFits' /\ ModalFits'
  BY <1>3, ListStays, ModalStays DEF PageInv
<1>5. TableFits'
  BY <1>2, <1>3, <1>4, TableRendered DEF PageInv
<1>6. Sent' /\ DeletesChosen
  BY <1>3, SentStay DEF PageInv
<1> QED
  BY <1>4, <1>5, <1>6 DEF PageInv

\* The modal of a deletion.
LEMMA Confirming ==
    ASSUME PageInv, OpenDelete \/ CancelDelete \/ \E a \in Account : OpenRowDelete(a)
    PROVE  PageInv' /\ DeletesChosen
<1>1. /\ UNCHANGED <<server, requests, list, table, modal, user, mine, latest>>
      /\ confirm' \in {"none", "selected"} \cup Account
  BY DEF OpenDelete, CancelDelete, OpenRowDelete
<1>2. ListFits' /\ TableFits'
  BY <1>1, ListStays, TableStays DEF PageInv
<1>3. ModalFits'
  BY <1>1 DEF PageInv, ModalFits
<1>4. Sent' /\ DeletesChosen
  BY <1>1, SentStay DEF PageInv
<1> QED
  BY <1>2, <1>3, <1>4 DEF PageInv

\* A request of the user.
LEMMA Requesting ==
    ASSUME PageInv, NEW kind \in {"user", "delete", "deleteRow", "create", "save", "password"},
           NEW who \in SUBSET Account,
           UNCHANGED <<server, mine>>,
           requests' = Send(requests, New(kind, who)),
           kind = "user" \/ NoChange,
           Room(IF kind = "save" THEN 2 ELSE 1),
           kind \in {"user", "save"} => \E a \in Account : who = {a},
           modal'.uuid = modal.uuid \/ modal'.uuid # NoOne,
           kind \in {"user", "save", "password"} => modal'.uuid # NoOne,
           kind = "delete" => who \subseteq chosen
    PROVE  Sent' /\ DeletesChosen
<1> DEFINE r == New(kind, who)
<1>1. RequestFits(r, server, mine, modal'.uuid)
  BY NewFits DEF PageInv, ListFits
<1>2. r.kind = kind /\ r.who = who
  BY DEF New
<1> HIDE DEF r
<1>3. RequestsFit(requests, server, mine, modal'.uuid)
  <2>1. server \in Rows /\ \A a \in Account : server[a] <= server[a]
    BY DEF PageInv, ListFits, Rows, Version
  <2> QED
    BY <2>1, RequestsStay DEF PageInv, Sent
<1>4. r.kind \in {"list", "user"} \/ \A i \in DOMAIN requests : requests[i].kind \in {"list", "user"}
  BY <1>2 DEF NoChange
<1>5. /\ RequestsFit(requests', server, mine, modal'.uuid)
      /\ Len(requests) \in Nat /\ Len(requests') = Len(requests) + 1
      /\ (\E i \in DOMAIN requests' : requests'[i].kind = "save") =>
             r.kind = "save" \/ \E i \in DOMAIN requests : requests[i].kind = "save"
      /\ \A w \in Deletions(requests') : w \in Deletions(requests) \/ (r.kind = "delete" /\ w = r.who)
  <2>1. requests' = Send(requests, r)
    BY DEF r
  <2> QED
    BY <1>1, <1>3, <1>4, <2>1, SentFit
<1>6. requests \in Seq(PageRequest) /\ MaxRequests \in Nat
  BY PageAssumption DEF PageInv, Sent, RequestsFit
<1>7. CASE kind = "save"
  <2>1. Len(requests) + 2 <= MaxRequests
    BY <1>6, <1>7, RoomLeft
  <2>2. RoomFor(requests')
    BY <1>5, <1>6, <2>1 DEF RoomFor
  <2> QED
    BY <1>2, <1>5, <2>2 DEF Sent, DeletesChosen
<1>8. CASE kind # "save"
  <2>1. /\ Len(requests) + 1 <= MaxRequests
        /\ (\E i \in DOMAIN requests : requests[i].kind = "save") => Len(requests) + 1 < MaxRequests
    BY <1>6, <1>8, RoomLeft
  <2>2. RoomFor(requests')
    BY <1>2, <1>5, <1>6, <1>8, <2>1 DEF RoomFor
  <2> QED
    BY <1>2, <1>5, <2>2 DEF Sent, DeletesChosen
<1> QED
  BY <1>7, <1>8

\* The changes the user may ask for.
LEMMA Changing ==
    ASSUME PageInv, ConfirmDelete \/ Save \/ ChangePassword \/ \E a \in Account : Create(a)
    PROVE  PageInv' /\ DeletesChosen
<1>1. UNCHANGED <<server, list, table, confirm, modal, user, mine, latest>>
  BY DEF ConfirmDelete, Save, ChangePassword, Create
<1>2. ListFits' /\ TableFits' /\ ModalFits'
  BY <1>1, ListStays, TableStays, ModalStays DEF PageInv
<1>3. ModalFits /\ ToSet(uuids) \subseteq chosen /\ ToSet(uuids) \in SUBSET Account
  BY DEF PageInv, TableFits, ToSet
<1>4. Sent' /\ DeletesChosen
  <2>1. CASE ConfirmDelete /\ confirm = "selected"
    BY <1>1, <1>3, <2>1, Requesting DEF ConfirmDelete
  <2>2. CASE ConfirmDelete /\ confirm # "selected"
    <3>1. {confirm} \in SUBSET Account
      BY <1>3, <2>2 DEF ConfirmDelete, ModalFits
    <3> QED
      BY <1>1, <2>2, <3>1, Requesting DEF ConfirmDelete
  <2>3. CASE Save
    <3>1. user \in Account /\ modal.uuid # NoOne
      BY <1>3, <2>3 DEF Save, Editing, ModalFits
    <3> QED
      BY <1>1, <2>3, <3>1, Requesting DEF Save
  <2>4. CASE ChangePassword
    <3>1. modal.uuid \in Account /\ modal.uuid # NoOne
      BY <1>3, <2>4 DEF ChangePassword, ModalFits
    <3> QED
      BY <1>1, <2>4, <3>1, Requesting DEF ChangePassword
  <2>5. CASE \E a \in Account : Create(a)
    <3>1. PICK a \in Account : Create(a)
      BY <2>5
    <3> QED
      BY <1>1, <3>1, Requesting DEF Create
  <2> QED
    BY <2>1, <2>2, <2>3, <2>4, <2>5
<1> QED
  BY <1>2, <1>4 DEF PageInv

\* The modal is opened for an account, and asks for it when it is another one.
LEMMA Showing ==
    ASSUME PageInv, NEW a \in Account,
           OpenPassword(a) \/ \E edit \in BOOLEAN : OpenAccount(a, edit)
    PROVE  PageInv' /\ DeletesChosen
<1>0. a # NoOne
  BY PageAssumption
<1>1. Show(a) /\ modal' \in [opened : BOOLEAN, edit : BOOLEAN, password : BOOLEAN, uuid : Account \cup {NoOne}] /\ modal'.uuid = a
  BY DEF PageInv, ModalFits, OpenPassword, OpenAccount
<1>2. UNCHANGED <<server, list, selection, filter, confirm, mine, latest>> /\ PageRenders
  BY <1>1 DEF Show
<1>3. ListFits'
  BY <1>2, ListStays DEF PageInv
<1>4. TableFits'
  BY <1>2, <1>3, PageRendered DEF PageInv, TableFits
<1>5. user' \in Account \cup {NoOne}
  BY <1>1 DEF Show, PageInv, ModalFits
<1>6. ModalFits'
  BY <1>0, <1>1, <1>2, <1>5 DEF PageInv, ModalFits
<1>7. Sent' /\ DeletesChosen
  <2>1. CASE a = modal.uuid
    BY <1>0, <1>1, <1>2, <2>1, SentStay DEF Show, PageInv
  <2>2. CASE a # modal.uuid
    BY <1>0, <1>1, <1>2, <2>2, Requesting DEF Show
  <2> QED
    BY <2>1, <2>2
<1> QED
  BY <1>3, <1>4, <1>6, <1>7 DEF PageInv

-----------------------------------------------------------------------------
(* What the API does meanwhile.                                             *)

\* A request is served: the database only grows, and no list has more than it.
LEMMA Serving ==
    ASSUME PageInv, NEW i \in DOMAIN requests, ServeRequest(i)
    PROVE  PageInv' /\ DeletesChosen
<1> DEFINE rows == IF requests[i].kind = "list" THEN server ELSE NoRows
<1>1. /\ requests' = [requests EXCEPT ![i] = Served(requests[i], rows)]
      /\ UNCHANGED page
  BY DEF ServeRequest, Served
<1>2. requests[i].kind = "list" => rows = server
  OBVIOUS
<1>3. server \in Rows /\ (\A a \in Account : server[a] \in Nat /\ mine[a] <= server[a])
  BY DEF PageInv, ListFits, Rows, Version
<1>4. requests[i].who \subseteq Account /\ Made(requests[i].kind) \in {1, 2}
  <2>1. requests[i] \in PageRequest
    BY DEF PageInv, Sent, RequestsFit, RequestFits
  <2> QED
    BY <2>1, PageTypes DEF PageRequest
<1>5. /\ server' \in Rows /\ \A a \in Account : server[a] <= server'[a] /\ server'[a] \in Nat
      /\ requests[i].kind \notin {"list", "user"} => \A a \in requests[i].who : server'[a] >= Made(requests[i].kind)
  <2>1. CASE requests[i].kind \in {"list", "user"}
    BY <1>3, <2>1 DEF ServeRequest
  <2>2. CASE requests[i].kind \notin {"list", "user"}
    <3>1. server' = [a \in Account |-> IF a \in requests[i].who /\ server[a] < Made(requests[i].kind)
                                       THEN Made(requests[i].kind) ELSE server[a]]
      BY <2>2 DEF ServeRequest
    <3>2. server' \in Rows
      BY <1>3, <1>4, <3>1 DEF Rows, Version
    <3> QED
      BY <1>3, <1>4, <3>1, <3>2
  <2> QED
    BY <2>1, <2>2
<1> HIDE DEF rows
<1>6. /\ RequestsFit(requests', server', mine, modal.uuid)
      /\ Len(requests') = Len(requests) /\ DOMAIN requests' = DOMAIN requests
      /\ \A j \in DOMAIN requests : requests'[j].kind = requests[j].kind /\ requests'[j].who = requests[j].who
  <2>1. RequestsFit(requests, server, mine, modal.uuid)
    BY DEF PageInv, Sent
  <2>2. rows = IF requests[i].kind = "list" THEN server ELSE NoRows
    BY DEF rows
  <2>3. server \in Rows /\ server' \in Rows
    BY <1>3, <1>5
  <2>4. \A a \in Account : server[a] <= server'[a] /\ mine[a] <= server[a]
    BY <1>3, <1>5
  <2>5. requests[i].kind \notin {"list", "user"} => \A a \in requests[i].who : server'[a] >= Made(requests[i].kind)
    BY <1>5
  <2>6. requests' = [requests EXCEPT ![i] = Served(requests[i], rows)]
    BY <1>1
  <2> QED
    BY <2>1, <2>2, <2>3, <2>4, <2>5, <2>6, ServedFit
<1>7. Sent'
  <2>1. RoomFor(requests')
    BY <1>6 DEF PageInv, Sent, RoomFor
  <2> QED
    BY <1>1, <1>6, <2>1 DEF Sent, page
<1>8. DeletesChosen
  BY <1>6 DEF DeletesChosen, Deletions
<1>9. ListFits'
  <2>1. \A a \in Account : mine[a] <= server'[a] /\ list.rows[a] <= server'[a]
    BY <1>3, <1>5 DEF PageInv, ListFits, Rows, Version
  <2> QED
    BY <1>1, <1>5, <2>1 DEF PageInv, ListFits, ShowsItsChanges, page
<1>10. TableFits'
  <2>1. \A a \in chosen : server'[a] > 0
    BY <1>3, <1>5 DEF PageInv, TableFits
  <2> QED
    BY <1>1, <2>1 DEF PageInv, TableFits, page, table
<1>11. ModalFits'
  BY <1>1, ModalStays DEF PageInv, page
<1> QED
  BY <1>7, <1>8, <1>9, <1>10, <1>11 DEF PageInv

\* Another administrator deletes an account.
LEMMA DeletedElsewhere ==
    ASSUME PageInv, NEW d \in Account, DeleteElsewhere(d)
    PROVE  PageInv' /\ DeletesChosen
<1>1. /\ server[d] = 1 /\ server' = [server EXCEPT ![d] = 2] /\ UNCHANGED <<requests, page>>
  BY DEF DeleteElsewhere
<1>2. /\ server \in Rows /\ server' \in Rows /\ \A a \in Account : server[a] \in Nat
      /\ \A a \in Account : server[a] <= server'[a] /\ server'[a] \in Nat
  BY <1>1 DEF PageInv, ListFits, Rows, Version
<1>3. RequestsFit(requests, server', mine, modal.uuid)
  BY <1>2, RequestsStay DEF PageInv, Sent
<1>4. Sent' /\ DeletesChosen
  BY <1>1, <1>3 DEF PageInv, Sent, RoomFor, DeletesChosen, page
<1>5. ListFits'
  <2>1. \A a \in Account : mine[a] <= server'[a] /\ list.rows[a] <= server'[a]
    BY <1>2 DEF PageInv, ListFits, Rows, Version
  <2> QED
    BY <1>1, <1>2, <2>1 DEF PageInv, ListFits, ShowsItsChanges, page
<1>6. TableFits'
  <2>1. \A a \in chosen : server'[a] > 0
    BY <1>2 DEF PageInv, TableFits
  <2> QED
    BY <1>1, <2>1 DEF PageInv, TableFits, page, table
<1>7. ModalFits'
  BY <1>1, ModalStays DEF PageInv, page
<1> QED
  BY <1>4, <1>5, <1>6, <1>7 DEF PageInv

-----------------------------------------------------------------------------
(* The answers.                                                             *)

\* An answer that is all there is to it.
LEMMA Received ==
    ASSUME PageInv, NEW i \in DOMAIN requests, requests' = Others(i), UNCHANGED <<server, mine>>,
           modal'.uuid = modal.uuid
    PROVE  Sent' /\ DeletesChosen
<1>1. RequestsFit(requests, server, mine, modal.uuid) /\ RoomFor(requests) /\ MaxRequests \in Nat
  BY PageAssumption DEF PageInv, Sent
<1>2. /\ RequestsFit(requests', server, mine, modal.uuid)
      /\ Len(requests) \in Nat \ {0} /\ Len(requests') = Len(requests) - 1
      /\ \A j \in DOMAIN requests' : \E k \in DOMAIN requests \ {i} : requests'[j] = requests[k]
      /\ Deletions(requests') \subseteq Deletions(requests)
  BY <1>1, OthersFit
<1>3. RoomFor(requests')
  BY <1>1, <1>2 DEF RoomFor
<1> QED
  BY <1>2, <1>3 DEF Sent, DeletesChosen

\* The list is asked for, whatever the page is told.
LEMMA Refreshed ==
    ASSUME PageInv, NEW i \in DOMAIN requests, Refresh(Others(i)), server' = server, modal'.uuid = modal.uuid
    PROVE  Sent' /\ DeletesChosen
<1> DEFINE r == New("list", {})
           rest == Others(i)
<1>1. RequestsFit(requests, server, mine, modal.uuid) /\ RoomFor(requests) /\ MaxRequests \in Nat
  BY PageAssumption DEF PageInv, Sent
<1>2. /\ RequestsFit(rest, server, mine, modal.uuid)
      /\ Len(requests) \in Nat \ {0} /\ Len(rest) = Len(requests) - 1
      /\ \A j \in DOMAIN rest : \E k \in DOMAIN requests \ {i} : rest[j] = requests[k]
      /\ Deletions(rest) \subseteq Deletions(requests)
  BY <1>1, OthersFit
<1>3. RequestFits(r, server, mine', modal.uuid) /\ r.kind = "list"
  BY NewFits DEF PageInv, ListFits, New
<1>4. requests' = Send(rest, r)
  BY DEF Refresh
<1> HIDE DEF r, rest
<1>5. /\ RequestsFit(requests', server, mine', modal.uuid) /\ Len(requests') = Len(rest) + 1
      /\ (\E j \in DOMAIN requests' : requests'[j].kind = "save") => \E j \in DOMAIN rest : rest[j].kind = "save"
      /\ Deletions(requests') \subseteq Deletions(rest)
  <2>1. RequestsFit(rest, server, mine, modal.uuid)
    BY <1>2
  <2>2. /\ RequestsFit(Send(rest, r), server, mine', modal.uuid)
        /\ Len(Send(rest, r)) = Len(rest) + 1
        /\ (\E j \in DOMAIN Send(rest, r) : Send(rest, r)[j].kind = "save") =>
               r.kind = "save" \/ \E j \in DOMAIN rest : rest[j].kind = "save"
        /\ \A who \in Deletions(Send(rest, r)) :
               who \in Deletions(rest) \/ (r.kind = "delete" /\ who = r.who)
    BY <1>3, <2>1, SentFit
  <2> QED
    BY <1>3, <1>4, <2>2
<1>6. RoomFor(requests')
  BY <1>1, <1>2, <1>5 DEF RoomFor
<1> QED
  BY <1>2, <1>5, <1>6 DEF Sent, DeletesChosen

\* What the page is told was done is in the database.
LEMMA ToldIsMade ==
    ASSUME PageInv, NEW i \in DOMAIN requests, NEW answer, NEW kinds, Answered(i, kinds, answer),
           kinds \cap {"list", "user"} = {}, Told(i, answer)
    PROVE  mine' \in Rows /\ \A a \in Account : mine'[a] <= server[a]
<1>1. /\ RequestFits(requests[i], server, mine, modal.uuid)
      /\ server \in Rows /\ mine \in Rows /\ \A a \in Account : mine[a] <= server[a]
  BY DEF PageInv, Sent, ListFits, RequestsFit
<1>2. CASE answer # "done" \/ requests[i].kind = "save"
  BY <1>1, <1>2 DEF Told
<1>3. CASE ~(answer # "done" \/ requests[i].kind = "save")
  <2>1. mine' = [a \in Account |-> IF a \in requests[i].who THEN Made(requests[i].kind) ELSE mine[a]]
    BY <1>3 DEF Told
  <2>2. Made(requests[i].kind) \in {1, 2}
    BY PageTypes
  <2>3. \A a \in requests[i].who : server[a] >= Made(requests[i].kind)
    BY <1>1, <1>3 DEF Answered, RequestFits
  <2>4. \A a \in Account : server[a] \in Nat /\ mine[a] \in 0 .. 2
    BY <1>1 DEF Rows, Version
  <2>5. mine' \in Rows
    BY <2>1, <2>2, <2>4 DEF Rows, Version
  <2> QED
    BY <1>1, <2>1, <2>2, <2>3, <2>4, <2>5
<1> QED
  BY <1>2, <1>3

\* The list is cleared, and asked for.
LEMMA ClearedFits ==
    ASSUME ListFits, server' = server, mine' \in Rows, \A a \in Account : mine'[a] <= server[a],
           list' = NoList, latest' \in BOOLEAN
    PROVE  ListFits'
<1>1. list' \in [shown : BOOLEAN, rows : Rows] /\ ~list'.shown /\ list'.rows = NoRows
  BY PageTypes DEF NoList
<1>2. \A a \in Account : NoRows[a] = 0 /\ server[a] >= 0
  BY DEF ListFits, NoRows, Rows, Version
<1> QED
  BY <1>1, <1>2 DEF ListFits, ShowsItsChanges

\* The list: the answer to the last request for it has all that was told.
LEMMA ListAnswered ==
    ASSUME PageInv, NEW i \in DOMAIN requests, NEW answer, AnswerList(i, answer)
    PROVE  PageInv' /\ DeletesChosen
<1>1. /\ requests[i].kind = "list" /\ (answer = "done" => requests[i].served) /\ requests' = Others(i)
      /\ latest' = requests[i].last
      /\ UNCHANGED <<server, selection, filter, modal, user, mine>> /\ RowsUnmount /\ PageRenders
  BY DEF AnswerList, Answered
<1>2. RequestFits(requests[i], server, mine, modal.uuid) /\ requests[i] \in PageRequest
  BY DEF PageInv, Sent, RequestsFit, RequestFits
<1>3. ListFits'
  <2>1. requests[i].rows \in Rows /\ requests[i].last \in BOOLEAN
    BY <1>2 DEF PageRequest
  <2>2. CASE answer = "done"
    <3>1. list' = [shown |-> TRUE, rows |-> requests[i].rows]
      BY <2>2 DEF AnswerList
    <3>2. \A a \in Account : requests[i].rows[a] <= server[a]
      BY <1>2 DEF RequestFits
    <3>3. requests[i].last => \A a \in Account : mine[a] <= requests[i].rows[a]
      BY <1>1, <1>2, <2>2 DEF RequestFits
    <3> QED
      BY <1>1, <2>1, <3>1, <3>2, <3>3 DEF PageInv, ListFits, ShowsItsChanges
  <2>3. CASE answer # "done"
    <3>1. list' = NoList
      BY <2>3 DEF AnswerList
    <3> QED
      BY <1>1, <2>1, <3>1, ClearedFits DEF PageInv, ListFits
  <2> QED
    BY <2>2, <2>3
<1>4. TableFits'
  BY <1>1, <1>3, PageRendered DEF PageInv, TableFits
<1>5. ModalFits'
  BY <1>1 DEF PageInv, ModalFits, RowsUnmount
<1>6. Sent' /\ DeletesChosen
  BY <1>1, Received
<1> QED
  BY <1>3, <1>4, <1>5, <1>6 DEF PageInv

\* The account of the modal.
LEMMA UserAnswered ==
    ASSUME PageInv, NEW i \in DOMAIN requests, NEW answer, AnswerUser(i, answer)
    PROVE  PageInv' /\ DeletesChosen
<1>1. /\ requests[i].kind = "user" /\ requests' = Others(i)
      /\ UNCHANGED <<server, list, table, confirm, modal, mine, latest>>
  BY DEF AnswerUser, Answered
<1>2. RequestFits(requests[i], server, mine, modal.uuid)
  BY DEF PageInv, Sent, RequestsFit
<1>3. user' \in Account \cup {NoOne} /\ modal.uuid # NoOne
  BY <1>1, <1>2 DEF AnswerUser, RequestFits
<1>4. ListFits' /\ TableFits'
  BY <1>1, ListStays, TableStays DEF PageInv
<1>5. ModalFits'
  BY <1>1, <1>3 DEF PageInv, ModalFits
<1>6. Sent' /\ DeletesChosen
  BY <1>1, Received
<1> QED
  BY <1>4, <1>5, <1>6 DEF PageInv

\* A deletion: the list is asked for after it.
LEMMA DeleteAnswered ==
    ASSUME PageInv, NEW i \in DOMAIN requests, NEW answer, AnswerDelete(i, answer)
    PROVE  PageInv' /\ DeletesChosen
<1>1. /\ Answered(i, {"delete", "deleteRow"}, answer) /\ Told(i, answer) /\ Refresh(Others(i))
      /\ latest' = FALSE /\ UNCHANGED <<server, filter, modal, user>> /\ PageRenders
  BY DEF AnswerDelete
<1>2. selection' \subseteq Account /\ confirm' \in {"none", "selected"} \cup Account
  BY DEF AnswerDelete, RowsUnmount, PageInv, TableFits, ModalFits
<1>3. ListFits'
  <2>1. mine' \in Rows /\ \A a \in Account : mine'[a] <= server[a]
    BY <1>1, ToldIsMade
  <2> QED
    BY <1>1, <2>1, ClearedFits DEF PageInv, Refresh
<1>4. TableFits'
  BY <1>1, <1>2, <1>3, PageRendered DEF PageInv, TableFits
<1>5. ModalFits'
  BY <1>1, <1>2 DEF PageInv, ModalFits
<1>6. Sent' /\ DeletesChosen
  BY <1>1, Refreshed
<1> QED
  BY <1>3, <1>4, <1>5, <1>6 DEF PageInv

\* A new account: likewise, unless it failed.
LEMMA CreateAnswered ==
    ASSUME PageInv, NEW i \in DOMAIN requests, NEW answer, AnswerCreate(i, answer)
    PROVE  PageInv' /\ DeletesChosen
<1>1. Answered(i, {"create"}, answer) /\ Told(i, answer) /\ UNCHANGED <<server, modal, user>>
  BY DEF AnswerCreate
<1>2. CASE answer = "failed"
  <2>1. requests' = Others(i) /\ UNCHANGED <<list, latest, table, confirm>> /\ mine' = mine
    BY <1>1, <1>2 DEF AnswerCreate, Told
  <2>2. ListFits' /\ TableFits' /\ ModalFits'
    BY <1>1, <2>1, ListStays, TableStays, ModalStays DEF PageInv
  <2>3. Sent' /\ DeletesChosen
    BY <1>1, <2>1, Received
  <2> QED
    BY <2>2, <2>3 DEF PageInv
<1>3. CASE answer # "failed"
  <2>1. /\ Refresh(Others(i)) /\ latest' = FALSE /\ UNCHANGED <<selection, filter>> /\ RowsUnmount /\ PageRenders
    BY <1>3 DEF AnswerCreate
  <2>2. mine' \in Rows /\ \A a \in Account : mine'[a] <= server[a]
    BY <1>1, ToldIsMade
  <2>3. ListFits'
    BY <1>1, <2>1, <2>2, ClearedFits DEF PageInv, Refresh
  <2>4. TableFits'
    BY <2>1, <2>3, PageRendered DEF PageInv, TableFits
  <2>5. ModalFits'
    BY <1>1, <2>1 DEF PageInv, ModalFits, RowsUnmount
  <2>6. Sent' /\ DeletesChosen
    BY <1>1, <2>1, Refreshed
  <2> QED
    BY <2>3, <2>4, <2>5, <2>6 DEF PageInv
<1> QED
  BY <1>2, <1>3

\* The only answer after which two requests are sent: it was the only change, and its room
\* was kept.
LEMMA SaveAnswered ==
    ASSUME PageInv, NEW i \in DOMAIN requests, NEW answer, AnswerSave(i, answer)
    PROVE  PageInv' /\ DeletesChosen
<1>1. requests[i].kind = "save" /\ Answered(i, {"save"}, answer) /\ server' = server /\ mine' = mine
  BY DEF AnswerSave, Answered, Told
<1>2. CASE answer # "done"
  <2>1. requests' = Others(i) /\ UNCHANGED <<list, latest, table, confirm, modal, user>>
    BY <1>2 DEF AnswerSave
  <2>2. ListFits' /\ TableFits' /\ ModalFits'
    BY <1>1, <2>1, ListStays, TableStays, ModalStays DEF PageInv
  <2>3. Sent' /\ DeletesChosen
    BY <1>1, <2>1, Received
  <2> QED
    BY <2>2, <2>3 DEF PageInv
<1>3. CASE answer = "done"
  <2> DEFINE rest == Others(i)
             u == New("user", {modal.uuid})
             r == New("list", {})
             asked == Send(rest, u)
  <2>1. /\ requests' = Send(asked, r) /\ list' = NoList /\ latest' = FALSE /\ user' = NoOne
        /\ modal' = [modal EXCEPT !.edit = modal.opened /\ ~@]
        /\ UNCHANGED <<selection, filter>> /\ RowsUnmount /\ PageRenders
    BY <1>3 DEF AnswerSave, Refresh
  <2>2. /\ RequestsFit(requests, server, mine, modal.uuid) /\ RoomFor(requests) /\ MaxRequests \in Nat
        /\ RequestFits(requests[i], server, mine, modal.uuid) /\ server \in Rows
    BY PageAssumption DEF PageInv, Sent, RequestsFit, ListFits
  <2>3. modal.uuid # NoOne /\ modal.uuid \in Account
    BY <1>1, <2>2 DEF RequestFits, PageInv, ModalFits
  <2>4. /\ RequestsFit(rest, server, mine, modal.uuid)
        /\ Len(requests) \in Nat \ {0} /\ Len(rest) = Len(requests) - 1
        /\ \A j \in DOMAIN rest : \E k \in DOMAIN requests \ {i} : rest[j] = requests[k]
        /\ Deletions(rest) \subseteq Deletions(requests)
    BY <2>2, OthersFit
  <2>5. RequestFits(u, server, mine, modal.uuid) /\ u.kind = "user"
    BY <2>2, <2>3, NewFits DEF New
  <2>6. RequestFits(r, server, mine, modal.uuid) /\ r.kind = "list"
    BY <2>2, NewFits DEF New
  <2>7. \A j \in DOMAIN rest : rest[j].kind # "save"
    BY <1>1, <2>2, <2>4 DEF RequestsFit
  <2> HIDE DEF rest, u, r
  <2>8. /\ RequestsFit(asked, server, mine, modal.uuid) /\ Len(asked) = Len(rest) + 1
        /\ (\E j \in DOMAIN asked : asked[j].kind = "save") => \E j \in DOMAIN rest : rest[j].kind = "save"
        /\ Deletions(asked) \subseteq Deletions(rest)
    BY <2>4, <2>5, SentFit
  <2> HIDE DEF asked
  <2>9. /\ RequestsFit(requests', server, mine, modal.uuid) /\ Len(requests') = Len(asked) + 1
        /\ (\E j \in DOMAIN requests' : requests'[j].kind = "save") => \E j \in DOMAIN asked : asked[j].kind = "save"
        /\ Deletions(requests') \subseteq Deletions(asked)
    BY <2>1, <2>6, <2>8, SentFit
  <2>10. RoomFor(requests')
    <3>1. Len(requests) < MaxRequests
      BY <1>1, <2>2 DEF RoomFor
    <3>2. Len(requests') = Len(requests) + 1
      BY <2>4, <2>8, <2>9
    <3>3. \A j \in DOMAIN requests' : requests'[j].kind # "save"
      BY <2>7, <2>8, <2>9
    <3> QED
      BY <2>2, <2>4, <3>1, <3>2, <3>3 DEF RoomFor
  <2>11. /\ modal' \in [opened : BOOLEAN, edit : BOOLEAN, password : BOOLEAN, uuid : Account \cup {NoOne}]
         /\ modal'.uuid = modal.uuid
    <3>1. modal \in [opened : BOOLEAN, edit : BOOLEAN, password : BOOLEAN, uuid : Account \cup {NoOne}]
      BY DEF PageInv, ModalFits
    <3> DEFINE mode == modal.opened /\ ~modal.edit
    <3>2. modal' = [modal EXCEPT !.edit = mode] /\ mode \in BOOLEAN
      BY <2>1
    <3> HIDE DEF mode
    <3> QED
      BY <3>1, <3>2
  <2>12. Sent' /\ DeletesChosen
    BY <1>1, <2>4, <2>8, <2>9, <2>10, <2>11 DEF Sent, DeletesChosen
  <2>13. ListFits'
    BY <1>1, <2>1, ClearedFits DEF PageInv, ListFits
  <2>14. TableFits'
    BY <2>1, <2>13, PageRendered DEF PageInv, TableFits
  <2>15. ModalFits'
    BY <2>1, <2>3, <2>11 DEF PageInv, ModalFits, RowsUnmount
  <2> QED
    BY <2>12, <2>13, <2>14, <2>15 DEF PageInv
<1> QED
  BY <1>2, <1>3

\* A password: a modal is closed.
LEMMA PasswordAnswered ==
    ASSUME PageInv, NEW i \in DOMAIN requests, AnswerPassword(i)
    PROVE  PageInv' /\ DeletesChosen
<1>1. /\ requests' = Others(i) /\ modal' = [modal EXCEPT !.password = FALSE]
      /\ UNCHANGED <<server, list, selection, filter, confirm, user, mine, latest>> /\ PageRenders
  BY DEF AnswerPassword
<1>2. modal'.uuid = modal.uuid /\ ModalFits'
  BY <1>1 DEF PageInv, ModalFits
<1>3. ListFits'
  BY <1>1, ListStays DEF PageInv
<1>4. TableFits'
  BY <1>1, <1>3, PageRendered DEF PageInv, TableFits
<1>5. Sent' /\ DeletesChosen
  BY <1>1, <1>2, Received
<1> QED
  BY <1>2, <1>3, <1>4, <1>5 DEF PageInv

-----------------------------------------------------------------------------
\* Every step keeps the invariant, and deletes what was chosen.
LEMMA PageKept == ASSUME PageInv, [PageNext]_pageVars PROVE PageInv' /\ DeletesChosen
<1>1. CASE ContextChanges \/ CloseAccount \/ Edit \/ CancelEdit \/ ClosePassword
  BY <1>1, Rendering
<1>2. CASE ToggleAll \/ (\E a \in Account : ToggleRow(a)) \/ (\E matching \in Searches : Search(matching))
  BY <1>2, Selecting
<1>3. CASE OpenDelete \/ CancelDelete \/ \E a \in Account : OpenRowDelete(a)
  BY <1>3, Confirming
<1>4. CASE ConfirmDelete \/ Save \/ ChangePassword \/ \E a \in Account : Create(a)
  BY <1>4, Changing
<1>5. CASE \E a \in Account : OpenPassword(a) \/ \E edit \in BOOLEAN : OpenAccount(a, edit)
  BY <1>5, Showing
<1>6. CASE \E a \in Account : DeleteElsewhere(a)
  BY <1>6, DeletedElsewhere
<1>7. CASE \E i \in DOMAIN requests :
             \/ ServeRequest(i) \/ AnswerPassword(i)
             \/ \E answer \in {"done", "refused", "failed"} :
                   \/ AnswerList(i, answer) \/ AnswerUser(i, answer) \/ AnswerDelete(i, answer)
                   \/ AnswerCreate(i, answer) \/ AnswerSave(i, answer)
  BY <1>7, Serving, PasswordAnswered, ListAnswered, UserAnswered, DeleteAnswered, CreateAnswered, SaveAnswered
<1>8. CASE UNCHANGED pageVars
  <2>1. UNCHANGED <<server, requests, list, table, confirm, modal, user, mine, latest>>
    BY <1>8 DEF pageVars
  <2>2. ListFits' /\ TableFits' /\ ModalFits'
    BY <2>1, ListStays, TableStays, ModalStays DEF PageInv
  <2>3. Sent' /\ DeletesChosen
    BY <2>1, SentStay DEF PageInv
  <2> QED
    BY <2>2, <2>3 DEF PageInv
<1> QED
  BY <1>1, <1>2, <1>3, <1>4, <1>5, <1>6, <1>7, <1>8 DEF PageNext

\* So the invariant always holds.
LEMMA PageHolds == PageSpec => []PageInv
<1>1. PageInit => PageInv
  BY PageStarts
<1>2. PageInv /\ [PageNext]_pageVars => PageInv'
  BY PageKept
<1> QED
  BY <1>1, <1>2, PTL DEF PageSpec

\* The page, its table, its modals and its requests have their types, for any accounts and
\* any number of requests: what the delete button was given are accounts that were listed.
THEOREM PageTypeCorrect == PageSpec => []PageTypeOK
<1>1. PageInv => PageTypeOK
  BY PageInvTypes
<1> QED
  BY <1>1, PageHolds, PTL

\* Whatever the order in which changes and lists are served and answered, a list that is
\* shown and answers the last request for it has all the page was told it had changed.
THEOREM ChangesAreShown == PageSpec => []ShowsItsChanges
<1>1. PageInv => ShowsItsChanges
  BY DEF PageInv, ListFits
<1> QED
  BY <1>1, PageHolds, PTL

\* What "delete selected" deletes was selected since the page was rendered last.
THEOREM DeletedWereSelected == PageSpec => DeletedWasSelected
<1>1. PageInv /\ [PageNext]_pageVars =>
          [\A who \in Deletions(requests') \ Deletions(requests) : who \subseteq chosen]_pageVars
  BY PageKept DEF DeletesChosen
<1> QED
  BY <1>1, PageHolds, PTL DEF PageSpec, DeletedWasSelected
==============================================================================
