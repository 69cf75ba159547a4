----------------------------- MODULE AccountImport -----------------------------
(***************************************************************************)
(* The import of accounts from a spreadsheet: the four steps of the modal  *)
(* (upload, parse, assign, verify), the validators of the table and the    *)
(* throttles they run behind, the bulk creation it submits and the job     *)
(* whose status it polls.                                                  *)
(*                                                                         *)
(* A cell is known by what its validators can tell: a username is wrong by *)
(* itself, typed, or made by the autofix for its row; an email is absent,  *)
(* an existing account's, or another one.  Emails that are wrong by        *)
(* themselves and the other properties are validated like such a username. *)
(***************************************************************************)
EXTENDS Naturals, FiniteSets

CONSTANTS
    Row,
    Typed,     \* the usernames the file and the user may give
    First,     \* those of existing accounts when the modal is opened first
    MaxParses  \* bound: the parses of the file that run at once

ASSUME ImportAssumption ==
    IsFiniteSet(Row) /\ First \subseteq Typed /\ MaxParses \in Nat \ {0} /\ Row \cap Typed = {}

VARIABLES
    accounts,  \* the usernames of the accounts that exist
    step,      \* the step of the modal that is shown
    parses,    \* the parses of the file that have not completed
    parse,     \* ParseSpreadsheetForm: data, parseErrors, criticalError
    loaded,    \* ImportAccountsModal: the data the parse step handed over
    table,     \* preparedData
    users,     \* the fetch of /users/all by the verify step
    known,     \* the usernames it was answered with
    errors,    \* the rows with an error in each column
    wait,      \* the throttles of the three updates of the errors
    import,    \* the submitted import, as the modal follows it
    job,       \* the job of the API
    created    \* the accounts of the import exist

steps == <<step, parses, parse, loaded>>
verify == <<table, users, known, errors, wait>>
running == <<import, job, created>>
importVars == <<accounts, steps, verify, running>>

Column == {"username", "email"}
Username == Typed \cup Row \cup {"bad"}
Email == {"", "taken", "other"}
Table == [Row -> [username : Username, email : Email]]

Parsed == {"null", "clean", "errors", "quotes"}
NoParse == [data |-> "null", errors |-> FALSE, critical |-> FALSE]

\* A throttle is idle, or it has run less than a second ago: and then it waits with
\* nothing, or with the arguments of the last call that it will run again with.
Wait == [row : {"idle", "none"} \cup Row, column : {"idle", "none"} \cup Column,
         all : {"idle", "none", "all"}]
Idle == [row |-> "idle", column |-> "idle", all |-> "idle"]

NoErrors == [c \in Column |-> {}]

\* An import, what its notification says, and (history) how a request of it failed: it was
\* answered with an error, or not answered.
Failures == {"no", "answered", "silent"}
NoImport == [stage |-> "no", notice |-> "none", failure |-> "no"]

\* The shape of the state; what was handed over was parsed and had no quote error, and
\* an import that waits for its job is shown as loading.
ImportTypeOK ==
    /\ accounts \subseteq Typed /\ step \in {"closed", "upload", "parse", "assign", "verify"}
    /\ parses \in 0 .. MaxParses
    /\ parse \in [data : Parsed, errors : BOOLEAN, critical : BOOLEAN]
    /\ loaded \in Parsed /\ loaded # "quotes" /\ (step \in {"assign", "verify"} => loaded # "null")
    /\ table \in Table /\ users \in {"loading", "failed", "loaded"} /\ known \subseteq Typed
    /\ errors \in [Column -> SUBSET Row] /\ wait \in Wait
    /\ import \in [stage : {"no", "posting", "polling"},
                   notice : {"none", "loading", "success", "error"}, failure : Failures]
    /\ (import.stage # "no" => import.notice = "loading" /\ step = "closed")
    /\ job \in {"none", "pending", "success", "error", "lost"} /\ created \in BOOLEAN

Empty == [r \in Row |-> [username |-> "bad", email |-> ""]]

ImportInit ==
    /\ accounts = First /\ step = "closed" /\ parses = 0 /\ parse = NoParse /\ loaded = "null"
    /\ table = Empty /\ users = "loading" /\ known = {} /\ errors = NoErrors /\ wait = Idle
    /\ import = NoImport /\ job = "none" /\ created = FALSE

-----------------------------------------------------------------------------
(* The steps before the last.  Only the step that is shown is mounted.      *)

UnmountVerify == table' = Empty /\ users' = "loading" /\ known' = {} /\ errors' = NoErrors /\ wait' = Idle

\* (Bound: the modal is opened again when the import before it was reported.)
OpenImport ==
    /\ step = "closed" /\ import.stage = "no"
    /\ step' = "upload" /\ parses' = 0 /\ parse' = NoParse /\ loaded' = "null"
    /\ import' = NoImport /\ job' = "none" /\ created' = FALSE
    /\ UNCHANGED <<accounts, verify>>

Close ==
    /\ step # "closed" /\ step' = "closed" /\ loaded' = "null" /\ UnmountVerify
    /\ parses' = 0 /\ parse' = NoParse /\ UNCHANGED <<accounts, running>>

\* The form is mounted with a file: it parses it, in a worker.
MountParse == step' = "parse" /\ parses' = 1 /\ parse' = NoParse /\ UNCHANGED <<accounts, verify, running>>

Upload == step = "upload" /\ MountParse /\ UNCHANGED loaded

Reparse ==
    /\ step = "parse" /\ parses < MaxParses /\ parses' = parses + 1
    /\ parse' = [parse EXCEPT !.data = "null"]
    /\ UNCHANGED <<accounts, step, loaded, verify, running>>

\* complete: of whichever parse, with the options it was started with.
ParseCompletes(result) ==
    /\ step = "parse" /\ parses > 0 /\ parses' = parses - 1
    /\ parse' = [data |-> result, errors |-> result # "clean",
                 critical |-> parse.critical \/ result = "quotes"]
    /\ UNCHANGED <<accounts, step, loaded, verify, running>>

\* For the mutants: all errors can be ignored.
IgnoreEveryError ==
    /\ step = "parse" /\ parse.errors
    /\ parse' = [parse EXCEPT !.errors = FALSE, !.critical = FALSE]
    /\ UNCHANGED <<accounts, step, parses, loaded, verify, running>>

IgnoreErrors ==
    /\ step = "parse" /\ parse.errors /\ ~parse.critical
    /\ parse' = [parse EXCEPT !.errors = FALSE]
    /\ UNCHANGED <<accounts, step, parses, loaded, verify, running>>

ParseNext ==
    /\ step = "parse" /\ parse.data # "null" /\ ~parse.errors /\ ~parse.critical
    /\ step' = "assign" /\ loaded' = parse.data
    /\ UNCHANGED <<accounts, parses, parse, verify, running>>

ParseCancel ==
    /\ step = "parse" /\ step' = "upload" /\ parses' = 0 /\ parse' = NoParse /\ loaded' = "null"
    /\ UNCHANGED <<accounts, verify, running>>

AssignCancel == step = "assign" /\ MountParse /\ UNCHANGED loaded

-----------------------------------------------------------------------------
(* The validators.                                                          *)

\* duplicates: the names of the table, and those of the accounts it knows of.
TimesIn(t, column, value) == Cardinality({r \in Row : t[r][column] = value})
KnownAs(who, column, value) ==
    IF column = "username" THEN value \in who ELSE value = "taken" /\ users' = "loaded"
MoreThanOnce(t, who, column, value) ==
    TimesIn(t, column, value) + (IF KnownAs(who, column, value) THEN 1 ELSE 0) > 1

\* The cell of t has an error, where the list of duplicates was made from the table d.
Wrong(t, d, who, column, r) ==
    LET value == t[r][column] IN
    value = "bad" \/ (value # "" /\ MoreThanOnce(d, who, column, value))

WrongIn(t, who, column) == {r \in Row : Wrong(t, t, who, column, r)}

\* calculateErrorsInRow, calculateErrorsInColumn and calculateErrors.
InRow(e, t, d, r) ==
    [c \in Column |-> (e[c] \ {r}) \cup (IF Wrong(t, d, known', c, r) THEN {r} ELSE {})]
InColumn(e, t, c) == [e EXCEPT ![c] = WrongIn(t, known', c)]
InAll(t) == [c \in Column |-> WrongIn(t, known', c)]

\* For the mutants: the columns in the opposite order.
CheckColumnsBackwards(e, t) ==
    /\ wait' = [wait EXCEPT !.column = "username"]
    /\ errors' = IF wait.column = "idle" THEN InColumn(e, t, "email") ELSE e

\* The effect on duplicates calls the throttled update for each column: the first call
\* may run now, and the second is the one that is remembered.
CheckColumns(e, t) ==
    /\ wait' = [wait EXCEPT !.column = "email"]
    /\ errors' = IF wait.column = "idle" THEN InColumn(e, t, "username") ELSE e

\* prepareData, and the verify step is mounted: all errors, then the two columns.
AssignNext ==
    \E t \in Table :
        /\ step = "assign" /\ step' = "verify" /\ \A r \in Row : t[r].username \notin Row
        /\ table' = t /\ users' = "loading" /\ known' = {}
        /\ wait' = [Idle EXCEPT !.all = "none", !.column = "email"] /\ errors' = InAll(t)
        /\ UNCHANGED <<accounts, parses, parse, loaded, running>>

VerifyCancel ==
    /\ step = "verify" /\ step' = "assign" /\ UnmountVerify
    /\ UNCHANGED <<accounts, parses, parse, loaded, running>>

UsersAnswered ==
    /\ step = "verify" /\ users = "loading" /\ users' = "loaded" /\ known' = accounts
    /\ CheckColumns(errors, table)
    /\ UNCHANGED <<accounts, table, steps, running>>

UsersFail ==
    /\ step = "verify" /\ users = "loading" /\ users' = "failed"
    /\ UNCHANGED <<accounts, table, known, errors, wait, steps, running>>

\* updateCell: the row is checked before the page is rendered again, with the list of
\* duplicates from before, and the columns after.
UpdateCell(r, column, value) ==
    /\ step = "verify" /\ value # table[r][column]
    /\ table' = [table EXCEPT ![r][column] = value] /\ UNCHANGED <<users, known>>
    /\ LET e == IF wait.row = "idle" THEN InRow(errors, table', table, r) ELSE errors IN
       /\ wait' = [wait EXCEPT !.row = IF @ = "idle" THEN "none" ELSE r, !.column = "email"]
       /\ errors' = IF wait.column = "idle" THEN InColumn(e, table', "username") ELSE e
    /\ UNCHANGED <<accounts, steps, running>>

\* What the validators' autofix gives: no email, and a username like no other there is.
Autofixed(column, r) == IF column = "email" THEN "" ELSE r

\* autofix of some rows.
Fixed(column, rows) ==
    [r \in Row |-> IF r \in rows THEN [table[r] EXCEPT ![column] = Autofixed(column, r)] ELSE table[r]]

\* The button beside the errors of one validator of the column, which are of some of the
\* rows with an error; everything is checked again.
Autofix(column, rows) ==
    /\ step = "verify" /\ rows \subseteq errors[column] /\ rows # {}
    /\ table' = Fixed(column, rows)
    /\ UNCHANGED <<users, known>>
    /\ LET e == IF wait.all = "idle" THEN InAll(table') ELSE errors IN
       /\ wait' = [wait EXCEPT !.all = IF @ = "idle" THEN "none" ELSE "all", !.column = "email"]
       /\ errors' = IF wait.column = "idle" THEN InColumn(e, table', "username") ELSE e
    /\ UNCHANGED <<accounts, steps, running>>

\* A second after it ran, a throttle runs for its last call, or is idle again.
Timer(throttle) ==
    LET arg == wait[throttle] IN
    /\ step = "verify" /\ arg # "idle"
    /\ wait' = [wait EXCEPT ![throttle] = IF arg = "none" THEN "idle" ELSE "none"]
    /\ UNCHANGED <<users, known>>
    /\ errors' = CASE arg = "none" -> errors
                   [] throttle = "all" /\ arg = "all" -> InAll(table)
                   [] throttle = "row" /\ arg \in Row -> InRow(errors, table, table, arg)
                   [] throttle = "column" /\ arg \in Column -> InColumn(errors, table, arg)
    /\ UNCHANGED <<accounts, table, steps, running>>

-----------------------------------------------------------------------------
(* The import.                                                              *)

Notice(n, failure) == import' = [stage |-> "no", notice |-> n, failure |-> failure]

\* The button of the form is enabled.
Submittable == step = "verify" /\ users = "loaded" /\ \A c \in Column : errors[c] = {}

\* submit: the modal is closed and the table is posted; or it has more than 4096 rows, for
\* each row of the model may stand for many, and is not.
SubmitImport ==
    /\ Submittable
    /\ step' = "closed" /\ loaded' = "null" /\ parses' = 0 /\ parse' = NoParse
    /\ \/ import' = [stage |-> "posting", notice |-> "loading", failure |-> "no"]
       \/ Notice("error", "no")
    /\ UNCHANGED <<accounts, verify, job, created>>

\* __create_users_in_bulk__ starts a job, or the form is refused.
PostAccepted ==
    /\ import.stage = "posting" /\ \A r \in Row : table[r].username # "bad"
    /\ job' = "pending" /\ import' = [import EXCEPT !.stage = "polling"]
    /\ UNCHANGED <<accounts, steps, verify, created>>

PostRefused ==
    /\ import.stage = "posting" /\ Notice("error", "answered")
    /\ UNCHANGED <<accounts, steps, verify, job, created>>

\* No answer in ten seconds: the job was started all the same.
PostTimesOut ==
    /\ import.stage = "posting" /\ Notice("error", "silent") /\ job' = "pending"
    /\ UNCHANGED <<accounts, steps, verify, created>>

\* create_users: refused as a whole, or created as a whole; what follows the commit may fail.
Creatable ==
    /\ \A r \in Row : table[r].username \notin accounts \cup {"bad"} /\ table[r].email # "taken"
    /\ \A r, q \in Row : r # q => table[r].username # table[q].username
    /\ \A r, q \in Row : r # q /\ table[r].email # "" => table[r].email # table[q].email

JobCreates(status) ==
    /\ job = "pending" /\ Creatable /\ job' = status /\ created' = TRUE
    /\ accounts' = accounts \cup ({table[r].username : r \in Row} \cap Typed)
    /\ UNCHANGED <<steps, verify, import>>

JobFails ==
    /\ job = "pending" /\ job' = "error"
    /\ UNCHANGED <<accounts, created, steps, verify, import>>

\* The API is restarted: jobs is empty, and a thread that had not committed is gone.
Restart ==
    /\ job \in {"pending", "success", "error"} /\ job' = "lost"
    /\ UNCHANGED <<accounts, created, steps, verify, import>>

\* For the mutants: what is not an error is a success.
PollReadsAnything ==
    /\ import.stage = "polling"
    /\ Notice(IF job = "error" THEN "error" ELSE "success", "no")
    /\ UNCHANGED <<accounts, steps, verify, job, created>>

\* The loop of submit goes on while the status is pending.  A job the API has lost is
\* answered with 404: the status of that AxiosError is its code, and no error.
Poll ==
    /\ import.stage = "polling" /\ job # "pending"
    /\ Notice(IF job = "error" THEN "error" ELSE "success", "no")
    /\ UNCHANGED <<accounts, steps, verify, job, created>>

\* A status request fails in another way: it has a response, of a proxy for instance, whose
\* code is the status again; or it has none, and no status.
PollFails(failure) ==
    /\ import.stage = "polling" /\ Notice(IF failure = "answered" THEN "success" ELSE "error", failure)
    /\ UNCHANGED <<accounts, steps, verify, job, created>>

\* Another administrator creates an account.
CreateElsewhere(name) ==
    /\ name \in Typed \ accounts /\ accounts' = accounts \cup {name}
    /\ UNCHANGED <<steps, verify, running>>

-----------------------------------------------------------------------------
ImportNext ==
    \/ OpenImport \/ Close \/ Upload \/ Reparse \/ IgnoreErrors \/ ParseNext \/ ParseCancel
    \/ \E result \in Parsed \ {"null"} : ParseCompletes(result)
    \/ AssignCancel \/ AssignNext \/ VerifyCancel \/ UsersAnswered \/ UsersFail
    \/ \E r \in Row : \/ \E name \in Typed \cup {"bad"} : UpdateCell(r, "username", name)
                      \/ \E mail \in Email : UpdateCell(r, "email", mail)
    \/ \E c \in Column : \E rows \in SUBSET errors[c] : Autofix(c, rows)
    \/ \E throttle \in {"row", "column", "all"} : Timer(throttle)
    \/ SubmitImport \/ PostAccepted \/ PostRefused \/ PostTimesOut
    \/ \E status \in {"success", "error"} : JobCreates(status)
    \/ JobFails \/ Restart \/ Poll \/ \E failure \in {"answered", "silent"} : PollFails(failure)
    \/ \E name \in Typed : CreateElsewhere(name)

ImportSpec == ImportInit /\ [][ImportNext]_importVars

-----------------------------------------------------------------------------
\* When no update of a column is waiting, the emails marked as wrong are those that are:
\* the table was checked for them after its last change, and after the users were loaded.
\* Usernames have no such property, for their update is called first and forgotten.
EmailErrorsSettle ==
    step = "verify" /\ wait.column \in {"idle", "none"} =>
        errors["email"] = {r \in Row : LET m == table[r].email IN
            \/ m = "taken" /\ users = "loaded"
            \/ m # "" /\ \E q \in Row \ {r} : table[q].email = m}

\* A report is false in known ways only.  Where the modal reports a success, the accounts
\* exist, or the API lost the job, or it answered a poll with an error; where it reports an
\* error, no job was started or it failed (and may be lost since), or a request had no answer.
ReportIsTrue ==
    /\ import.notice = "success" => created \/ job = "lost" \/ import.failure = "answered"
    /\ import.notice = "error" => job \in {"none", "error", "lost"} \/ import.failure = "silent"
===============================================================================
