# Cherry VM Studio in TLA+

Cherry VM Studio manages virtual machines: a FastAPI process (`src/api`) drives
libvirt and PostgreSQL (its own tables and those of guacamole) for a browser panel
(`src/admin-panel`); shell scripts (`src/backend`) install and supervise the
containers. This directory models the parts of it where steps of several actors
interleave, where one step of several can fail, and where answers, events and
renders come in an order nobody chose.

## Inventory

What each part keeps, does and depends on. The file names are under `src/api`
unless they say otherwise; `PROJECT.json` lists sources and status of each part.

| Part | State | Operations | Interacts with | Hard behaviour | Correct when |
|---|---|---|---|---|---|
| Machine power (`modules/machine_state/state_management.py`) | `vm_tasks`; libvirt state and port; `started_at`, port parameter | start, stop, wait for a state | libvirt calls, async transactions, broadcasts | tasks outlive a check, guests power off on their own, timeouts, restart | one task per machine; rows describe the machine |
| Machine deletion (`modules/machine_lifecycle/machines.py`) | volumes, rows, definition | read XML, stop, delete disks, delete rows, undefine | machine power, disk threads, DELETE broadcast | five steps that each may fail and do not stop the next; two deletes at once | told once and truthfully; no rows that cannot be deleted |
| Machine creation (same file) | the same, and `created_machines` | single, bulk, for a group; undo | disk and define threads, one transaction, deletion as undo | `gather` with failing threads, undo before late threads, crash before commit | all machines or none; rows only for complete machines |
| ISO upload and library (`modules/file_upload`, `application/endpoints/machine_resources/iso_files`, panel: `useContinousFileUpload`) | temporary and final file, `waiting_requests`, row | start, chunk, complete, delete, expire | client loop, timers, table manager | slow chunks against timers, clients that give up, restart | recorded files are complete; temporary files go |
| User accounts (`modules/users`) | `administrators`, `clients`, `administrators_roles`, `guacamole_entity`, `jobs` | create, modify, delete, in bulk; assign roles | authentication thread, job threads, cascades | permissions read before use, two transactions in one operation, checks before inserts | no permission is lost; users and entities match; emails are unique; jobs end |
| Sessions of the panel (`modules/authentication`, `modules/websockets`, panel: `AuthenticationContext`, `useApi`, `useApiWebSocket`) | token cookies; connections by user, closer tasks | log in, refresh, log out; accept, close, expire, disconnect a user | accounts, every request | concurrent refreshes with rotating tokens, a closer that cancels itself, a socket accepted while its account is disabled | no log-out without a cause; no socket outlives its token or account |
| Broadcasts (`modules/machine_websockets`, panel: `useMachineWebSocket`, machine tables) | subscriptions; machines shown | subscribe, broadcast, event messages; merge of messages | sessions, payloads, power | a dict changed while it is iterated, sends nobody awaits, payloads older than events, missed events | what is gone disappears, what is there is shown as it is |
| Groups and assignment (`modules/users/sublibraries/group_library.py`, `modules/machine_lifecycle/remote_access.py`, panel: `MachineEditForm`) | `clients_groups`, `deployed_machines_clients`, guacamole permissions; values of the form | join, leave, set the clients of a machine | users, broadcasts, creation for a group | many statements in one transaction, cascades, several editors | assigned clients are those guacamole admits, and those the page shows |
| Modification and network interfaces (`modules/machine_lifecycle/networks.py`) | devices, `internet_connections` | attach, detach, modify | libvirt, power state | libvirt is not rolled back with the row | rows and devices match |
| Network panel (panel: `NetworkPanelPage`, `NetworkWorkspaceSelect`, node forms) | flow of the selected account, `isDirty`, a running save | load, switch, edit, save, refresh, leave | machines, presets, network configuration | requests that overtake each other, a save in two requests, four ways out of a changed flow | the flow is of the account selected; saves go to theirs; losses are warned of |
| Import of accounts (panel: `ImportAccountsModal` and its forms, `modules/users` jobs) | steps, table, errors, throttles; job record | parse, assign, validate, autofix, submit, poll | bulk job | throttles that drop calls, a job record that is lost, polls that fail | errors are those of the table; reports are true |
| Pages of accounts and record tables (panel: `UsersPage`, `AccountTable`, `TanstackTable`, account modals) | list, selection, filter, merged modal props | search, select, delete, edit, create, password | users API | answers out of order, props merged by index, modals answered late | the list has what the page made; what is deleted was selected |
| Forms that create machines (panel: `CreateMachineModal`, `CreateMachinesInBulkModal`, fieldsets) | a stack of pages, disks, index of the system disk, a list | page, fill, add and remove disks, list, submit | creation endpoints | an index that must follow removals, late answers, resets that are partial | what is sent is valid, once for each click; the system disk is the one marked |
| Templates, snapshots, ISO metadata | single rows | create, read, delete | - | - | - |
| XML translation, form models, payloads | none | format, parse, read | libvirt, database | may fail anywhere | - |
| Service scripts (`src/backend/installer-files`) | lock files, network links | start, stop, watch containers | docker, systemd | a failing step leaves the lock; missed events | the stack can always be started again |

The hazards at their lines are in `PROJECT.json`. The parts share three things: the
libvirt domain and the rows of a machine (power, deletion, creation, assignment), the
accounts (users, sessions, assignment, import, pages), and the web socket of a page
(sessions, broadcasts, assignment). HTTP requests of the panel are never cancelled, so
any of them may be answered after any other.

## Plan

The order follows what the product is for: machines must run, and be removed and
made without a trace of failure, before anything else counts; then who may use them and
what people see of them.

1. `MachinePower`, then `MachineDeletion`, which EXTENDS it and takes its turn in the
   same `vm_tasks`. *done, proved*
2. `MachineCreation` and the abstract `AtomicBatch` it implements. *done, proved but for
   liveness*
3. `IsoUpload`: client hook and server together. *done, proved but for liveness*
4. `UserAccounts`: handlers, stale permissions, bulk jobs. *done, proved but for
   liveness*
5. `PanelSession` and `MachineFeed`: sessions, subscriptions, the order of broadcasts.
   *done, proved but for liveness*
6. `NetworkPanel`, `AccountImport`, `AccountsPage`, `MachineForms`: the pages of the
   panel whose state outlives a request. *done, proved*
7. `MachineAccess`: assigned clients, guacamole permissions and cascades, with the page
   that changes them and its web socket. *done, proved*

What is left, in this order: groups (with the users of a group as a third way to be
assigned); `MachineDevices`, that is attaching and detaching interfaces beside the power
tasks; the forward-auth cache, added to `PanelSession`; `ServiceLock` (start script and
watchdog); and liveness of deletion (a `delete` that is always answered holds under strong
fairness of the event loop, but a model with the power tasks of this size is too large
for TLC to search for cycles in reasonable time). Every safety property that a passing run
checks is also proved.

## Modules

| Module | Models | Run by | Theorems in |
|---|---|---|---|
| `MachinePower` | start and stop of one machine | `MCMachineDeletion` | `MachinePower_proofs` |
| `MachineDeletion` | deletes of that machine, EXTENDS `MachinePower` | `MCMachineDeletion` | `MachinePower_proofs` |
| `AtomicBatch` | what creation promises its caller (abstract) | through `MachineCreation` | - |
| `MachineCreation` | one single or bulk creation | `MCMachineCreation` | `MachineCreation_proofs` |
| `IsoUpload` | chunked uploads, client and server | `MCIsoUpload` | `IsoUpload_proofs` |
| `UserAccounts` | accounts, roles, entities, jobs | `MCUserAccounts` | `UserAccounts_proofs` |
| `PanelSession` | tokens, refreshes, the web socket and its handlers | `MCPanelSession` | `PanelSession_proofs` |
| `MachineFeed` | events and broadcasts, and what a page makes of them | `MCMachineFeed` | `PanelSession_proofs` |
| `NetworkPanel` | the page that edits networks | `MCNetworkPanel` | `NetworkPanel_proofs` |
| `AccountImport` | accounts from a spreadsheet | `MCAccountImport` | `MachineForms_proofs` |
| `AccountsPage` | list, table and modals of accounts | `MCAccountsPage` | `UserAccounts_proofs` |
| `MachineAccess` | clients of a machine, API and page | `MCMachineAccess` | `MachineAccess_proofs` |
| `MachineForms` | the forms that create machines | `MCMachineForms` | `MachineForms_proofs` |

Every module begins with what its variables stand for; the ones marked "history" are not
in the code and only let a property refer to what happened before. `MachinePower` has no
run of its own: the run of `MachineDeletion` takes all of its steps, and checks its
properties beside those of the delete. They are proved both for `MachinePower` alone and
beside its deletes.

### MachinePower

`vm_tasks`, the database rows and the libvirt domain are per machine, so one machine
is modelled. A request is a coroutine: `call[r]` is what it awaits, `task[r]` the
asyncio task it created, `vmTask` the entry of `vm_tasks` (named by the request that
made the task). Coroutines share one event loop: `loop` is the task that holds it, and
every action of a coroutine needs `loop` free or its own, while the guest and
libvirt (`GuestPowersOff`, `GuestLeavesRunning`, `GuestResumes`) act at any time. So
a stop runs from one flag to the next without another coroutine between, as the code
does, unless a poll sleeps. `Accept` is the endpoint up to its await,
`Register` the guards and the new task; the task goes `ready -> poll -> port -> txn`
(start) or `ready -> flag -> poll -> flag ... -> txn` (stop) and ends `returned`,
`raised` (an exception that the awaiting function turns into False) or `crashed` (one
it does not). `Resume` is the rest of the endpoint with `vm_tasks.pop`. `Restart` is a
restart of the API at any moment.

`polls` counts sleeps in place of seconds: `PollLimit` of them are
`vm_state_wait_timeout`. The history variable `stolen` records the one way in
which the lock of `vm_tasks` breaks: a request that resumes pops whatever entry is
there, also that of a later task that is alive. `settled` is the kind of the task that
committed the row, until the next one is registered: it outlives the request that awaits
the task, and a restart, so that `RowMatchesMachine` looks at the row for as long as nobody
works on the machine.

### MachineDeletion

`del[r]` is the coroutine of a delete (`xml`, `stop`, `stopping`, `disks`, `db`, `undefine`,
`answer`) with its `success` flag `ok` and the disk threads `left`, which may outlive it.
Undefining a machine that runs leaves it running. The stop is `Accept` and `Resume` of
`MachinePower`; a refusal is ignored, as in the code. `announced` counts DELETE messages.

### MachineCreation

UUIDs are fresh, so two calls share nothing and one call, single or bulk, is modelled:
`making` and `defining` are the threads, `known` the machines whose disk UUIDs are
assigned (after the `gather`), `created` is `created_machines`, `undo` and
`unmaking` the progress of the undo, `rows` what is committed, `slipped` whether the
commit or a step of the undo has failed. A single call undoes with
`machine_disks_cleanup`, a bulk call with `delete_machine_async`. `Crash` is the death
of the process.

### IsoUpload

`client[u]` is the hook (`pc`, and `next`, its chunk), `server[u]` the request in the
server, `entry[u]` the timer in `waiting_requests`, `temp`, `final` and `record` the
two files and the row. A file is the set of the chunks in it, since the client sends
every chunk once and in order. Uploads ask for one name. `StartUpload` arms the timer and
then opens the file, which may fail: the upload is answered with an error, and its timer
finds no file. `Complete` cancels the timer and then renames, which may fail too, as may the
removal in the error handler and in the timer (`Remove`, `Strand`): then the file stays with
no timer. `Restart` forgets requests and timers and keeps files. The history variable
`stranded` has the uploads whose file was left in one of these two ways.

### UserAccounts

Handlers of `/users` are coroutines without an await before their last step, so each is
one action. Two things run in threads: authentication, which reads the
permissions (`seen[r]`) some time before the handler (`Authenticate`), and a job of
create-in-bulk, with validation, first and second transaction as steps of their own.
Handlers are taken as atomic with respect to jobs too: a job that commits in the middle
of a handler ends in the state of one of the two orders. `email` of a uuid that has no
row yet is that of its form. Usernames behave as emails do and are left out; so are
passwords, names, last activity and groups.

### PanelSession

A grant is a pair of tokens; `access` and `refresh` are the cookies, `expired` and `ended` the
grants of which one or both tokens are past their time. A request carries the tokens of the
render that sent it (`tok`, `ref`) and goes `send -> refresh -> resend` as `useApi` does: a 401
refreshes and repeats, a refused refresh clears the cookies. One action is a round trip, so any
two requests may overtake each other, and a request may outlive the session that sent it. `sock`
is `useApiWebSocket`, which connects, reconnects on close code 4401 only, with a refresh that
nobody waits for; `handlers` is the registry of the API, whose closer task is `CloseAtExpiry`.
`Disable` starts the task of `disconnect_user` (`dropping`), which `DisconnectUser` runs.
`Restart` empties the registry and the tasks.

### MachineFeed

`life`, `on` and `busy` are what the API knows of a machine; `tasks` the events whose
sending is scheduled, `payload` what a broadcast has read and not sent yet, `wire` what is
under way, `machines` the merged state of `useMachineWebSocket` in terms of what buttons and
badges show. `Retrieve` and `Broadcast` are the two halves of a broadcast, with an await
between, `ConnectPage` sends what a new subscriber gets first (a failing read leaves some of
it out), `Receive` applies `STATE_MAP` or merges a payload, `Crash` is a page that gets an
event before any payload and goes to its error boundary.

A deletion does not always take the machine out of libvirt: a refusal to undefine it is
passed over (`machines.py:570`), and a machine that runs stays listed. It is announced all the
same, and the machine is a *ghost*, in `listAllDomains` and without rows: a page that connects
is sent it again, and nothing that ends it (`Delete`, `ConnectPage`). It goes when it is
powered off or undefined once more, without a word (`Vanish`). The other way round, where the
statement that deletes the rows fails and the definition goes (`KeepRows`), the machine is an
*orphan*: `get_all_machine_uuids` still has it, and `check_machine_existence` raises in the
read of every broadcast from then on. `untold` has the machines whose end this page is not
sent: it was announced while the page was not there, or not at all, or before a connection
showed a ghost. `Coming` is the order
in which the page will hear what is under way: `wire`, and then `tasks`. A broadcast that has
been read goes in between, which `DeletionComesLast` shows to be harmless, for only messages
that add nothing are ever read long before they are sent. That is the safety half of
`DeletedDisappears`. `DisplayConverges` is asked while there is no orphan; with one machine
that is the machine itself, and with more of them one orphan ends the broadcasts for all.

### NetworkPanel

A flow is known by the account of its machines and that of its workspace, `Mixed` when
they differ. `requests` holds what was asked and not answered, in the order of asking:
machines and workspace are two chains of requests, neither is cancelled, any may fail.
`apply` is `applyNetworkConfig`, a save in two requests of data taken at two times.
`isDirty` is the variable of the page; `unsaved` says what really is unsaved, and whether
the page is bound to tell of it, so that `LostChangesWereWarned` compares the two.
`asking` is the modal that warns: of the select, of the two buttons, of the router.

### AccountImport

The steps of the modal with `parse`, `loaded` and `table` of its forms; `errors` by
column and `wait`, the three throttles of `VerifySpreadsheetForm`, each with the last
call it keeps; `users` and `known` are the fetch the validators look at. `SubmitImport` posts,
or, with more than 4096 rows, posts nothing: its notification turns red, stays `loading` and
has no button to close it. `PostTimesOut` leaves the job running, `JobCreates` and `JobFails`
are the two ends of the job, `Restart` loses its record, `Poll` and `PollFails` are the polls.
An answered poll is read for its `status`: the 404 of a record that was lost (in `Poll`) and
any other error (`PollFails("answered")`) have one, a number, and are taken for a success; a
poll without an answer (`"silent"`) has none and is taken for an error. `ReportIsTrue` says
that these are all the ways in which a report is false. `Autofix` fixes the rows of one
validator that are marked, each with what the rows before it were given.

### AccountsPage

An account is a version (not there, there, deleted) and a request is what was asked, by
whom it was served and whether it is the last for the list. `uuids` is the property of
the delete modal that `merge` of lodash changes index by index; `modal` and `user` are the
account modal and its fetch. `mine` and `latest` record what the page was told. `Order` is the
order of the list, in which `InOrder` gives the rows that are selected. `Room` and
`NoChange` are bounds of the model: while one change waits for its answer no other is
begun, so a double click on a confirmation (`ConfirmationModal.tsx:47` is never disabled) and
a change in a second modal are left out; without `NoChange` the state space is beyond what
TLC searches in a reasonable time. Another administrator deletes only accounts that were there
when the page was opened.

### MachineAccess

`rows`, `perm` and `owned` are the tables of assignment, guacamole permissions and
owners; a client is `half` between the two transactions that make it. A save replaces all
clients in one transaction (`UpdateMachineClients`) and announces the machine
(`OnMachineModify`, which may fail); the page hears of it in a message (`OnNewMessage`) and in
the answer, after which the form takes what it had at the click as its new baseline
(`Saved`), in either order. `StateChanges` is the only time the form is reloaded.

### MachineForms

`host` is the modal that has the form, `shown` and `support` its `opened` properties,
`page` the page of the stack; a form is what its checks look at: details, source,
names of the disks, and the index `os_disk`. `marked` is the disk the user chose last.
`machines` is the list of the bulk modal, which `AddMachine` extends. `SubmitMachine` and
`Submit` send, `Answer` closes what is open by then. What is listed and sent is the result of
the checks (`Entry`), without the disks themselves.

Submitting closes the last page, which begins its transition: until it ends (`PageGone`) the
button is there and works (`closing`), so a second click sends or lists the same form again.
`clicks` counts them, and the pair of form and click is the `Ticket` of a machine, which
`OneClickOneMachine` finds in one place only. Two clicks are two machines, which the code does
not prevent; and the first of two answers makes way for a new form that the second
closes, which `AnswerClosesItsForm` therefore does not promise after a double click. While a
page turns, its button only turns the same page again, to no effect.
A second click on the button of the list itself would send an empty list, which the API
answers with nothing made: it is left out.

## Runs

| Run | Question | Bounds |
|---|---|---|
| `MachineDeletion` | `DeleteAnnouncedOnce`, `NoSilentOrphan`; of `MachinePower` `OneTaskUnlessStolen`, `CommitIsTruthful`, `RowMatchesMachine` | 2 requests, 2 ports, 2 disks, 1 flag, 1 poll; symmetric |
| `MachineCreation` | `RowsHaveMachines`, `UndoIsThorough`, `NothingAfterSuccess`, `IsAtomic`, `CreationAnswered` | up to 3 machines of 2 disks |
| `IsoUpload` | `RecordedFileIsComplete`, `TimerGuardsIdleFile`, `TempReclaimed` | 2 uploads of 2 chunks |
| `UserAccounts` | `EveryPermissionAssigned`, `UsersMatchEntities`, `EmailClashNeedsJob`, `EveryJobEnds` | 2 administrators, 1 client, 2 roles, 1 email, 2 requests, 1 job |
| `PanelSession` | `DisabledHasNoSocket`, `LogoutHasCause`, `HandlerEndsWithToken` | 1 account, 2 grants, 2 requests under way |
| `MachineFeed` | `FeedTypeOK`, `DeletionComesLast`, `DeletedDisappears`, `DisplayConverges` | 1 machine, 2 events to send, 1 message under way |
| `NetworkPanel` | `SettledFlowIsOfSelected`, `SavedToItsAccount`, `LostChangesWereWarned` | 2 accounts, 2 requests |
| `AccountImport` | `ImportTypeOK`, `EmailErrorsSettle`, `ReportIsTrue` | 2 rows, 2 usernames, 2 parses at once; symmetric |
| `AccountsPage` | `PageTypeOK`, `ShowsItsChanges`, `DeletedWasSelected` | 2 accounts, 2 requests |
| `MachineAccess` | `PermissionsMatchClients`, `KnownIsCurrent`, `SavedIsShown` | 2 clients, 2 saves, 1 message under way |
| `MachineForms` | `SystemDiskIsMarked`, `SentIsValid`, `AnswerClosesItsForm`, `OneClickOneMachine` | 2 disks beside the first, 2 forms, 2 clicks on a last button, 2 requests; symmetric |
| `AccountsPageSelected` (violated) | does "Delete selected" delete only what is selected? | as `AccountsPage` |

The type invariants of the other modules are proved, and not checked again by a run.

Why the bounds are enough. A race of a delete needs one other request, which may be a
delete, a start or a stop; two requests also steal an entry (one resumes after the other has
registered), and since slots are used again the first may then start a task beside the
other's. Two ports tell a
port that was read from the one in use, two disks let one thread fail while the other
works. With one flag and one poll a stop still tries a flag, waits, sees or times out, and
destroys; more of them repeat these steps, and the theorems hold for any number. Three
machines let a definition fail between two that succeed. Two uploads are enough to take a
name from one another, two chunks make a first and a last. Two administrators can each be
the last with a permission; two requests let one act on permissions the other has just
taken. Two grants are the one a request holds and the one another request has rotated it
into. Two events, a payload and a message let each overtake each. On the pages, what goes
wrong is one answer that comes after another, for which two requests are enough, and one
thing taken for another, for which two accounts, rows, clients, forms or clicks are enough; the
form of the disks needs one before and one after the system disk. `MachineAccess` lets a
save begin only when the page can receive, which bounds the wire and hides nothing: a
message that is late is then a message on the wire while another save is made.

Deadlock is checked where the system serves for ever (`MachineDeletion`, `IsoUpload`,
`NetworkPanel`, `AccountImport`, `AccountsPage`, `MachineAccess`). It is not checked where
the model is of one call that ends (`MachineCreation`), where uuids, jobs, grants and
forms are drawn only once (`UserAccounts`, `PanelSession`, `MachineForms`), and
in `MachineFeed`, whose machine may be gone.

### What the violated run shows

`DeletesSelected`: "Delete selected" says the button (`pages.json:230`). Its
accounts are merged into `modals` by lodash (`TanstackTable.tsx:108`), which keeps the
indices a shorter selection does not have: select two accounts, unselect one, and both are
deleted, until the page is rendered anew. `DeletedWasSelected`, which holds, is what is left:
only accounts that were selected since then are deleted.

### Met while modelling, without a run of their own

Machines. `vm_tasks.pop` of a request that resumes late removes a later entry, and a second task
can run beside the first, against "Machine is already starting!" (`state_management.py:114`).
BOOTUP_SUCCESS "Indicates successful boot" (`websockets.md:57`), but a database error after the
boot is swallowed (`state_management.py:102`), as is what `MachinePower` names `lost`. "Returns
True if all of the elements are deleted" (`machines.py:447`): failing disk threads and a failing
undefine (`machines.py:570`) are ignored, so a machine that was announced as deleted can come
back with the next connection. A machine whose rows outlive its definition stops the broadcasts
of all machines (`dynamic_state_payload.py:52`). "cleans up libvirt definitions for every
machine" (`machines.py:202`): only those before the first failure are visited. The undo of a
single creation does not know the disks of a `gather` that failed; a commit that fails leaves
definitions. A stop of a machine that has gone off during the flags fails in `destroy()`
(`state_management.py:163`). An interface is attached in libvirt before its row, and not
detached when the row is rolled back (`networks.py:80`). `loading` of a payload is always false,
since `vm_tasks` is asked with raw bytes (`dynamic_state_payload.py:39`): a broadcast during a
boot shows the machine OFFLINE, which the comment of `MachineControlsCell.tsx:26` takes for
impossible.

Accounts. "no permission becomes unassigned and unreachable" (`account-system.md:44`), but
disabling is not checked and roles of disabled administrators count. An administrator and
a client can share an email when a job made one of them. A user deleted before the second
transaction of its job leaves an entity. `delete_users` turns its own 400 into a 500.
`modify_user` ignores empty lists (`if form.groups`, `if form.roles`). A group without users
cannot be made (`group_library.py:52`). The record of a job is never cleaned up, since the
task dies with the event loop of its thread (`users.py:85`). Deleting the owner of a
machine leaves its clients' guacamole permissions. The forward-auth cache answers for five
minutes after an account is disabled (`cache.py:15`).

Sessions. A late 401 of an old session logs out a new one (`useApi.ts:44`), a refresh in
flight at a log-out revives the session (`useApi.ts:36`), and only close code 4401 leads to a
reconnect (`useApiWebSocket.ts:44`).

Pages. `NetworkPanelPage`: `isDirty` is reset after failed and overtaken saves
(`NetworkPanelPage.tsx:360`), three handlers of the node form do not set it, a debounced rename
applies to the network selected by then, and edges of a removed network are still sent.
`AccountImport`: username errors may stay stale, for they share a throttle with the emails and
are called first; a status request that is answered with an error, or for a job that was lost,
is read as success (`ImportAccountsModal.tsx:126`). `AccountsPage`: a duplicate is reported as
created (`CreateAccountModal.tsx:103`), late answers toggle whatever modal is shown
(`AccountModal.tsx:47`, `ChangePasswordModal.tsx:47`), and the password stays in the form.
`MachineControls`: a button stays used when its request fails. `MachineAccess`: two
administrators overwrite each other, a change of state or a late answer drops edits, overlapping
saves may leave an older baseline, and a deleted client that the form still holds makes every
save fail. `MachineForms`: resetting the page of disks keeps `os_disk`
(`CreateMachineModal.tsx:139`), which the API then uses as an index (`xml_translator.py:63`); a
change of the source type keeps the source; a single creation that fails closes the form like
one that succeeds; an empty list can be sent; a double click on the last button makes or lists
two machines.

### Mutants

Each property has a variant of one operator that a plausible bug would produce (a
dropped guard, a missing reset, an error not reported), beside the operator it changes
and marked as a mutant or as what the code would do "if"; with it the property fails.

## Fairness

Safety is checked without fairness; the rest rests on what the runtime gives.

- `MachineCreation`: weak fairness of handler and threads together; libvirt
  calls return or raise. A crash ends the call.
- `IsoUpload`: the server's handlers and timers are weakly fair. Nothing is asked of
  clients: a body that stops is a stream that breaks.
- `UserAccounts`: weak fairness of jobs. Nothing is asked of requests.
- `PanelSession`: tokens expire, and the tasks that the API has created run (weak
  fairness of `Expire`, `CloseAtExpiry`, `DisconnectUser`). Nothing is asked of the panel.
- `MachineFeed`: what was sent is received and rendered (weak); scheduled sends, and the
  loops of the broadcasts, go on (strong, since a full wire of the model, or a failing
  read, gets in between again and again), and reads of all machines succeed now and then.
  A browser that never receives or a libvirt that never answers shows nothing new, and while
  there is an orphan every read raises, so that nothing is promised then.

Liveness is only asked of calls, jobs and messages that have begun, and a failure is an
end. The other modules state none: deletion is too large to search for cycles, and on the
pages nothing obliges a user to go on or a request to be answered.

## Proofs

Checked with TLAPS for every value of the constants that the assumptions allow
(`PowerAssumption`: the markers are not values and the limits are numbers;
`CreationAssumption`: a machine has a disk and a batch a machine;
`AccountsAssumption`: the two tables are disjoint, the root administrator is an
administrator, and the roles together grant every permission, as the initial
database does; `UploadAssumption`, `SessionAssumption`, `PanelAssumption`,
`AccessAssumption`, `FormsAssumption`, `FeedAssumption`: limits are numbers and markers are not
values, and the account signed in is an account; `ImportAssumption`: a spreadsheet is finite,
its rows are not usernames, and a parse fits the bound; `PageAssumption`: the list has every
account once, a search without a text finds all, and a request fits the bound).

- `MachinePower_proofs`: `TypeCorrect`, `OneTaskAtATime`, `CommitsAreTruthful`,
  `RowsMatchMachine`. `OneTaskUnlessStolen` is not inductive: it says nothing of which
  task `vmTask` names. The invariant `Registered` says that, unless the entry was
  stolen, a live task is the one registered; its step is the interesting one at `Resume`
  (popping someone else's entry sets `stolen` when the owner is alive) and
  `Register` (which needs `~Busy`). `Truth` adds what each stage of a task has
  established. `Shape`: a live task has not yet fetched its row, a stop task has no
  port and counts `FlagCount + 1` only after `destroy()`. `Protected`: from a
  successful `destroy()` on the machine is off, and a port that was read is the machine's.
  `Protected` survives the steps of others because only a registered task switches the machine
  on and, by `Registered`, there is no other. `Settled` is `RowMatchesMachine` with what keeps
  it: no task is at work on a machine that is settled.
  For `MachineDeletion`: `DeletesKeepTheLock`, `DeletesKeepCommits`, `DeletesKeepRows`,
  `AnnouncedOnce`, `NoOrphanIsSilent`. A step of a delete is a step of `MachinePower` or only
  takes rows or the definition away (`PowerFrame`), and neither disturbs the invariant above
  (`RemovesKeep`), which is how the three properties carry over. `Told` adds that one delete at
  most has done its transaction without an error and will be announced, and none does while
  rows are left or after the announcement: of two deletes, the second finds no rows.
- `MachineCreation_proofs`: `TypeCorrect`, `RecordsAreSound`, `CreationIsAtomic`. The
  invariant `Sound` ties `pc` to the threads: until something fails nothing is being
  undone, every thread that is done has left its volume or definition, no stage begins
  before the one in front of it is done, and rows exist only after the commit.
  `CreationIsAtomic` is the refinement: the first action maps to `Ask`, the commit to
  `Succeed`, the end of an undo, a failed commit and a crash to `Fail`, everything else
  to a stutter, and `Sound` shows that `Complete` does not move.
  `UndoingIsThorough` and `SuccessIsFinal` need more: `Staged` says what a stage that has
  not begun has left (nothing), and that the disks of a machine in `known` are all made and
  a machine in `created` is defined, so that no thread makes again what is being undone.
  `Undoing(m)`, kept while nothing slips, says how far a machine is: its volumes are on the
  list or gone, the list is empty once its disks are done, and a single machine that is
  undone was never defined, which is why `machine_disks_cleanup` may leave definitions.
- `UserAccounts_proofs`: `TypeCorrect`, `NoPermissionIsLost`, `UsersAndEntities`,
  `EmailsStayApart`. `Integrity` is kept
  because each action either checks it, or leaves the roles of those that remain
  untouched; the type invariant supplies that an account without a row has no roles.
  `JobsApart` carries the other two: the users of two jobs are disjoint, those of a job are
  in no table before its first transaction, and have no entity before its second.
  `FormsApart` says that a validated job still has distinct emails, because handlers only
  change the emails of accounts that have a row.
  For `AccountsPage`: `PageTypeCorrect`, `ChangesAreShown`, `DeletedWereSelected`. The list is
  up to date only with the requests still under way in mind: `RequestsFit` relates what each of
  them has read to the database and to what the page was told, and `ListFits` keeps both the
  list and what the page was told no newer than the database. `TableFits` has that the merged
  `uuids` were all chosen, which is `DeletedWasSelected` once they are sent. That `InOrder`
  gives accounts of those it is asked for is proved by induction on the part of the list it
  has gone through (`SetInduction`, for a set of numbers, from the well-founded order of the
  naturals), for its definition is recursive.
- `IsoUpload_proofs`: `UploadTypeCorrect`, `RecordedFilesAreComplete`,
  `TimersGuardIdleFiles`. The invariant has three parts for each upload: `Matched`, that
  the request in the server is the one its client waits for (or nobody does), `Held`, that a
  temporary file, where there is one, has the chunks before `client.next` and a final file was
  made of all of them, and `Guarded`, that no timer was forgotten and that every file is cared
  for (`Cared`): by the timer, by the request that writes to it, or by nobody because it is
  stranded. `Held` needs `Matched` to know which chunk is written, and `Guarded` to know that
  none was lost.
- `PanelSession_proofs`: `SessionTypeCorrect`, `DisabledAreDisconnected`,
  `LogoutsHaveCauses`. `Registered` says that the token of a handler was issued, which
  makes `owner` of it defined; the rest is that every step that adds a handler or disables
  an account looks at the other. The action property is proved step by step.
  For `MachineFeed`: `FeedTypeCorrect`, `DeletionsComeLast`. The property is read as
  `Covered(Coming, DOMAIN machines, m)`, which says of a sequence of messages that a deletion
  of `m` follows whatever shows it; the lemmas are about sequences alone: it survives messages
  put in that add no `m` (`CoveredInserted`), taking the first (`CoveredReceived`), and holds of
  any that a deletion ends. It needs that a broadcast under way has no message that adds
  (`PayloadFits`) and that nothing is under way without a connection (`NothingWithout`).
- `NetworkPanel_proofs`: `NetworkTypeCorrect`, `SettledShowsSelected`,
  `SavesGoToTheirAccount`, `LossesAreWarned`. `Loaded` describes the queue of requests:
  they have their type (`RequestsOK`), what overtook a request overtook those of its kind
  before it (`InOrder`), and the newest request of a kind that was not overtaken, or what the
  page holds when there is none, is of the selected account (`MachinesFollow`, and
  `WorkspaceFollows` as long as no machines are due).
  `OwnFlow` ties a running save to the flow it took, `Warned` a modal to what it says.
- `MachineAccess_proofs`: `AccessTypeCorrect`, `PermissionsMatch`, `KnowsClients`,
  `ShowsSaved`. `Announced` strengthens `KnownIsCurrent` to a wire that is not empty: its
  last message has the rows. `SavesKept` says that a sole save is alone, that an applied
  one has the rows, and that none is applied when `settled` holds.
- `MachineForms_proofs`: `FormsTypeCorrect`, `SystemDiskMarked`, `SentAreValid`,
  `AnswersCloseTheirForm`, `OneMachineForEachClick`. `PageFits` says which checks each page of
  the stack has behind it; `Waiting` that the single modal has its pages closed while it waits,
  unless a button was clicked twice; `ListFits` and `SentFits` that what is listed and sent is
  valid and was made by a click of this form or an earlier one (`Spent`), each click in one
  place, so that the next click is in none. `SystemDiskMarked` rests on lemmas about
  sequences without duplicates after `RemoveAt` and `Append`.
  For `AccountImport`: `ImportTypeCorrect`, `EmailErrorsAreRight`, `ReportsAreTrue`. The three
  checks of a row, a column and a table are shown to give what the definition of a wrong email
  says (`EmailWrong`, from the cardinality of those that have it, and `EmailsChecked`); an
  edit or an answer of the fetch leaves a column waiting, so nothing is claimed until its
  update is called. `VerifyFits` says that an update of the usernames is never the one that
  waits, which is why there is no such theorem for them. `ImportFits` ties a notice to the
  stage of the import and a finished job to its accounts.

Only model-checked: liveness, which under fairness is out of the prover's reach
(`CreationAnswered`, `TempReclaimed`, `EveryJobEnds`, `HandlerEndsWithToken`,
`DeletedDisappears`, `DisplayConverges`).

## Not modelled, and why

Listed with each part in `PROJECT.json`. Groups, devices, the forward-auth cache and the
service scripts come next in the plan. XML and form translation, payloads and templates
have no state of their own beyond one row. Of the panel, layout, wording and graphics
are left out, and so are paging, sorting and view modes of tables, the switch of the
route between account types, the contents of a modification, names of networks (which
no request sends), the feeds of one user's machines and of one machine, and the pages of
groups, ISO files and templates, which are the table of `AccountsPage` again. The API
behind the network panel is a stub. In the modelled parts, contents of rows, disks and XML
are abstracted: a step that reads or writes them may fail, and only that is told apart. The
libvirt domain has three states (RUNNING, off, any other), since the code tells no more
apart.
