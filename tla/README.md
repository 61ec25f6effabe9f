# A TLA+ development for SimplePHP

SimplePHP ("MythPHP") is a PHP framework with an admin application on top of it: a
database layer on MySQL, a job queue, a task scheduler, a cache, authentication with a
registry of sessions, migrations, the usual HTTP stack, and the scripts of its pages. It has
no server of its own. What runs are many PHP processes at once - requests, `queue:work`
workers, `schedule:run` from cron, console commands - which share tables, files in
`storage/` and nothing else; and in each browser one thread of JavaScript, where timers,
answers and events come in any order. So what is hard about it is what several of those do to one
table, one file or one element of a page, and what is left when one of them is killed,
throws, is late or is never answered. That is what these modules model.

Paths below are relative to `src/`. `PROJECT.json` maps each definition to the lines it
models, and lists the components, the runs, the mutants, the hazards and the findings.

- [Inventory](#inventory)
- [Conventions of the models](#conventions-of-the-models)
- [Modules](#modules): [processes](#processes-that-share-tables-and-files), [pages](#scripts-of-the-pages)
- [Runs](#runs), [findings](#findings), [what the exceptions in the properties show](#what-the-exceptions-in-the-properties-show)
- [Proofs](#proofs)
- [Not modelled](#not-modelled), [plan](#plan)

## Inventory

| Component | State | Operations | Shared with | What is hard | Correct when | Here |
|---|---|---|---|---|---|---|
| Job queue `systems/Core/Queue` | tables `system_jobs`, `system_failed_jobs`; the worker's current row | `dispatch`, `pop`, `process`, `release`, `markAsFailed`, `retry`, `retryAll`, `flush`, `clear` | workers, requests, operators, through the two tables | two workers and one row, expiry of reservations, crash between two statements, retry beside flush | no job is lost silently; one worker per reservation; a queued job is resolved | `JobQueue`, `JobQueueProofs` |
| Scheduler `systems/Core/Console` | a lock file per command, the down file | `runDueEvents`, `acquireLock`, `releaseLock`, background commands, hooks | scheduler processes | stale locks, unlink of a file another one has open, throwing hooks | guarded commands do not overlap inside their expiry; a dead process does not block a command for good | `Scheduler`, `SchedulerProofs` |
| Cache `systems/Core/Cache` | a file per key (`FileStore`), or an array per process | `get put add increment decrement forget pull remember forever` | all processes | lock by inode, unlink, expiry, half-written files | a read returns what was there; increments are not lost; one `add` wins | `FileCache`, `RequestsProofs` |
| Session registry, in `systems/Components/Auth.php` | the user's sessions in the cache, a lock file | login, logout, check, revoke one or all others | the requests of all devices of a user | reads without the lock, merging of a stale list, rotation of ids, outage of the cache | who was taken out stays out; the limit holds; who is in is listed | `SessionRegistry`, `SessionRegistryProofs` |
| Migrations `systems/Core/Database/Schema/MigrationRunner.php` | `deploy.json`, the schema | `migrate rollback reset fresh seed` | console processes, through file and schema | file overwritten from a list loaded earlier; killed between DDL and the record | the record is the schema | `Migrations`, `DatabaseProofs` |
| Transactions, in `BaseDatabase.php` and `MySQLDriver.php` | the open transaction of a connection | `transaction begin commit rollback insertOrUpdate batchInsert batchUpdate upsert insert update` | connections, through rows and locks | nesting, swallowed exceptions, `Error`, deadlock victims, snapshots | a call is all or nothing; nothing is left open | `Transactions`, `DatabaseProofs` |
| Login policy, `Auth.php`, `LoginPolicy.php` | table of failed attempts | `attempt`, `canAttemptWithLoginPolicy`, `registerLoginFailure`, `clearLoginFailures` | requests | check, then verify, then insert; deletes in three statements | few guesses pass a lock; a success forgives; a lock ends | `LoginLock`, `RequestsProofs` |
| Rate limiting, `RateLimit.php` | a counter file per signature | `handle` | requests | read-modify-write without a lock, torn files | refused only after hits; few pass; refusals end | `RateLimit`, `RequestsProofs` |
| Access tokens, `TokenService.php` | token rows | create, revoke, revoke all, rotate | requests | rotation in three statements, without a transaction | one replacement; never none; none of a login that was ended | `TokenRotation`, `BackgroundProofs` |
| Task runner, `TaskRunner.php` | child processes | `run`, `executeChunkOfTasks`, `executeTask`, `waitForRunningTasks` | children | children that hang, two ways of waiting, slots | at most the maximum at a time; none left behind; the run ends | `TaskRunner`, `BackgroundProofs` |
| CSRF token, `CSRF.php`, `helper.js` | a cookie, a copy in every page | validate, regenerate, renew | tabs of a browser | answers out of order, expiry, regeneration | a page that was just answered can write | `CsrfToken`, `PagesProofs` |
| Data tables, `BootstrapDataTable.js` | draws, counters, cursors, history | load, answer, edit rows, search, page, reload | server, views, DataTables | overtaken answers, edits between them, dropped reloads | rows, counters, status, panels and buttons belong together | `ServerTable`, `CursorTable`, `PagesProofs` |
| Modals and overlays, `classes/ModalManager.js`, `helper.js` | shells, controllers, z-indexes | load partials, show, retry, refresh, stack | Bootstrap, server | one shell for many contents, answers for old contents, transitions and timers | newest content; input is kept; the last overlay is on top | `Shells`, `Panel`, `ApiOverlays`, `OverlayStack`, `OverlaysProofs` |
| Form and API helpers, `helper.js` | buttons, labels, bar, close timers | `submitApi`, `loginApi`, `callApi`, `uploadApi`, `printHelper`, ... | server, overlays | one id for many buttons, ways without an answer | buttons come back; one save at a time; a saved form closes | `Forms`, `PagesProofs` |
| Form validation, `validation.js` | marks and messages | `validationJs`, 2000 lines of rules | forms | conditions in two copies, rows of array fields | what is sent obeys its rules; what is refused breaks one | `FormRules` |
| File previews, notification panel, date and data helpers | container, panel, intervals | `previewFiles`, `showNotiPanel`, `calculateDays`, clocks, `hasData`, array helpers | - | retries, timers, half-open spans | see the properties | `Preview`, `NotiPanel`, `Calendar`, `DataHelpers`, `OverlaysProofs` |
| Connection pool, statement and query cache | arrays of one process | `getConnection`, `cleanupIdleConnections`, ... | within a process | limits and eviction, which nothing ever reaches | - | not modelled |
| Maintenance mode | the down file | `down`, `up` | requests, schedulers | - | - | one flag of `Scheduler` |
| Query builder, schema builder, validation, views, collections, router | one request | pure functions, text | - | wording, not order | - | not modelled |
| Files, backup, logging, menus, features, events, controllers, vendored scripts | files, configuration | I/O | - | - | - | not modelled |

How they interact: `Dispatcher` and `Worker` use the database layer, and are the one place
that locks rows explicitly; the scheduler starts console commands, among them `queue:work`
and `backup`; the session registry and the rate limiters use the cache; the migrations
create the tables of all the others. In a page, views ask `ModalManager` for a partial with
a form, `validation.js` checks it, the helpers of `helper.js` send it with the page's CSRF token,
and its answer edits the row of a `BootstrapDataTable` in place and closes the overlay. Each module treats the component below it as what its
code promises: a statement of the queue is atomic, a registry read under the lock file is
exact.

## Conventions of the models

*One action per step of a process that another process can see.* A PHP process is
sequential; its steps are the statements it sends and the system calls on shared files. What
lies between two of them in one process is part of one action.

*Time* is relative. A timestamp is kept as the time since it was written, or until it is
reached, and a `Tick` ages all of them. They saturate where the code's comparisons can no
longer tell, so time needs no bound and the state space stays finite.

*Files* are inodes: a path names one, a handle keeps its inode when the path is unlinked,
`flock` locks the inode and ends with the process. Modelling a lock file by its name alone
would hide the races that matter.

*Failures* are explicit actions: a statement fails, a file cannot be opened, a hook throws, a
process is killed. The number of each is bounded (`MaxFaults`, `MaxCrashes`, `MaxKills`).

*History variables* record what the code does not: which rows were overrun, which messages
were excused, whether a file was taken away. They never appear in a guard. They are how a
property names its exceptions - the properties say "this goes wrong only if", and the exception is
the one the code accepts.

*`CHECK_DEADLOCK FALSE`* is set only in modules whose bounds can stop everything (all calls,
commands or requests used up). The queue and the scheduler have a clock, which always runs,
and are checked for deadlock.

*Pages.* JavaScript runs to its next `await` or return: that is one action. Answers, timers,
events and the end of a transition are actions of their own, which come in any order unless
the code orders them. jQuery, DataTables, Bootstrap and `fetch` are external and modelled
from how the scripts use them.

*Composites.* `MCDatabase`, `MCBackground`, `MCRequests`, `MCPages` and `MCOverlays` instantiate several
components that do not touch each other's state. Their behaviours are about one of them - the
rigid variable `part` says which, in `MCDatabase` a program without calls - so the state spaces add up instead of multiplying. `MCRequests`
extends `FileCache` and adds the throttle and the login policy, `MCDatabase` extends `Transactions` and adds
the migrations, `MCBackground` extends
`TokenRotation` and adds the queue, the scheduler and the task runner, `MCOverlays` extends `Shells`
and adds the rest of its scripts, and `MCPages` instantiates all of its own. Nothing is lost by it: an interleaving of independent components has no behaviour that its
projections lack. What a proof leaves open of an instantiated component - its limits, its bounds, its sets of
rows or overlays - is a constant of the composite with a named assumption, and gets its value in
the `.cfg`; what only TLC looks at is given in the `INSTANCE`.

Beside the definitions the modules keep *mutants*: a plausible bug in that code (marked
`Mutant:`), one for each property of a run, which the property detects.

## Modules

### Processes that share tables and files

#### JobQueue

`Dispatcher::dispatch` with the database driver, `Worker::work`, `pop`, `process`, `release`,
`markAsFailed`, `retry`, `flush` and `clear`.

| Code | Model |
|---|---|
| `system_jobs`, `system_failed_jobs` | `jobs`, `failed`: stamp or id -> row or `None` |
| `reserved_at`, `available_at` | `reserved` (seconds ago), `lead` (seconds ahead) |
| `$now` of `pop()` (Worker.php:97), read before the transaction | `ReadClock`, `lag` |
| `SELECT ... FOR UPDATE SKIP LOCKED` | `Select`: the row stays locked until `Reserve` commits |
| `process()` | `DecodeFails`, `StartHandle` (with `fromPayload`), `HandleReturns`, `HandleThrows`, `CallFailed` |
| `delete` / `release` / `markAsFailed` | `DeleteHandled`, `Release`, `RecordFailure` then `DeleteFailed`, each with its failing twin |
| `retry` | `RetryFetch`, `RetryInsert`, `RetryDelete`, by id |
| `flush`: `TRUNCATE` | `Flush`: `AUTO_INCREMENT` starts again, so ids are reused |

The random 128-bit ids of jobs are stamps of one counter. The connection's macros `raw` and
`rawQuery` are a constant: the repository defines neither, and what that means is a finding.

#### Scheduler

`Schedule::runDueEvents` of any number of scheduler processes; `ScheduleEvent::acquireLock`
(open, non-blocking `flock`, compare the timestamp with the expiry of *this* event, write,
unlock) and `releaseLock` (`unlink`, whatever is there); hooks that throw; background
commands; maintenance mode. Which events are due is left open (`StartPass` takes any set).

#### FileCache

One key of `FileStore`, with the compound operations of `CacheManager`. Each call is a sequence of
system calls on the path and its inode. `put` goes through a locked write; `add` creates with `x`
and writes afterwards; `increment` locks, reads and rewrites; `get` unlinks an entry it finds
expired. A new file takes the least inode that no path, handle or lock uses (`Fresh`).

#### RateLimit

The file of one throttle signature. `handle()` reads it without a lock, counts its hit and writes back
with `LOCK_EX`, which truncates first: a file that is absent, empty or cut reads as no state
and begins a new window. Refused hits are counted and written as well. The history of the last hits, and
that of the last passes, is a function from numbers to ages, the newest first: `Recent` counts the ages below
the length of a window.

#### LoginLock

`Auth::attempt` of concurrent requests over the table of failures. Counting by identifier, counting by
address, the check of the password, the insert of a failure and the three deletes of a success are
a step each, and each statement may fail. The table is a set of rows: a failure is kept with the seconds since
it was registered, and a number that tells those of one second apart, and is dropped when it can lock nobody
any more.

#### TokenRotation

The tokens of one user. `rotateToken()` finds the row of its token (`Find`), inserts a replacement
(`Create`), deletes the old row (`Revoke`), and deletes the replacement again when the delete has
affected no row (`Undo`); logins, logouts and `revokeAllTokens` run beside it. Secrets belong to
their row, so a token is its id.

#### TaskRunner

`run()` starts the tasks in chunks of `maxConcurrentTasks` and waits for each chunk by polling. Only
with `resolveDeadlock` is a child that is too old terminated, and the wait itself limited; the
wait for room in `executeChunkOfTasks` is the other kind. Children exit at any time or never.

#### SessionRegistry

The sessions of one user in the cache. `registerSessionForUser` and the removals run under
the lock file; the check of a page request reads without it and merges back what it read. A
device is one cookie: PHP locks the session file for the whole request, so a device has one request
at a time. The rigid variable `config` ranges over the deployments: limit, deny or evict,
open or closed when the cache is unavailable, rotating ids.

#### Migrations

`migrate`, `rollback`, `reset`, `fresh` and `seed` of several console processes. What `up()` of a
file adds to the schema, one or several tables or columns, is called its table, and MySQL commits
each statement by itself. Most files throw where their table is there. `Idempotent` ones take it for
done (`createIfNotExists()`), and the `Backfills` among them have no table: they need those of others
(`Targets`), add what is missing there, and their `down()` does nothing, as in the shipped
`20260502_012_add_user_directory_indexes.php`. `deploy.json` is loaded once per command
and written after each file. Tables and entries have their place in the order as the set of
those before them (`after`), so that the order is a thing to compare and no list has to be filtered. A
command ends with its last file, with a file that throws before it has changed anything (`Fails`) or
between two of its statements (`PartlyFails`: what the shipped `20260308_005` with its three tables
leaves), with an exception among the drops of `fresh()` (`DropFails`: some tables are gone, and the record still has them), or is
killed at any step. `Alone` names the commands an operator does not run beside another: the code
takes no lock, so keeping rollbacks apart is their discipline, not the program's. `lost`, `cut`
and `beside` remember what the properties except: tables whose record was never written, a
process killed while it wrote, and commands that ran side by side, with a mark when one of these had
an idempotent file to do (`Repeatable`).

#### Transactions

`transaction()` and the calls that open a transaction of their own, nested in each other and
interleaved with other connections. `beginTransaction()` does nothing when one is open, and
`commit()` and `rollback()` end whatever is open, so a nested call ends the transaction of the
call around it. Each connection has a stack of calls; the callback of `transaction()` is any
sequence of calls, throws and catches. Rows are the history of writes. The server is
modelled from how the code uses it: a plain `SELECT` reads the snapshot of the transaction's
first one, a write waits for open writes of others to its key (inserts only where an index is
unique), of two transactions that wait for each other one is undone. Gap locks are left out: they only
make statements wait that here need not. `upsert()` of 100 rows or more changes session
settings and begins differently; only smaller ones are modelled.

### Scripts of the pages

| Module | Code | State and steps |
|---|---|---|
| `ServerTable` | `BootstrapDataTable` in server mode | draws and their answers in any order, errors, the block of 80 ms, the panels for loading and for no rows; views that edit or remove rows and correct the counters while draws are under way. `row().remove()` is that of the vendored DataTables 1.11.5: in server mode it lowers the filtered counter itself and may move the start of the page (`Overflowed`), before `updateServerSideDisplayState()` lowers the counter again (`Corrected`). A page is any set of rows of the right size, since the user orders the columns |
| `CursorTable` | the same in cursor mode | the history of cursors, the two buttons, one load at a time (a second one is dropped), `reload()`, `create()` again while a load is under way |
| `Shells` | `ModalManager.loadFileContent`, `loadFormContent`, `showFileContent`, `showFormContent` | shared and dynamic shells, mounts in the shell or in an element inside, answers of former contents, Retry. The setup hook is a global that the content mounted last has defined (`CallHook`); `runLoad()` awaits it, and so do the shipped hooks their own requests. It is under way (`setups`) until it ends or throws, writes at any time by the ids of its partial into whatever form has them (`HookWrites`), and when it is over the Retry handler of the shell is deleted (`HookEnds`). A content that declares no hook behaves like one whose hook writes nothing |
| `Panel` | - | what a content area promises: the content asked for last, or a panel with Retry. `Shells` implements it (`ImplementsPanel`) |
| `ApiOverlays` | `showModalApi`, `showOffcanvasApi`, `fetchWithRetry` | attempts under one time limit, refresh beside a load, controllers and the handlers in globals, hiding while a load is under way |
| `OverlayStack` | the stack managers of `helper.js` and `ModalManager` | phases of Bootstrap's transitions, backdrops, both re-indexers and their 0 ms timers. An index is the number of visible elements before it |
| `Forms` | `submitApi`, `deleteApi`, `loginApi`, `uploadApi`, `printHelper`, `exportExcelHelper` | buttons found by id twice, labels, progress bar, answers of each kind and none, the close timer |
| `FormRules` | `validation.js` | a form that is edited, checked, confirmed and sent; the rules as predicates on what they can tell of a value |
| `CsrfToken` | `CSRF.php`, the CSRF functions of `helper.js` | cookie and pages, expiry, regeneration, answers out of order |
| `Preview`, `NotiPanel` | `previewFiles()`, `showNotiPanel()` | stages of a fetch, cover and full screen; classes and timers of a panel |
| `Calendar`, `DataHelpers` | the date and data helpers of `helper.js` | each call a step; checked against reference definitions |

`FormRules` treats a value as a record of what the rules can tell of it; `MCFormCases` gives the
forms, the sample values and, for each rule, what its documentation asks. Where code and documentation differ is
named there (`TooLenient`, `TooStrict`) and excepted from `SentFormObeysItsRules` and
`RefusedFieldBreaksItsRule`.

The refinement of `Panel` is checked as a `PROPERTY` of the run `overlays`: the mapping forgets
requests, mounts, hooks and inputs, and keeps for each area the last content asked for and what
is shown of it. It says that no late answer, setup or retry of a former content ever
shows up in a shell that was given out again. The fields of a form are data, not what is shown: what a late
hook writes into them is in `DataIsItsOwn`.

## Runs

| Run | Specification and bounds | Shows |
|---|---|---|
| `queue_safety` | `JobQueue` `Spec`; 2 workers, 1 operator with retry, flush and clear, a job that runs and an undecodable payload with 2 tries, 1 fault, 1 crash | `TypeOK`, `NoSilentLoss`, `SharedOnlyAfterOverrun`, `HandledOnceWhenQuiet`, `OneCopyWhenQuiet` |
| `queue_shipped` | `SupervisedSpec`, no macros | violates `StartsQueuedJobs` |
| `scheduler_safety` | `Scheduler` `Spec`; 2 processes, one command registered twice with different expiries, one background event, 1 fault or kill | `LocksAreSound`, `OverlapNeedsExpiry` |
| `background_live` | `MCBackground`: two workers with a job that runs or whose class is gone, 1 crash, a second between clock and commit; two schedulers with a guarded event, 2 faults or kills; a runner with 4 tasks, 2 at a time, timeout of a second; two clients that rotate tokens, 4 rows, 1 fault | `QueuedIsResolved`; `StaleLockExpires`; `ChildrenAreSound`, `RunEnds`; `OneSuccessor`, `LoginLives`, `RotationsLeaveNothing` |
| `sessions` | `SessionRegistry` `FairSpec`; 2 devices, 3 deployments, 3 ids, 5 requests, 1 fault, 1 lapse | `RegistryIsSound`, `RevokedStaysOut`, `LimitHolds`, `RequestsFinish` |
| `sessions_revoked` | `Spec`; single device | violates `TakenOutIsRefused` |
| `database` | `MCDatabase`. Transactions: 2 connections, a unique and a plain key, 2 writes, calls 3 deep, 1 throw, 1 fault, any number of kills. Migrations: 2 consoles, 4 migrations (2 that throw on their table, 1 idempotent, 1 backfill), 2 seeders, 4 commands of which `migrate` may run beside another, any number of failures, 1 kill | `ConnectionsAreSound`, `TornNeedsACause`, `DuplicateNeedsOverlap`; `RecordIsSound`, `OnlyTheLostIsOff`, `RollsBackTheLatest` |
| `transactions_nested` | 1 connection, `transaction()` and `insertOrUpdate()` | violates `AllOrNothing` |
| `requests` | `MCRequests`, two requests each. Cache: 3 calls of any kind, 1 crash, lifetimes of a second and for ever. Throttle: limit 1, window of 2 seconds, 1 failed write or kill. Login: 3 names and addresses over 2 users, limit 2 in a second, lock of 2 seconds, 4 failures, 1 fault | `ReadsWhatWasThere`, `EntriesAreSound`; `LimitsAreSound`, `SuccessForgives`; `WaitingEnds` |
| `pages` | `MCPages`: a server table of 3 rows in pages of 2, 2 draws, 2 calls, 1 fault; 4 cursor pages, 6 loads, 2 edits, 1 lost; 3 steps of each of the forms of `MCFormCases`; 3 forms in 2 overlays, 2 sends, 1 fault; 2 tabs, 4 tokens, 3 requests | `TableIsSound`; `CursorsLeadOn`; `ChecksAreSound`; `SavesAreSound`; `WaitingEnds` |
| `pages_footer` | the same, a server table's part | violates `FooterIsReloaded` |
| `overlays` | `MCOverlays`: 2 shared and 1 dynamic shell, 2 partials, 2 contents, 3 requests, 2 that fail or hooks that throw; 2 overlays, 1 retry, 3 loads, 2 faults; 3 stacked overlays, 3 shows, 2 timers at a time; 2 previews of 3 kinds; 6 turns of the panel; 9 dates, 2 exclusions, 3 clocks; an array of 3 items | `ImplementsPanel`, `ContentsAreTheirs`; `NewestIsShown`; `StackIsInOrder`; `HelpersAgree`; `WaitingEnds` |

Related claims are stated apart, each with its comment, and checked as one conjunction. These
are the ones with several parts, besides the type invariant most of them contain:

| Conjunction | Parts |
|---|---|
| `OneCopyWhenQuiet` | `OneFailureRecordWhenQuiet`, `SingleCopyWhenQuiet` |
| `LocksAreSound` | `RunKeepsItsLock` |
| `ChildrenAreSound` | `FewAtOnce`, `NoneIsLeft` |
| `RotationsLeaveNothing` | `OneTokenWhenQuiet`, `EndedStaysOut` |
| `RegistryIsSound` | `ActiveIsListed` |
| `RecordIsSound` | `RecordIsTheSchema` |
| `ConnectionsAreSound` | `ClosedBetweenCalls` |
| `EntriesAreSound` | `UpdatesAreNotLost`, `ForeverStays`, `AddIsExclusive` |
| `LimitsAreSound` | throttle `RefusedForCause`, `FewPass`; login `FewGetThrough` |
| `WaitingEnds` of `requests` | `CallsReturn`, `RefusalsEnd`, `LocksEnd` |
| `TableIsSound` | `EditsAgreeWithServer`, `EmptyPanelHasACause`, `HiddenRowsHaveACause` |
| `CursorsLeadOn` | `StatusIsThePage`, `NextLeadsOn`, `OldRowsHaveACause`, `PreviousGoesBack` |
| `ChecksAreSound` | `SentFormObeysItsRules`, `RefusedFieldBreaksItsRule`, `MessagesAreTheMarks`, `IfAndUnlessAreOpposite` |
| `SavesAreSound` | `OneSaveAtATime`, `LabelsComeBack`, `BarIsEmptied`; CSRF `AnswerRenewsThePage` |
| `WaitingEnds` of `pages` | the loading panel, `LoadsEnd`, `ButtonsComeBack`, `SavedFormCloses` |
| `ContentsAreTheirs` | `DataIsItsOwn`, `RetryHasALoad`, `InputIsKept` |
| `NewestIsShown` of `overlays` | `ListedIsPresent`, `NewestIsShown`, `HandlersAreDropped`; previews `LastFileIsShown` |
| `StackIsInOrder` | `LaterLiesAbove`, `BackdropDimsWhatIsBelow`, `PageIsLockedUnderModals`; previews `LockedUnderCover`; panel `DimmedUnderPanel` |
| `HelpersAgree` | `DaysAreCounted`, `NeverTooMany`, `HourReadsBack`, `OneClockEach`, `TimerIdRuns`; `PathsAreFollowed`, `EmptyIsNoData`, `RemovedIsTheFound`, `ChunksMakeTheWhole`, `TextReadsBack` |
| `WaitingEnds` of `overlays` | `AreaIsFilled`, `LoaderGoes`, `LoaderEnds`, `PageComesBack` |

**Why the bounds are enough.** The races here are between two processes over one object, so
two of each and one object show them; a third process adds no new pair of steps. One failure
of each kind is the interesting number, because every recovery path must face one and the
properties name their exception with the first. In the queue, three row insertions are a
dispatch, a failure record and one retry; two tries are the least for a release and a last
attempt. `RetryAfter = 2` leaves a second inside and a second at the boundary. Two expiries on
one command make a lock stale for one event and fresh for the other. Three inodes are a path's
present file, its predecessor still open, and its successor. Two writes are the least that can
be torn, three levels of calls the least where an inner call ends a transaction that is not
the one around it. Two tokens in rotation need a third and
a fourth row for the two replacements. In a page two requests of a kind under way are enough to
overtake each other, and a second content is enough to find a shell used before, by an answer or a hook of the first; a third request is a Retry beside both; three
overlays are the least with one in between. Nine dates hold a whole week and a weekend on the
border of the span. What does not need a bound is proved (below).

The transactions of `database` are split into four programs (`MCPrograms`), each checked to its
full depth: all calls in one program are too many states, and the hazards - nesting, a batch cut
in half, opposite lock orders, a lookup beside an insert - need at most three kinds of call.

**Fairness.** `FairSpec` of the queue: the clock runs, and a worker that is up is scheduled
(an operating system runs its processes; `handle()` is assumed to end, since `--timeout` cannot end
it). `Tick` needs strong fairness only because its guard bounds the seconds inside a
`pop()`. Nothing obliges anyone to start or stop workers, and `QueuedIsResolved` assumes in
its own text that one worker eventually stays up. `SupervisedSpec` adds that a supervisor restarts what
ends; the finding stands under it, so it is not for lack of a worker.
The task runner and its clock go on, its children need not.
`FairSpec` of the scheduler: the clock, passes that have begun, background processes that
end, and cron, which again and again starts a pass with every event due. `FairSpec` of the
cache and the sessions: a call or request that has begun goes on; `flock` is released when its
process ends. For the throttle and the
login policy: the clock, and requests that have begun. In the pages: a request is answered or fails in the
end (the browser gives up on a connection), and a timer fires; a setup hook may wait for ever. `LoaderEnds` and `LoaderGoes` say in their text where a fetch has no time
limit. There is no fairness in `Migrations`, `Transactions` and `TokenRotation`, and no liveness is claimed.

## Findings

1. **No worker starts (`queue_shipped`).** `Dispatcher::ensureTable` calls `rawQuery()` and
   `pop()` calls `raw()` on the connection; no class and no registered macro of the repository defines
   either, so both end in `BadMethodCallException`. Worker.php:8 says it "Processes jobs from
   the database queue". All other queue runs assume a deployment that registers both macros.
2. **An evicted session is let in again (`sessions_revoked`).** An empty registry is taken for an
   unavailable cache and fails open (Auth.php:3515): when the last listed session logs out,
   the sessions evicted before are admitted. The auth reference says that the previous device
   "will be logged out on next request".
3. **`transaction()` around `insertOrUpdate()` does not roll back (`transactions_nested`).** The
   inner call commits the outer transaction (BaseDatabase.php:5976), and an exception thrown later undoes
   nothing. The query builder reference says "Auto-commits on success, auto-rollbacks on
   exception".
4. **A removed row is counted out twice (`pages_footer`).** `removeRow()` calls `row().remove()`, which in server
   mode lowers `_iRecordsDisplay` itself (DataTables 1.11.5), and then lowers it again by its delta
   (BootstrapDataTable.js:1313, 1323): footer and page buttons count one row too few per removed row until the next draw. The JavaScript
   reference asks to use `removeDatatableRow()` "instead of full list reloads whenever the visible row can be mutated
   locally".

## What the exceptions in the properties show

The properties state when something may go wrong, and TLC reaches each of those cases.

- *Queue.* A job that runs longer than `retry_after` is worked on by two workers (`overrun`).
  `markAsFailed` deletes the job even when the insert of its record failed; a retry deletes by id and
  after a flush may delete a younger record (`excused`). An undecodable payload ends the worker
  and is not counted against its tries before it is reserved again. `failed()` is called
  after every failed attempt, not only the last. `--timeout` cannot interrupt `handle()`: the signal is
  dispatched at the head of the loop only.
- *Scheduler.* A run that outlasts its expiry is overlapped, and its end unlinks the lock of the
  run that took over (`outlived`). The lock of a background event is released as soon as it is spawned.
  A hook that throws while a failure is being handled ends the whole pass.
- *File cache.* Two `add()` on one expired entry can both win, and a `get()` that finds an
  expired entry may unlink the one that has replaced it (`reclaimed`). The unlocked write of
  `add()` may overwrite an increment (`clobbered`).
- *Sessions.* A check that read the list before a login merges the evicted entry back (`revived`). With
  rotating ids the new id is not listed until the next check.
- *Login policy.* Requests that have counted before the failures of others are inserted all guess once, so
  a lock lets through as many guesses more as there are requests at once. That bound needs a lock that outlasts the
  seconds in which failures are counted, as configured (`lockout_seconds` 900, `decay_seconds` 600, app/config/auth.php:78):
  with both alike the lock ends while its failures still count, and the next failure makes one more of them. Nothing
  in the code asks for it, so `FewGetThrough` names it. A success deletes the rows it sees; a
  failure of the same user that is inserted between its three deletes may stay.
- *Rate limiting.* Hits of one moment overwrite each other, and a read between truncation and write begins a
  new window (`overlap`); a failed write forgets the hit.
- *Tokens.* A rotation cut off between its statements leaves a second token (`cut`); a token of a login that was
  ended survives only in that way.
- *Task runner.* A child that reaches the timeout after it was polled and before the end of the same pass, when the
  wait itself is over time too, stays in `runningTasks`. The next chunk then waits for room without a limit: if the
  child hangs, the run never ends (`missed`).
- *Tables.* The filtered counter is too low by the rows removed since the last draw, so a button of the last page may lead to the first
  (`removed`, finding 4). An answer DataTables discards settles the panels all the same (`astray`). A reload of a cursor table
  while a page loads is dropped, and the old rows stay (`torn`, `behind`).
- *Forms.* All forms call their button `submitBtn`: with two overlays the first in the document is
  found, so another button may be disabled (`mixed`, `stranded`). An answer to a form that was closed and opened
  again in the meantime gives the button of the new opening back, so that one can be sent twice (also `mixed`). Answers 419 and 503 are silent. Without an
  answer the handler throws, and the button of the login page stays disabled; the print button may show "Please wait..." for good.
- *CSRF.* With `csrf_regenerate` the header of an accepted write names the token it has just replaced, so the next
  write of that page is refused; as shipped the option is off.
- *Overlays.* The Refresh button calls `window.handleRefresh(id)`, which is an object: it never works (the
  models refresh through the controller). A load that was overtaken leaves its handler behind (`leaky`). Both stack managers index the same
  overlays, by two orders, once a `ModalManager` exists. A setup hook that comes back when its shell holds another
  content writes into the new form, if it has the same ids, over what was typed, and ends by deleting the Retry handler of the other content:
  when that one's request then fails, its error panel has a button that does nothing (`strays`). With the same
  partial in two overlays the data go into the first in the document (`twins`). In a dynamic overlay a hook that throws after
  its await puts the error panel over the form the user has begun to fill.
- *Previews, panel.* Second attempts have no time limit (`hung`), the listener for Escape is never removed, and
  `destroy()` of the panel ends in a `ReferenceError`.
- *Dates.* `calculateDays` counts a half-open span and excludes inclusively, so it may return too few days, even
  a negative number; duplicates count twice; west of Greenwich weekdays are a day off. The cleanup of a replaced clock deletes
  the id of the new one (`stale`).
- *Data helpers.* `hasData` without a path returns the default although there is data; a path that begins
  with a bracket finds nothing.
- *Validation.* PM times under `h:i A` and the formats `m/Y` and `m-Y` are always refused; days that overflow a
  month pass; `lt` and `gt` of a text against a literal compare lengths.
- *Migrations.* A process killed between the DDL and the record leaves a table that is not recorded, on
  which the next `migrate` fails, unless the file is idempotent (`lost`); a file that throws between
  two of its statements leaves the same (`lost`); an exception among the drops of `fresh()` leaves records of tables that are gone (`lost`); one killed while it writes empties the record (`cut`); a
  rollback, seed or fresh beside another command loses entries (`beside`), and so do two `migrate` of which
  one has an idempotent file to do: the second finds it done, goes on, and writes a record without what the
  first has recorded since, or after a read of the truncated file a record of its own (`beside`).
- *Transactions.* Nested calls, an `Error` (`transaction()` catches `\Exception` only), and a
  deadlock victim whose callback goes on tear a call (`causes`). `insertOrUpdate()` makes a
  duplicate beside an overlapping transaction, since its lookup locks nothing.

## Proofs

40 theorems in eight modules. Each proves an invariant that every step preserves (`IInv`; where a module has several
components, one for each, named below), checked by TLC before it was proved, and reads the theorems off it. None has a
bound on the numbers of processes, rows, requests, overlays or failures: these are constants of which only
what the assumptions say is known.

| Module | Components | Theorems |
|---|---|---|
| `JobQueueProofs` | queue | 5 |
| `SchedulerProofs` | scheduler | 3 |
| `SessionRegistryProofs` | session registry | 4 |
| `DatabaseProofs` | transactions, migrations | 8 |
| `RequestsProofs` | cache, rate limiter, login policy | 5 |
| `BackgroundProofs` | access tokens, task runner | 8 |
| `PagesProofs` | forms, CSRF token, server and cursor tables | 3 |
| `OverlaysProofs` | shells, overlays with an endpoint, previews, stack, panel | 4 |

### Job queue

`JobQueueProofs` proves five theorems of `JobQueue`'s `Spec`, for any finite sets of workers and
operators, any set of messages and all values of the bounds:

| Theorem | States |
|---|---|
| `Typed` | `Spec => []TypeOK` |
| `ClaimsAreExclusive` | `Spec => []SharedOnlyAfterOverrun` |
| `JobsAreNotLost` | `Spec => []NoSilentLoss` |
| `SuccessIsFinal` | `Spec => []HandledOnceWhenQuiet` |
| `NothingIsMovedTwice` | `Spec => []OneCopyWhenQuiet` |

*Assumptions*: `TimeAssumption` (`retry_after` is positive and longer than the seconds between
the clock reading of `pop()` and its commit), `JobAssumption` (the types of the constants),
`ProcessAssumption` (finitely many processes, and a worker is no operator; only
`NothingIsMovedTwice` counts them), `NoneAssumption` (NULL is no row). TLC evaluates them in both
runs of `MCJobQueue`. That `Slack < RetryAfter` matters: were
a `pop()` allowed to take as long as a reservation, its claim would be expired when it commits.

*The claims.* `SharedOnlyAfterOverrun` is not inductive: nothing in it says why a row that is
held cannot be claimed. `ClaimInv` adds it. `Exclusive`: until a row is overrun, the
reservation in the table is its holder's, as old as the time it was held, hence not expired, and no
other worker holds or locks the row. `LockedRows`: between the `SELECT` and the commit
the row stays claimable and has one locker. `Fresh`: a stamp handed out is above all in use, so
an insert never takes the place of a row someone holds. `Claims`: whoever locks or holds a row has it in hand.
`Select` establishes `LockedRows`, `Reserve` turns it into `Exclusive`, `Tick` keeps
both because it ages the reservation and the holding alike and marks the row at the moment they
would part.

*The messages.* `LossInv` says, of each process about to delete a row, that it knows a younger copy: a
worker in `recorded` of the failure record it wrote, an operator in `inserted` of the job it inserted,
a worker in `handled` that the message is done (`Covered`, with `SafeAbove`). "Younger" is what
makes it inductive: copies delete only what is older than themselves, so two processes cannot each delete
the copy the other relies on. `Identity` says that a row is not reused for another message.
One lemma per conjunct, one step per action; `Local` takes the actions that touch no table together.

*The results.* `HandledOnceWhenQuiet` speaks of the second success only. `Results` says what keeps it
away: a row that was handled, or has a failure record, is `Settled` - its worker is at the delete,
or the row is gone and in nobody's hand. In quiet times a settled row stays so: a worker
that recorded a result goes nowhere but to the delete, nobody else holds the row before an overrun
(`Exclusive`), and a stamp is not given out twice (`Fresh`).

*The copies.* `SingleCopyWhenQuiet` counts rows and moves, which no step relates. `CopyInv` gives each
message one token. A job row has it, in the table or in a worker's hand, until its failure is
recorded (`JobToken`); a failed row, in the table or in the operator's hand, until it is
back in the queue (`FailToken`). In calm times - no fault, crash or overrun, one operator - a message has
at most one token (`OneToken`): a step makes none, or hands it from the row it will delete to the row it
inserts. `Known` (what is anywhere was dispatched) keeps `dispatch()` from adding one,
`FetchedStays` ties an operator to the row it will delete. A copy without token is then a row that some move is about to
delete, a move deletes one row, and the cardinalities follow (`OneMore`).

### Access tokens

`BackgroundProofs` proves six theorems of `TokenRotation`'s `Spec` (and `Invariant`, on which they rest), for any set of requests,
any number of tokens and faults, from no assumption at all:

| Theorem | States |
|---|---|
| `TokensAreTyped` | `Spec => []TypeOK` |
| `RotationHasOneWinner` | `Spec => []OneSuccessor` |
| `RotationKeepsTheLogin` | `Spec => []LoginLives` |
| `RotationsLeaveOneToken` | `Spec => []OneTokenWhenQuiet` |
| `EndedLoginsStayOut` | `Spec => []EndedStaysOut` |
| `RotationsAreClean` | `Spec => []RotationsLeaveNothing`, the two before together |

The invariant `RotationInv` has four parts beside the types. `Working`: a rotation that has
inserted its replacement keeps it to itself until the reply, no two have the same one, and it descends from the
login of the token it replaces. `Replaced`: what was replaced has no row, and of the rotations of one token at
most one is past its delete - a delete that affects a row is the only way there, and a row goes once. `Alive`: every
login that was not ended has a row that no rotation is about to take back; the replacement is inserted
before the old row goes, and the one rotation whose delete succeeded keeps it. `Single`: as long as no rotation was cut off, a
valid token is known to a client or in the hand of a rotation, and a login has one that is not pending, until it is ended. The last
three theorems follow when nobody rotates. `Local` takes the steps that touch no row together, and two
frame lemmas say what an insert leaves alone.

### Scheduler

`SchedulerProofs` proves three theorems of `Scheduler`'s `Spec`, for any sets of processes, commands and
inodes, any sequence of events with any expiries, and all values of the bounds:

| Theorem | States |
|---|---|
| `Invariant` | `Spec => []IInv` |
| `RunsExclude` | `Spec => []OverlapNeedsExpiry` |
| `LocksAreKept` | `Spec => []LocksAreSound`, the types included |

*Assumptions*: `EventAssumption` (a non-empty sequence of events, each with a positive number of minutes;
`withoutOverlapping()` takes any number, and with 0 every timestamp is stale and the lock excludes nobody), `BoundAssumption` (the bounds are numbers), `NoneAssumption` (null is no
inode, process or age). TLC evaluates them in `scheduler_safety`.

`OverlapNeedsExpiry` says nothing of a process that is about to write its timestamp. `IInv` adds what it looks at.
`Detached`: a file that is open and no longer the one of the path holds a timestamp that is still fresh, until the command is
marked - so a process that slept while the file was unlinked is refused, not let in. `Kept`: the file of the path is that
of the guarded run, of its age, and fresh. `Owned`: an inode serves one command. `Flocks`: the process past
`flock()` is the owner. `Acquire` keeps all of it because a stale or empty timestamp is neither
`Detached` nor `Kept`; `Release` turns the file of its run into a detached one; `Tick` ages timestamp and
run alike and marks the command when they expire. The steps that move only their own process satisfy `Yields`,
one frame lemma for fourteen actions. The minimum over the
expiries of a command is reasoned about with well-founded induction over the natural numbers (`LeastExists`), since
the expiries are any function of the events.

### Cache

`RequestsProofs` proves three theorems of `FileCache`'s `Spec`, for any number of processes and
inodes, any values and lifetimes, and all values of the bounds:

| Theorem | States |
|---|---|
| `Invariant` | `Spec => []IInv` |
| `ReadsAreOfTheirTime` | `Spec => []ReadsWhatWasThere` |
| `WritesAreKept` | `Spec => []EntriesAreSound`, the types included |

*Assumptions*: `CacheAssumption`: the values are numbers and have a largest, lifetimes are positive and
have a longest or are for ever, and the markers for nothing and for an empty file are no entries, inodes or processes. TLC
evaluates it in `requests`.

`Locks`: who writes holds the lock of its inode, and nobody else does. `OneWinner`: while nobody removes the
file, whoever fills it is the only `add()` that won. `Undisturbed` is the heart of `WritesAreKept`: as long
as nobody takes the file away or writes to it without the lock, every handle is of the file the path names
(`Attached`), a writer has truncated it and writes the number the writes so far add up to (`WriterOf`), an `add()`
that is about to write has the last value unless somebody came between (`FillerOf`), and
between writes the file shows the last one (`Resting`). `ReadsSee`: what a read may answer is among
what the key showed since the call began. The bound on the numbers in the file is itself an argument, over the
cardinality of the increments under way (`Bounded`), since each adds one to what another has written.

### Rate limits and the login policy

`RequestsProofs` proves two theorems of `RequestsSpec` about the other two components, for any finite set of
requests, logins and users, any limits, windows and lockouts, and all values of the bounds:

| Theorem | States |
|---|---|
| `LimitsStaySound` | `RequestsSpec => []LimitsAreSound`, the types included |
| `SuccessAlwaysForgives` | `RequestsSpec => SuccessForgives`, an action property |

*Assumptions*: `RequestsAssumption`: finitely many requests; limits, windows and lockouts are at least 1; null is no request,
login, verdict or state of a counter. TLC evaluates it in `requests`.

*The throttle.* Neither `RefusedForCause` nor `FewPass` says anything of the file. `LimitInv` ties it to the two
histories. `CountsHaveHits`: whatever the file counts, and whatever a request is about to write, was hit at least as
often since its window began - the hit with that number in the history is no older than the window. It holds with any
interleaving, because a lost update only lowers a count. `RefusedSawHits` keeps for each request what it saw when it was counted.
`PassesAreCounted` is the converse, and holds only while one request follows the other: those
that passed before the ones of the present window did so when it began or earlier, and those before as many as the
limit are a whole window old (`Passed`). Two windows meet in the time of one, hence `2 * MaxAttempts`. The
histories are sorted (`Sorted`), so counting the recent hits is finding the first that is not: `RecentIsCounted`.

*The login policy.* What bounds the failures past a lock is how many requests had counted before it: `FewAreOnTheWay`
says that the failures of the last `Decay` seconds and the requests that may still add one - past the count and
not yet at the end - are together fewer than the limit and the requests. A step of a request moves it
from one side to the other (`Record`) or takes it away; a request joins only when it found fewer
failures than the limit (`UnlockedIsFew`: no lock means that the failures counted back from the
newest are fewer than the limit, and this is where the lock must outlast the count). The same argument goes for an
identifier and for an address, since both are a part of the table and a part of the requests. `BeganToForget`: a request that has
deleted the failures of the user left none from before, and none can come back, as a row that is inserted is new.

### Session registry

`SessionRegistryProofs` proves four theorems of `SessionRegistry`'s `Spec`, for any number of
devices, sessions, requests, faults and lapses, and every configuration:

| Theorem | States |
|---|---|
| `Invariant` | `Spec => []IInv` |
| `RevokedAreOut` | `Spec => []RevokedStaysOut` |
| `LimitIsKept` | `Spec => []LimitHolds` |
| `SessionsAreListed` | `Spec => []RegistryIsSound`, the types included |

*Assumptions*: `SessionAssumption`: the types of the constants, and a null that is no device and no set of sessions. TLC evaluates it in both runs of `MCSessionRegistry`.

`Computed` is what the lock is for: what its holder is about to write is what it computed from the registry as it
is now, its own session added and those it takes out removed. `Numbered` and `NewIsUnlisted`: session
ids go up, a browser has its own, and the one of a login under way is in nobody's list.
`CheckedIsNotBanned`: a session whose check is under way was found listed, so it is not
among those that must stay out; the merge of a stale check therefore revives
none of them. `OnIsListed` extends `RegistryIsSound` to the moments inside a request.

### Transactions

`DatabaseProofs` proves four theorems of `Transactions`' `Spec`, for any set of connections and keys and
any programs, depths and numbers of throws and faults:

| Theorem | States |
|---|---|
| `Invariant` | `Spec => []IInv` |
| `CallsAreWhole` | `Spec => []TornNeedsACause` |
| `KeysAreUnique` | `Spec => []DuplicateNeedsOverlap` |
| `ConnectionsAreClosed` | `Spec => []ConnectionsAreSound`, the types included |

*Assumptions*: `TransactionsAssumption`: the types of the constants, a null that is no set of keys and no
throwable, and at least one connection. TLC evaluates it in `database` and
`transactions_nested`.

The invariant has a part for the server and one for each connection. `ServerOk`: nobody else has what a
connection wrote in its open transaction (`Stamped`), and a key that is not excused has one transaction at
work on it (`OneToucher`), whose snapshot tells the truth about it (`SnapshotIsTrue`), and one
row (`OneRow`). `ConnOk`: only `transaction()` has calls in it (`Frames`); an `insertOrUpdate()` that still has its
insert to do has looked the key up in its transaction and found nothing (`LookedUp`); a transaction is open around the calls that
opened one, or an `Error` left it there (`Closed`); and without a cause that may tear it the outermost
call has all its writes in its transaction or, outside of one, its only write is committed (`Whole`). The steps work on the
top of a stack of calls, so `push` and `pop` have lemmas of their own, over sequences of any depth.

### Migrations

`DatabaseProofs` also proves four theorems of `DatabaseSpec` about the migrations, for any number of consoles,
migrations, seeders, batches, commands and kills, whatever `Alone`, `Idempotent`, `Backfills` and `Targets` are:

| Theorem | States |
|---|---|
| `SchemaAlways` | `DatabaseSpec => []SchemaInv` |
| `TheRecordTells` | `DatabaseSpec => []RecordIsSound`, the types included |
| `OnlyTheLost` | `DatabaseSpec => []OnlyTheLostIsOff` |
| `TheLatestIsUndone` | `DatabaseSpec => RollsBackTheLatest`, an action property |

*Assumptions*: `DatabaseAssumption`: the types of the constants, and values for no process, no command and a truncated
file that are none of those; TLC evaluates it in `database`.

*One process.* `PlanOk` says what a command is at and what it may still have to do, `WellKept` that a record has its batches in
the order of its entries. `MemOk` is what makes a rollback right: the work that is left is closed upwards - with a
migration it has every later one of the record (`ToRollBack` takes whole batches, and batches do not fall) - so that the latest
entry of the work is the latest of all. A `migrate` has the files still to do that its record lacks, and a batch
after all others.

*Many.* `OrderlyOk` is why several `migrate` at once do no harm although each overwrites the file with what it holds in memory. A process
that has a table to record is the only one (`SaverOk`), and what it will write is exact: tables in the schema, in their order. Of the others each has
an exact record in memory, or is `Blocked`: the least of the files it has still to do is a table that exists already, so its next `up()`
throws, and it never writes again. Creating a table that must not exist is the lock that the code does not take. It works because every process
takes the files in the order of their names: when one creates a table, it is the least that was missing, and
whoever planned on an older record has it in its work, too (`UpOrderly`). Between a `Truncate` and its `Save` a
process may read an empty file; it then plans everything, and the first table stops it (`LoadOrderly`).
An idempotent file is no lock. So `Orderly` asks that no process that runs beside another one has such a file to do,
which `AloneOk` keeps: `Begin` looks at the work of those that run, `Load` at the plan of the one that
joins them (`TodoMoves`). Where there is only one process, its record has all of the file's entries (`RunnerOk`), and a
backfill changes neither the tables nor what the record tells of them (`SchemaRecorded`, `SchemaRemoved`: `Schema` leaves the
backfills out).

*Cut short.* `LostOk` follows the difference between the record and the tables through commands that run one at a time (`OneAtATime`): what a process
has in hand when it is stopped goes into `lost`, and it adds nothing else. Commands side by side are
excepted: a table without a record stops one process that migrates, and need not stop the second.

### Task runner

`BackgroundProofs` also proves `ChildrenAreLookedAfter`: `BackgroundSpec => []ChildrenAreSound`, for any
number of tasks, size of the chunks and timeout. *Assumption*: `BackgroundAssumption`: they are numbers, and
`setMaxConcurrentTasks()` refuses less than 1; TLC evaluates it in `background_live`. The invariant `TasksInv`: who has not been told to end
is in `runningTasks` (`Known`), these are never more than a chunk, not even with what is left
of earlier ones (`FewRunning`), and when the run is over nobody is left (`NoneIsRunning`).

### Shells and panels

`OverlaysProofs` proves two theorems of `Shells`' `Spec`, for any shells and ways of mounting and all values of the bounds:

| Theorem | States |
|---|---|
| `ContentsAreSound` | `Spec => ContentsAreTheirs`: data, Retry buttons and input |
| `PanelIsImplemented` | `Spec => ImplementsPanel`: `Shells` refines `Panel` |

*Assumptions*: `ShellsAssumption`: a shell is shared or dynamic, callers mount in its element or in one of their
own, no partial is named like the value for none, the bounds are numbers. TLC evaluates it in `overlays`.

*The contents.* A form filled with another content's data, a Retry without a load and an input wiped by a late answer
come from an answer, or a hook, that meets a shell which has moved on. `IInv` says what it can find.
`Numbered` and `Own`: a request or a hook is for a content that was asked for, and whatever a shell names
is one of its own. `FirstIsAlone`: while the first load of a content with an element of its own is
under way and that element is there, the area is blank, and the content has no second load and no hook under way (`Alone`).
`FirstHasRetry`: when the first load of the last content fails, its Retry is there, unless a content or hook of the same shell
came out of its place before. `HookHasRetry`: so it is when the hook of a dynamic overlay throws in the first load, since nobody can have
retried yet. Both answers and the hook that throws put something into a shell: two lemmas say what that changes (`PutFacts`) and
keeps (`PutKeeps`), a third that the element of another content and what is shown there stay (`FirstStays`). `LandingKeeps` takes the mounted and the failed
answer together. `HookWrites` keeps `DataIsItsOwn` because a hook that is in its place and has its ids for itself finds only its own form; `HookEnds`
keeps `RetryHasALoad` because one that is in its place finds the content, not an error, in the area.

*The refinement.* `ShowsTheLast`: a separate area - a dynamic overlay, or a shell in which all callers
mount in elements of their own - shows the content asked for last. Then every step of `Shells` is one of
`Panel`'s for the areas: opening is `Open` (`LoadOpens`), what is put into an area is `Fill` or `Refill` for its content and
a stutter for every other (`PutFills`), and the rest touch no area (`NextImplements`).

### Overlays, previews and the stack

`OverlaysProofs` proves two theorems of `OverlaysSpec` about the rest of the overlays:

| Theorem | States |
|---|---|
| `TheNewestIsShown` | `OverlaysSpec => []NewestIsShown`: overlays that load from an endpoint, and previews |
| `TheStackIsInOrder` | `OverlaysSpec => []StackIsInOrder`: stack, cover of the full screen, dimming |

*Assumptions*: `OverlaysAssumption`: the bounds are numbers, `settings.retry` is at least 1 (with 0 `previewFiles()` would fetch
nothing), overlays are finitely many and have their places in the document. TLC evaluates it in `overlays`.

*The newest.* `ApiInv`: until a load overtakes another, an overlay has one at a time (`LoadsAreAlone`), so the answer that
is shown is that of the last; a step that takes a load further keeps its number and its overlay
(`LoadGoesOn`), one that ends it takes it away. `FilesInv` says the same of previews, where an attempt that
pauses may be followed by one more (`PreviewsAreNumbered`).

*The stack.* `StackIsInOrder` speaks of rest only: no transition, no timer. `StackInv` is what holds in between.
`ShowsAreNumbered`: each overlay that is not hidden has the backdrop, and once there is a manager the order, of its own
show, and no two share one. `ManagerIsLast` is the heart of it: when no overlay moves, the last timer that
waits is the manager's, or, when none waits, the indexes are those the manager computed. It is why the order of
the two registrations matters: the manager's listener runs after that of `helper.js`, so its timer has the last word. An index
is a cardinality, and that a later show has a higher one is that of a set inside another. `BodyIsLast` is the same for `modal-open`.

### Forms and the CSRF token

`PagesProofs` proves `SavesStaySound`: `Spec => []SavesAreSound` for `MCPages`, for any overlays and forms in them,
tabs, tools and bounds. *Assumptions*: `PagesAssumption`: the bounds are numbers, of which page length, draws, pages
and tokens are at least 1; a form is in one overlay, and named like no tool; the rows are finitely many; null is none of all these. TLC evaluates it in `pages`.

`FormsInv`: `AskedCanBeSent` (who is asked to confirm is in the page and enabled), `SentWaits` (one form is sent at a time,
and its button waits as long as the overlay was not opened again), `BusyHasACause` (a button that shows that it waits has
an answer or a timer to wait for) and `BarHasACause`. `OneSaveAtATime` was not
invariant as it was first stated: a form closed and opened again while its answer was under way could be sent a third
time, because the old answer enables the button of the new opening. The bound of two requests
hid it; the attempt at a proof did not, and the property now names that case (`mixed`).

`CsrfInv`: `SingleKnowsTheCookie` (a request that was alone carries the cookie of the browser, and its answer
names the token that will be in the cookie), `LastIsFresh` (so the tab that had this answer holds it) and `CalmIsValid`. `TimeUpIsGone`
is needed for the expiry: no answer under way carries a token newer than the one that expired.

### Tables

`PagesProofs` also proves `TablesStaySound`, `Spec => []TableIsSound`, and `CursorsAlwaysLeadOn`, `Spec => CursorsLeadOn`, from the
same assumptions.

*Server tables.* While calls are under way a table that is edited in place shows no state of the server: rows of
an answer, some edits more, some less. `TableInv` names the state it does show: there is a snapshot `B` of the server whose
rows and counters are those on the screen (`Shows`), and whatever differs between `B` and the server is due to a call that
was accepted and is still to return (`Explains`). The same is asked of every answer under way to the newest
request, unless an edit overtook it (`AnswerIsExplained`). When a call returns, its edit moves `B` by one row; when the server
does something, the call that did it explains the difference; and when no call is left `B` is the server, which
is `EditsAgreeWithServer`. Places of a row go one way (`Beyond`), so that a late edit cannot undo a later one. Counters are
cardinalities of parts of the rows, and an edit changes them by one - the filtered counter by two where it removes a row, so it is
too low by the rows removed since the last draw, as far as it is not zero.

*Cursor tables.* `CursorInv`: the way back starts at the first page and, unless the table was created anew under a
load, goes through every page up to the present one (`HistoryIsTheWay`); the page that was asked for is where its button
led when it was clicked, also when its answer comes (`LoadFollows`) - which holds because one load is under way at a time; rows, cursors and controls
are of one page (`SheetIsThePage`); old rows wait for a reload (`OldRowsWait`). `PreviousGoesBack` is an action property.

### What is only model-checked

- *Liveness*, in every module (`QueuedIsResolved`, `StaleLockExpires`, `RunEnds`, `RequestsFinish`, the three `WaitingEnds`): it
  needs fairness and `ENABLED`, which the prover does not handle.
- *The checks of forms* (`ChecksAreSound`): the rules are a sequence that is filtered, and the references are given for the
  forms and sample values of `MCFormCases` only.
- *The helpers* (`HelpersAgree`): pure functions with folds, checked against references over bounded inputs.

Recursion would be lost on the prover too, so no module uses `RECURSIVE`.

## Not modelled

Text and pure functions on the server (query and schema builder, validation, views, collections, routing), I/O
(files, backup, logging), application code in controllers and seeders, and vendored scripts: see
`PROJECT.json`, `components`, for the reason of each. `public/general/js/ModalManager.js` is an
older copy that no page loads.

*The connection pool and the statement cache*: `DatabaseRuntime` keeps one manager per connection, with its PDO, for
the life of the process, and the pool is asked once per name. Nothing calls `disconnect()` or
`cleanupConnections()`, so time-outs, eviction and statements of a replaced connection are never reached.

*The older throttle trait*: its middleware is registered as `aggressive-throttle`, and no route uses it. Its
escalation runs over up to 35 blocks of a client, and its counters are those of `RateLimit` otherwise.

Inside the modelled components: the `sync` queue driver and `Job` serialisation; cron expressions and
`schedule:work`'s minute loop (which events are due is any set); `ArrayStore`, `flush()` of the cache; automatic
bans, password expiry, digest nonces and remember-me of `Auth`; expiry dates and abilities of
tokens; soft deletes and `firstOrCreate()`; on the pages client-side
tables, column rendering, toasts and dialogs, the PDF viewer's buttons, dimensions of images, and formatting helpers.

## Plan

| Step | Module | Content |
|---|---|---|
| done | `JobQueue`, `JobQueueProofs` | model, runs, five theorems |
| done | `Scheduler`, `SchedulerProofs` | model, runs, three theorems |
| done | `SessionRegistry`, `SessionRegistryProofs` | model, runs, four theorems |
| done | `Transactions`, `Migrations`, `MCDatabase`, `DatabaseProofs` | models, composite, runs, eight theorems |
| done | `FileCache`, `LoginLock`, `RateLimit`, `MCRequests`, `RequestsProofs` | models, composite, five theorems |
| done | `TokenRotation`, `TaskRunner`, `MCBackground`, `BackgroundProofs` | models, composite, eight theorems |
| done | `Shells`, `Panel`, `ApiOverlays`, `OverlayStack`, `Preview`, `NotiPanel`, `Calendar`, `DataHelpers`, `MCOverlays`, `OverlaysProofs` | models, composite, the refinement of `Panel` checked and proved, three more theorems |
| done | `ServerTable`, `CursorTable`, `Forms`, `FormRules`, `CsrfToken`, `MCPages`, `PagesProofs` | models, composite, three theorems |
| 1 | `Cron` | `isDue` and `cronFieldMatches` against a reference definition, over bounded expressions |

Modules are written to be proved about: constants with named assumptions, an action per
operation, invariants in named parts, no recursion.
