# HK-NOVA: specifications, model checking and proofs

HK-NOVA backs up the configurations of network devices: a FastAPI application over
SQLite and SQLAlchemy, with APScheduler in the same process. This directory holds TLA+
modules that model its parts, the TLC configurations that check them, and theorems about
them that TLAPS checks. Paths below are relative to the repository.

## 1. The system

### 1.1 What runs

One process, one event loop. An `async def` handler or coroutine has the loop to itself
between two `await`s; `def` handlers (only `app/routers/users.py`) run in a thread each
and interleave at every database statement. APScheduler fires coroutines on the same
loop. File deletions and device connections run in worker threads while their coroutine
awaits. There is one SQLite database; every request and every job opens a session of its
own, except the monitoring jobs, which share one. Nothing in memory survives a restart.

Three facts about the libraries decide what can go wrong and are part of the models:

* SQLite gives out `max(id) + 1`, so the id of a deleted newest row is used again
  (`users` and `audit_logs` are declared `AUTOINCREMENT`; backups, job runs, schedules,
  devices and destinations are not);
* `expire_on_commit`: after a commit or a rollback the objects of a session are read
  again at the next access, which raises `ObjectDeletedError` if the row is gone;
* an `UPDATE` in a commit that finds no row raises `StaleDataError` and leaves the session
  unusable until somebody calls `rollback()`.

### 1.2 Components

| Component (source under `src/app`) | State | Operations | Interacts with | Hard behaviour | What makes it correct |
|---|---|---|---|---|---|
| Backup pipeline (`modules/backup_service.py`) | `backups`, `job_runs`, `backup_failures`; counters in a session | run a job, back a device up, destination loop with retries, fallback | scheduler, monitor, HTTP triggers, retention, maintenance | rows change under awaits; commits of a shared session; crash between insert and last commit | counters exact; a success is backed by stored copies; failures visible; every run ends |
| Failure records, classification, backoff (`modules/retry_service.py`) | `backup_failures` | record, classify, back off | called by the pipeline with its session | a failed record rolls the caller's session back; the text of an exception decides whether it is retried | nothing the caller counted is lost; the documented faults are retried, no others |
| Daily maintenance (`modules/maintenance.py`) | the same rows | stale cleanup, sweep, purges, VACUUM | runs at any time | marks by age alone, live or not | no row stays in_progress; verdicts stand |
| Retention (`modules/retention/manager.py`) | `backups.is_pruned`, the files | sweep per destination and device | after every job, daily, on request; deletions over HTTP | file and row in different steps; several sweeps at once; partial failure | rows and files agree about what is gone |
| Backup rows over HTTP (`routers/backups.py`) | rows, files | delete, bulk delete, trigger | pipeline, retention | deletes rows whose backup is running or being pruned | as above |
| Destinations (`routers/destinations.py`, `modules/destinations/*`) | `destinations`; files, commits, messages | edit, delete, test; save, delete | pipeline, retention | destination deleted in the middle of a loop; uploads in parts whose answers get lost; one git repository for all jobs | a failed destination is seen; a returned path gives the file; a commit has what was reported as saved |
| Scheduler (`modules/scheduler/*`, `routers/jobs.py`) | `schedules`, APScheduler's jobs | add, edit, delete, run now, reload | pipeline | a copy of the rows in memory; ids used again | jobs agree with rows; a schedule keeps running |
| Configuration monitor (`modules/config_monitor.py`) | lists of devices in jobs, one session | poll, compare, back up | devices, pipeline | stale lists; a session shared by jobs | drift of a critical device is captured |
| Accounts (`routers/users.py`, `security.py`, `bootstrap.py`) | `users`, session cookies | create, update, delete, first account | every handler authenticates | threads: check then write | an administrator remains |
| Groups, devices, locations (`routers/{groups,devices,locations}.py`, `modules/location_service.py`) | `devices`, `groups`, `locations` | CRUD, import, sync of a location | pipeline, scheduler, monitor | names used as keys; cascades | devices follow their location and group |
| Diagnostics (`routers/diagnostics.py`, `modules/diagnostic_analyzer.py`, `modules/auto_fix.py`) | `backup_failures` | analyse, retry, resolve, auto-fix | pipeline | a retry resolves failures by a status it reads after the awaits, and those that jobs record meanwhile | what a retry resolved it has stored |
| Rate limiter (`rate_limiter.py`) | timestamps per key | sliding window | every request to `/api/v1` | threads without a lock; whole seconds | never more than the limit in a window once requests come one at a time; a refusal has a cause, and an end |
| Engines (`modules/engines/*`) | connections, sessions with the firewall | fetch, test | the pipeline, the device pages | faults between any two requests; errors that look like answers | what is stored is a configuration; the type of a failure tells its cause; connections are closed; every call ends |
| Audit log (`modules/audit_service.py`) | `audit_logs` | append | every handler | its own commit, errors swallowed | one entry per operation |
| Credentials (`routers/credentials.py`) | `credentials` | add, delete | devices | references | no device points to one that is gone |
| Schema (`database.py`, `docker-entrypoint.sh`, `migrations/`) | the tables, `_applied_migrations`, `alembic_version` | steps of the start-up, revisions of Alembic | start, operator | death between statements; two mechanisms on one file | no rows are lost; the next start comes through |
| Notifications, analytics, schemas, templates | I/O, read-only or single-step | | | | not modelled, see section 7 |

`PROJECT.json` lists every component with its status, and every hazard with its line.

## 2. Modules

| Module | Models | Runs | Proofs |
|---|---|---|---|
| `BackupRun` | the backup pipeline, stale cleanup, deletions, crashes | `backup_run`, `backup_run_closes` | `BackupRunProofs` |
| `Diagnostics` | `BackupRun` with the failures that are resolved, by a retry or by hand | `backup_run` | `BackupRunProofs` |
| `JobLedger` | what the `JobRun` rows promise to who watches them; `BackupRun` implements it | `backup_run` (`ImplementsLedger`) | `BackupRunProofs` |
| `Retention` | sweeps, deletions over HTTP, purge, crashes | `retention` | `StorageProofs` |
| `Schedules` | schedule rows, APScheduler jobs, runs | `schedules` | `SchedulesProofs` |
| `Monitoring` | monitoring jobs, device handlers, the shared session | `monitoring` | `MonitoringProofs` |
| `UserAdmin` | account changes by concurrent threads, first account | `user_admin` | `RequestProofs` |
| `Inventory` | destinations, groups, locations, devices, credentials and the handlers that change them | `inventory` | `InventoryProofs` |
| `Schema` | the start-up and the chain of Alembic, statement by statement | `schema` | `SchemaProofs` |
| `Delivery` | one save to Telegram: parts, tries, attempts, classification of errors | `delivery` | `StorageProofs` |
| `GitStore` | saves of concurrent jobs into one git repository and its remote | `git_store` | `StorageProofs` |
| `EngineCall`, `WebEngines`, `SshEngines`, `Engines` | a call of any engine: the record both families share; pfSense, OPNsense, Oxidized; Netmiko, SCP, Proxmox; their composition and properties | `engines` | `EnginesProofs` |
| `RateLimiter` | the sliding window, by threads | `rate_limiter` | `RequestProofs` |

`BackupRun` and `Delivery` look at the same loop from two sides. `BackupRun` sees a whole save
as one await with a result; `Delivery` opens one such await, request by request, and leaves the
rows out. `GitStore` opens the same await for git, and `Engines` the await of the fetch before
it. `Diagnostics` composes: its steps are those of `BackupRun`, the trigger being the retry.

`MC<Module>` extends a module with the definitions its configurations substitute. An
operator commented *Seeded fault* is not part of any specification: it is what a plausible
bug would make of the definition named in `PROJECT.json` `mutants`, and shows that the
property would notice.

### 2.1 BackupRun

A worker is one coroutine: a job (`run_backup_job`, with a `JobRun` row) or a manual
trigger. `pc[w]` names the await it is at, `task[w]` holds the locals of
`_handle_text_backup` / `_handle_binary_backup`, `tally[w]` the counters as its session
has them, `runs[w]` as the row has them. One step is what the code does between two
awaits.

| Code | Actions |
|---|---|
| `run_backup_job` | `StartRun`, `SkipDevice`, `CountDevice`, `FinishRun` |
| `run_backup_for_device` | `UnknownEngine`, `NoCredential`, `BeginBackup`, `FetchFails`, `FetchSucceeds` |
| both handlers | `SaveReturns`, `SaveUnsupported`, `SaveRetries`, `SaveFails`, `ObjectDeleted`, `FinishSaved`, `FinishBinaryFailed` |
| `_save_to_local_fallback` | `FallbackStarts`, `FallbackUnavailable`, `FallbackSaves`, `FallbackFails`, `FallbackCommits` |
| failed commit | `CommitFails` |
| `record_backup_failure` | `RecordFailure`, a part of the actions that call it: commit or rollback |
| `run_maintenance`, lines 52-68 | `MarkStale` |
| handlers, the process | `DeleteBackup`, `DeleteDestination`, `DisableDevice`, `Crash` |

Observers remember which destinations accepted a backup (`stored`) or were to be reached
(`resolved`), and which backups held one row at the same time (`shared`): an operator may
delete a row while its backup runs, its id goes to the next one, and from then on two
coroutines write one row. No guard reads an observer.

### 2.2 Retention

`loop` is the event loop: a coroutine that continues without an await keeps it
(`Continue`), one that awaits gives it up (`Await`). `mem[p]` holds the loaded objects,
each with the row as it was loaded, and `expired` what the last commit or rollback made
the session forget; `Reads` is an attribute access. `rows` and `files` are changed by
different steps, `Prunes`/`Erases` in a thread and `Mark`/`CommitDelete` afterwards. The
observer `reused` has the backups that took an id which a sweep or a deletion still held
(`Held`): `run_retention_sweep` reads the path of its next candidate after a commit
(manager.py:74), from whatever row has the id then.

| Code | Actions |
|---|---|
| `run_retention_sweep` | `StartSweep`, `NextDest`, `NextDevice`, `Candidate`, `Prunes`, `Mark`, `Missed`, `GroupDone`, `LastDevice`, `EndSweep` |
| `compute_backups_to_prune` | the choice of `selected` in `NextDevice` (the GFS rule is in the library `grandfatherson`) |
| `delete_backup`, bulk deletion, deletion of a job run with its backups | `AskDelete`, `EraseFile`, `Erases`, `CommitDelete` |
| purge of pruned rows | `Purge` |
| the pipeline, as seen from here | `NewBackup`, `FinishBackup` |

### 2.3 Schedules

`jobs[i]` is the cron expression APScheduler has for `schedule_<i>`. A fired job only
queues its coroutine: `Fire`, then `Begin`, which reads the row. `RunNow` is the task
`run_schedule_now` creates, beside the fired one. `BackupDevice` is one turn of the loop of
`run_backup_job`; what a turn does is in `BackupRun`. `Restart` is `_reload_schedules`.

### 2.4 Monitoring

`jobs[k]` is the job of interval `k`: the list of devices it was given by
`load_monitoring_jobs` and the load whose session it uses; `runs[k]` is its one instance.
The handlers of `routers/devices.py` and `api_update_device` change rows and call, or do
not call, `Reload`. A failed commit puts the session into `broken`; from then on every
`db.get` of the jobs of that load raises (`Usable`).

### 2.5 UserAdmin

A request is a thread: `Authenticate` (`get_current_user`, `require_admin`), `Load`
(`_get_user`), `GuardPasses` or `Refused` (`_guard_change`, which takes the write lock with
an `UPDATE` before it reads anything again), `Commit`. `writer` is SQLite's write lock.
`Start` is `ensure_default_admin`, at any time.

### 2.6 Inventory

A row refers to others by foreign key (`cred`, `proxy`, `Loc.dest`, `Loc.group`), by name
(`Dev.group`) or by a list of ids (`Group.dests`, `Dev.override`); only the first kind is
enforced. Every handler is one action, since it does not await between its reads and its
commit: `AddDestination`, `EditDestination`, `DeleteDestination`, `AddGroup`, `EditGroup`,
`DeleteGroup`, `CreateLocation`, `UpdateLocation`, `SoftDelete`, `HardDelete`,
`AssignDevices`, `SaveDevice`, `ImportDevice`, `EditFields`, `DeleteDevice`,
`AddCredential`, `DeleteCredential`. `FormOverride` is what a form that shows the defaults of the
group stores. A refused request is a stutter. `keyed` is whether the database has a foreign key
for the proxy's credential: a new one has, one to which `v15_devices_proxy_columns` or the
entrypoint has added the column has not (`Proxies`). `Restart` clears what refers to nothing.

### 2.7 Schema

A script is a sequence of statements, `todo`; `Execute` works off one. `Possible` is when
SQLite accepts a statement, `After` what it does, `open` whether the driver has a transaction
open: it begins one before a write to rows (`Writes`) and commits any other statement at once
when none is open. `Stage` gives the script of each step of the start-up, computed from the
schema at that moment as the code does; `Revision` that of each file of `migrations/versions`.
Where the code goes through a list and looks for each table or column before it adds it, the
statement is one that does nothing if it is there (`CreateIfMissing`, `AddIfMissing`); when the code
looks makes no difference, since nothing else changes the schema meanwhile and no entry of a list
is another's. `Since` and `Later` say which revision makes which table and column; `Installed(r)`
reads the schema of revision r off them, and TLC runs the whole chain from an empty database and
compares (the assumption `ChainMakesInstalled` of `MCSchema`).
`Raise` is the exception of a statement: the entrypoint goes on (the shell script has no
`set -e`), the application exits, Alembic stops. `Serve` is the rest of the lifespan, which
reads destinations, groups, schedules and accounts and fails when a column is missing.

### 2.8 Delivery

A step is one request to the Bot API with its answer, or with one of fifteen `Faults` in place
of it. `ids` are the messages the running save has counted, `chat` every document that ever
arrived: after a fault in `Lossy` the document may be in the chat though no answer came, and
what an attempt given up has sent stays there. `try` is the loop of the upload, `att` the loop
of the pipeline around the whole save.

| Code | Definitions |
|---|---|
| `_split_file`, the choice of one document or several in `save`, `save_binary` | `Fits`, `NumParts`, `Part` |
| `_upload_file_to_telegram` | `Uploaded`, `TriesAgain`, `AttemptFails` |
| attempt loop of `_handle_text_backup`, `_handle_binary_backup` | `Retries`, `GivesUp` |
| `classify_error`, `is_retryable` | `Rules`, `Classify`, `Retryable`, over the set of rules that a `Text` satisfies |
| `apply_auto_fix` | `Fixed` |

`Text(f)` is the point of the module. The pipeline never sees the fault, only the words of the
exception the upload raised at last: after a last 429 these say "maximum retries" and not
"rate limit", and those of an `HTTPStatusError` contain the address with the bot token. A
token is therefore the set of rules its own characters satisfy.

### 2.9 Diagnostics

`settled` holds the resolved failures, each with the worker that did it. `Step` is any step of
`BackupRun`; if it is the one in which a trigger reads that its backup succeeded (`Succeeded`),
the `UPDATE` of `retry_device_backup` over all open failures of the device (`ResolveAll`) and
its commit are part of it, since no await lies between. `MarkResolved` is the button. A failure
that loses its backup keeps its row and stays resolved (`Kept`).

### 2.10 GitStore

One action is one read or write of what the threads share: `Open` (is there a `.git`?),
`InitRepo`, `WriteReadme` (if there is none), `Write` (the working tree), `Stage`, `Lock`,
`WriteIndex` (`index.add`, which reads the index before it takes `index.lock` and raises when
somebody has it), `Look` (`is_dirty`), `WriteTree`, `ReadHead`, `Commit` (`index.commit`), `Push`.
A commit is its tree and its ancestors. A new repository goes through the same steps for
`README.md` first. `ProcessDies` leaves everything on disk, `index.lock` too.

### 2.11 Engines

A step is one request or one call of a library with its outcome. `dev` is what the engine can
tell apart about the device and its credential, and is any such record; it does not change
during a call, what goes wrong on the way is a `Fault`. A fault ends a call with any of the types
that the exception of the library can have there: while it logs in (`LostLogin`) these
are, to paramiko, a failed authentication, a timeout, a connection error or an error without words.

| Code | Definitions |
|---|---|
| `_try_request`, https first and then http on the same port | `Sends`, `Retried`, `TriesHttp`, `Tried` |
| `_fetch_pfsense_config` | `Rest`, `LoginPage`, `Login`, `BackupPage`, `Download` |
| `_fetch_opnsense_config`, `OxidizedEngine.fetch_config` | `Opnsense`, `OpnsenseAnswer`, `NoKey`, `Oxidized` |
| `_open_proxy`, `_connect_and_fetch`, `_scp_fetch`, `connect_transport` | `Jump`, `Channel`, `Connect`, `Authenticates`, `Rejections`, `Netmiko`, `Scp`, `Close` |
| `_fetch_tgz`, `_collect_tgz`, `_add_dir_tar` | `OpenSftp`, `NextPath`, `Skipped`, `Walk`, `Walked`, `Packed` |
| `test_connection` | `WebTests`, `PfSenseTests`, `SshTests` |
| `classify_error`, for what the engines raise | `Type`, and the strings given to `Ends` |

`open` counts what the code has opened and not closed; what a `connect` that raises leaves
behind is its library's.

### 2.12 RateLimiter

`check_rate_limit` is a plain function, so each request is a thread: `is_allowed` reads and
filters the list, stores it, counts, appends; `get_retry_after` asks whether the list is empty
and takes the minimum. `disturbed` is the last tick at which two requests were at work. An
entry is named by its request, `at[r]` is its timestamp.

## 3. Runs, bounds and what they show

| Run | Instance | Shows |
|---|---|---|
| `backup_run` | a job over two devices and a retry of the first; a local and a git destination; 3 rows, any of which an operator may delete; one attempt; one incident | `ResolvedByStored`, `SuccessIsBacked`, `CompletedMeansStored`, `FailedDestinationIsVisible`, `VerdictStands` in every interleaving, and `ImplementsLedger`: the job rows implement `JobLedger` |
| `backup_run_closes` | a job and a trigger of one device, the job to both destinations, the trigger to the local one; two attempts; rows may be deleted, so that commits fail | `RunsFinish`, `NothingStaysInProgress` under fairness |
| `retention` | two sweeps, one deleting request, a local destination and a share, two backups, ids used again while somebody holds them, one crash or deleted destination | `PrunedMeansGone`, `RowReflectsFile`, `FilesLeaveByDecision` |
| `schedules` | two ids, two expressions that parse and one that does not, five edits or restarts | `JobsMatchRows`, `MissedOnly`; `RegisteredRuns` under fairness |
| `monitoring` | two devices, two intervals, two changes, two edits, one row of a running monitoring backup deleted | `ListsMatchRows`; `SoundSessionsCapture` under fairness: drift is captured wherever the session works, also after a load has replaced a broken one |
| `user_admin` | two requests, three accounts, two roles, restarts | `AdminRemains`, `ChangesByAdmins` |
| `inventory` | four destinations, two groups, locations and names, a device, a credential; five requests, and starts; a new database or an upgraded one | `ReferencesResolve`, `LocationsApart`, `DeletionIsLocal` |
| `schema` | installations of every revision, tracked by Alembic or (1, 5 and 13) not; two deaths of the container, two runs of Alembic | `DataKept`, `InitialisedIsCurrent`, `UpgradesComplete`; `StartsAgain` under fairness |
| `delivery` | a file that fits and one in three parts; three attempts of two tries, fifteen faults, three tokens | `PathReassembles`, `RetriesFollowCause`; `Settles` under fairness |
| `git_store` | three saves, two of one device with equal or different texts, two at once; two crashes or refused pushes | `SavedIsCommitted`, `PushCatchesUp` |
| `engines` | every engine, with every device it can tell apart, pages in the place of an API and prompts that are not found among them; two faults; three paths of Proxmox, one with a directory in a directory | `FetchedIsConfig`, `ArchiveComplete`, `TypeTellsCause`, `ClosesConnections`, `TestTellsFetch`; `FetchEnds` under fairness |
| `rate_limiter` | five requests, two at once; two let in per window of four ticks, a second being two; a clock of seven ticks | `WindowHolds`, `RefusedForCause`, `WaitSuffices` |

A run lists the properties that relate several steps or actors. The type invariants are theorems
(`TypeCorrect`, `RetentionTypes`, `LimiterTypes`, `SchemaTypes`) or parts of the invariants that
are proved. No run lists them.

Why the bounds are enough to meet the interesting cases:

* *Two actors.* Every hazard listed is a race between two actors over one row, or between
  one actor and an incident; two workers, sweeps or requests and one incident (crash,
  deletion, refused record) at any step cover all pairs. Three ids are needed so that an id
  is freed and given out again while an older row is left.
* *Two destinations* of different type let one save succeed and the other fail, be
  unsupported (git has no `save_binary`) or be deleted; ids are ordered, as the code reads
  them in that order.
* *One attempt* in `backup_run`, *two* in `backup_run_closes`: retries change neither row
  nor files, only how long a save takes, so the safety run spends its states on
  interleavings and the liveness run on the attempts.
* *Edits.* Five in `schedules` allow create, delete, create again under the same id, and a
  restart; two in `monitoring` allow two devices at two intervals,
  or one device added and changed; that longer histories keep the lists right is a theorem.
* `inventory` starts empty or with a local destination and the main channel, as creating a
  location asks for; with four destinations two locations then have channels of their own.
  Forms tick destination 4 only (`Tickable`): which one is ticked makes no difference, that it
  may be deleted and its id used again does. Five requests allow two locations, a device in
  one, and the deletion of the other.
* `schema` takes its installations from the chain (`Installed`), with the tables that
  their own `create_all` made beside it, the marks and the wrong values that the tests of the
  migrations describe. Two deaths: one in the middle of a script, one while it is repeated.
* `delivery`: three attempts are the default of `BACKUP_RETRY_MAX_ATTEMPTS`; two tries tell
  the last one from the others (the code has three). Five units in parts of two give a first,
  a middle and a shorter last part. The three tokens: one with no word of any rule in it, one
  with "429" and one with "401", which the numeric half of a token may contain.
* `git_store`: two faults allow a crash and, later, a refused push; three saves allow one
  between two of the same device, or two that overlap and one after them.
* `engines`: the second fault meets what the first one led to (the request in the clear, the
  login page in place of the API). Paths: one whose first entry is a file and whose second is a
  directory, so that a walk goes on after a directory, a last path whose loss nobody notices, and
  a path that is a file.
* `rate_limiter`: two open requests are enough to lose an entry or to bring one back; five
  requests let the window fill, expire and fill again. For all other numbers there is the proof.
* Three rows for the three backups of `backup_run` let an id be used again while its first holder
  runs: without the exception for slots in `shared`, TLC finds each of `ResolvedByStored`,
  `SuccessIsBacked`, `CompletedMeansStored` and `VerdictStands` violated there. The one in
  `FailedDestinationIsVisible` would need two incidents, a deleted row and a lost record of a
  failure; the one in `FilesLeaveByDecision` of `retention` three backups. These two make no
  difference in the runs; the theorems have them for all bounds.
* Resolving a failure by hand in `backup_run` is an incident too: it cannot disturb what a retry
  resolves more than once.
* Deadlock is checked in `retention` and `user_admin`. The other systems may really stop, or
  their bounded counters stop them in the end.

## 4. Fairness, and why the code justifies it

* `BackupRun!FairSpec`: weak fairness of each worker's `Progress` (the event loop resumes
  every coroutine; awaited calls return or raise, most with a timeout, a git push is
  assumed to end) and of `MarkStale(i)` (the maintenance runs every day and sees each
  row). Nothing is assumed about operators, crashes or starts.
* `Schedules!FairSpec`: cron times come again (`misfire_grace_time`, `coalesce`), and
  tasks go on. `RegisteredRuns` does not assume that operators ever stop pressing Run Now.
* `Monitoring!FairSpec`: weak fairness of firing and of the jobs; strong fairness of an
  answer of the device and of a successful backup, since both are tried again at every
  interval: drift of a device that never answers is not captured by anything.
* `Schema!FairSpec`: scripts go on, and the container is started whenever it has stopped.
  Nothing is assumed about the operator who runs Alembic.
* `Delivery!FairSpec`: weak fairness of the next step: a request has a timeout of 300 seconds
  and each sleep a finite length. Nothing is assumed about the answers.
* `Engines!Spec`: weak fairness of the next step, a request that returns or raises at its
  timeout. SFTP has no timeout (`Raises`): the exception in `FetchEnds` is such a peer.
* `UserAdmin`, `Inventory`, `Retention`, `GitStore` and `RateLimiter` are
  checked for safety only: a request refused over and over has no promise to keep.

## 5. Theorems

All are of the form `Spec => []P`, or of an action property, for every value of the
constants that satisfies the module's `ASSUME`s. TLC evaluates these assumptions in the
runs and checked each invariant before it was proved.

**BackupRunProofs.** `TypeCorrect`: the type invariant alone is not inductive, since `idx + 1`
must stay in range and the fallback must write to a real destination; `Position` says that a
worker inside `run_backup_for_device` has a device left and holds a local destination when it
falls back, `Holding` that only such a worker holds a row. `CountersAreExact` (no run lists
`CountersExact`: `ImplementsLedger` of `backup_run` demands the same of two devices, where a
rollback has a count to lose): the invariant `CountedAt` relates session and row: the counters of
the session add up to the devices already passed, and at every point where a rollback may come
(`RecordFailure`) the row has the same counters as the session, because each call commits its new
row first (`Inserted`). Without the second half a rollback would lose a count. `SuccessBacked`:
the row that an unfinished worker holds is the one it inserted, or is gone, or both its backup and
the row's are in `shared` (`Mine`); and `task.saved` is contained in `stored`. Between two devices
a coroutine has no locals, and its row is the one it inserted (`BackedAt`, `RowsKept`). Operators
may delete any row at any time (`routers/backups.py:480`). The id of a deleted in_progress row may
go to the next backup while the first still runs; then two coroutines write one row, both are in
`shared` from then on, and nothing is claimed of either: it would be false. `InsertKeeps` says
that an insertion under an id that is still held puts all its holders into `shared`; none ever
leaves (`Grows`).

`LedgerImplemented`: `BackupRun` implements `JobLedger` under the
refinement mapping `ledger[w] = runs[w]`, `Total[w] = Len(Targets[w])`. `CountInv` is not
enough: a commit must not take a count back, so `Ahead` adds that the session of a running
job is never behind its row, and that the row of a job that has not started is untouched.
Every step but `StartRun`, the `FinishRun` of a job and `Crash` is `Ordinary`: it touches
the row of one worker at most, leaves its status alone and moves its counters to something
between what the row and what the session had. An ordinary step maps to `Book` or to a
stutter, `StartRun` to `Open`, `FinishRun` to `Close` with `s + f = Total[w]`, which is
`CountedAt` at the end of the list; everything else maps to a stutter.

`CompletedStored`, `FailureVisible`, `VerdictsStand`, and in `Diagnostics` `ResolvedStored` and
`OutcomesWithResolutions`, come from one invariant, `OutcomeInv`, which speaks of the backups
outside `shared`. It adds to the ones above that an undecided coroutine holds a row in progress or
marked stale, which is still empty, or a deleted one (`HeldAt`); that every destination a text
backup was to reach is still to do, has failed, or has accepted (`Accounted`); that the rows of a
device whose turn is over belong to no coroutine any more (`OwnedAt`); that a decided row names
every destination that did not accept it (`RowDecided`); and that what a job without failures has
counted so far is stored, in rows that all say success (`SoFar`). The steps are first sorted into
a few kinds, by what they do to rows, locals and observers (`OutcomeKind`: a coroutine starts,
inserts, decides, works, passes on, leaves; a row is marked or deleted; the process dies), action
by action in `CoroutineKind`; then `KindKeeps` shows for each kind, once, that the invariant
stays. `VerdictsStand` reads the kinds again. `ResolvedStored` needs that the success a retry
reads after its awaits is that of its own backup (`SucceededStored`), and that what is stored
stays so.

**MonitoringProofs.** `ListsAgree` (`ListsMatchRows`) and `TypeCorrect` are inductive
together. `ReloadAgrees`: a load makes the lists right whatever they were. `KeptAgrees`: a
handler that does not load may change one row, if afterwards the device is not critical, or
was critical at the same interval before and is not newly enabled, or is in `reenabled`. Every
handler meets one of the two; the mutant `CriticalChanged`, which loads only when the flag
changes and not when the interval does, meets neither.

**SchedulesProofs.** `JobsAgree` and `OnlyMissed` are inductive together with the types.
The step that needs an argument is `api_create_schedule`, which registers nothing:
`JobsMatchRows` itself says that no job was left under the id it takes.

**RequestProofs**, `UserAdmin`. `AdminAlwaysRemains` needs no counting: `CheckedAt` says that between
`GuardPasses` and `Commit` the actor is still an active administrator and is not the one
whom the change would remove, so after the commit the actor is left. `CheckedAt` is stable
because nobody else writes while the lock is held (`TypeOK` has
`pc[r] = "checked" <=> writer = r`); the mutant `NoLockNeeded` shows that two administrators
would otherwise remove each other. `TargetIsKept` rests on `LoadedAt` and `Unused`: ids are
never given out again. `OnlyAdminsChange` is the action property, from the same invariant.

**InventoryProofs.** `RefsResolve`, `Apart` and `CascadeIsLocal` come from one invariant:
`LocRefs` and `DevRefs` (foreign keys resolve, where the database has them), `UniqueNames` (of
groups), and `Owned`: two locations share neither group nor channel. A new id is above every id in
use, so a row that comes to life under it is referred to by nobody (`LocRefs` and `DevRefs` speak
of every reference, not only of the deleted one). `UniqueNames` is why the devices found by the
name of a location's group belong to it and to no other, which is what `CascadeIsLocal` needs.

**StorageProofs**, `Delivery`. `PathGivesFile` rests on the invariant `Placed`: the k-th message
an attempt has counted carries the k-th part, whatever else is in the chat; and on `Counted`:
while it posts, it has counted fewer messages than there are parts, and as many when it returns.
The rest is arithmetic of rounding up: `LastPart` (all parts but the last are full, the last is
not empty) and `PartsJoin` (each begins where the one before ends), for every size and every
positive part size. `RightFaultsRetried`: `FirstRuleDecides` says that the first rule a text
satisfies is the type of the error, and `FaultsRetried` applies it to every fault: what is retried
is in `Documented`, what README.md:484-489 calls transient, and what is in it and not retried is
in `Unrecognized`. The rest is that `cause` only ever names a fault after which the loop went on,
or after which it stopped.

**StorageProofs**, `GitStore`. `SavesCommitted` and `PushesCatchUp` hold for any number of saves
and of jobs at once, with no condition beside the `ASSUME`s: the threads that disturb each other
are in the model, and the properties speak of saves that ran alone. `GitInv` follows the text of
such a save from the working tree into what it staged, the index, the tree and the commit
(`Carries`), and says that of two saves at work neither is alone (`Apart`). What was reported
must also survive the saves that come later, and those that overlap: the commit that each save
is about to make has a parent that holds all of it (`KeptBy(head)`, `Parents`). That is why
losing a commit to a race costs only saves that were not alone. As long as none overlapped,
the history is a line and every push that gets through leaves the remote at its end (`Linear`).

**StorageProofs**, `Retention`. `PrunedGone`, `RowsReflectFiles`, `LeaveByDecision` and
`RetentionTypes` come from `FilesInv`, with no condition on how ids are given out. A backup has
one row at most (`BirthsKnown`), an unfinished one has its place still ahead (`OpenRows`); and for
each sweep, what it loaded is, as long as the row exists, still the same backup at the same place,
unless another backup has got the id meanwhile (`SweepsAs`, `Astray`); what it has chosen was
decided, or will be read again from a row that is gone or another's (`Selected`); and at `mark`
the local file is gone (`SweepInv`); for each deletion, all it asked for was decided (`EraseInv`).
That a backup under an id still held is in `reused` is what makes `Astray` bear. `Keeps` is what
any step may do to rows and files at all; from it the claims about the coroutines that do not move
follow once for all actions (`NoEffectStep` for those that touch no row and no file).

**EnginesProofs.** A call is of one family, and `CallInv` has for each what is known at each of
its requests (`WebAt`, `SshAt`): whether the credential can have been accepted, what is open,
whether anything has gone wrong yet. `FetchedConfig`, `TypesTell`, `ConnectionsClosed` and
`TestsTell` are claims about the end of the call, so each has to be shown at the steps where a
call ends only (`CallKept`). `Rejected` says which exceptions a login that does not succeed can
have, and so which types; `BarredKeeps` is the call that ends at a path of Proxmox the user
may not look at. `ArchivesComplete` is about trees of any depth: `ArchiveAt` says
that, while the connection is up, what is wanted below the current path is in the archive or
below a node still to visit (`Under(todo)`). `Below` is therefore defined as what lies in
every set that is closed under taking entries, and not by recursion, which no prover here could
unfold; `BelowClosed` and `ReadsEntries` are the two facts of it that a walk needs.

**RequestProofs**, `RateLimiter`. Nothing can be said of a list that threads overwrite for each
other, so the invariant speaks of entries made after the last tick at which two requests were at
work: `Sync` says that the list has every one of them that is still in a window, `Fresh` that a
request which looks at the list sees none older than its own window, and `Alone` that two open
requests put `disturbed` to now, so that each clause about an open request is about one nobody can
disturb. `LimitKept` and `RefusalsJust` then follow by counting entries, `WaitingSuffices` from
`Near`: the answer names a moment less than a second before the oldest entry expires.

**SchemaProofs.** `NothingIsLost` (`DataKept`), `StartDoesItsWork` (`InitialisedIsCurrent`) and
`UpgradesDoTheirWork` (`UpgradesComplete`) hold for every set of installations and any number of
deaths and upgrades. A script is cut off at any statement and begun again from the schema it left,
so the invariant is about what is left of `todo`, in five parts:

* *Well formed* (`WellFormed`): a table is rebuilt by `Create`, `Copy`, `Drop`, `Rename` in a row,
  and nothing else in the script touches it; what writes rows is committed at the end, and what
  records the script is the last statement before; keys switched off are switched on again, outside
  a transaction.
* *Suits the database* (`Suits`): in the middle of rebuilding, the spare table is there and has
  every column, and after the copy every row, of the table it will replace. Between the drop and
  the renaming a transaction is open, since the copy has opened one. This gives `Kept`: the rows are
  in place on disk, and in the transaction under one name or the other (`Place`). The mutant
  `DropCommitted` breaks it.
* *Due* (`StageGoals`, `RevisionGoals`, `CorrectionGoals`): what the stages so far promise, the
  revision under way makes, or a stage corrects, is there or its statement is still to come. A
  statement either fulfils what is due or leaves it due. When the script has come to its record,
  nothing is to come, so what is due is there.
* *On record* (`MarksMean`, `Repaired`, `RevisionsMean`): hence a mark or a revision on disk means
  its columns, also for a start that finds the mark and skips the migration. `Repaired` says that
  the two values v161 had swapped are corrected together, which is why the first may be the trigger
  for both; the mutant `RepairOneByOne` breaks it.
* *Alone* (`Alone`): while Alembic knows what is there, the database has nothing that the chain does
  not make up to its revision, but for the two tables for which the revisions look
  (`NoExtras`), and every statement still to come finds what it needs (`Fits`); so none fails. The
  mutant `UsersAlways` does not look.

`Execute` is proved statement kind by statement kind: what a statement changes (`Does`,
`Changes`), how a script shortens (`Neighbours`), then each part of the invariant once for
all kinds. `NextStage` and `NextRevision` need one lemma for each stage and revision: that the
script it prepares is well formed, suits the database and covers what it owes. What a whole script
does is nowhere computed, since that would be an induction over statements; what is still to come
stands for it. TLC has checked the invariant part by part on the instance of `schema` with one
death.

Only model-checked: all liveness (`RunsFinish`, `NothingStaysInProgress`, `RegisteredRuns`,
`SoundSessionsCapture`, `StartsAgain`, `Settles`, `FetchEnds`), since fairness and `ENABLED` are
outside what is proved here; and `ChainMakesInstalled`, a fact about sixteen given scripts that
TLC computes. Every safety property of every passing run is a theorem, with no assumption beside
the `ASSUME`s of the modules. The theorems of `BackupRun` carry over to `Diagnostics`: a step of
it is one of `BackupRun`, or leaves everything of `BackupRun` but `incidents` alone
(`OutcomesWithResolutions` states it for those about outcomes). `StorageProofs` and
`RequestProofs` hold the proofs of modules that share no state, whose specifications have names of
their own (in `StorageProofs`, `Spec` is that of `Delivery`, `GSpec` of `GitStore`, `RSpec` of
`Retention`; in `RequestProofs`, `Spec` is that of `UserAdmin`, `LSpec` of `RateLimiter`).

## 6. Where code and documentation differ

Met while modelling, and accounted for in the models. Three were found by TLC with a stronger
property, which the runs now have in a form that holds:

* The handler of a failed monitoring backup (`config_monitor.py:117`) does not roll back the
  session that all monitoring jobs of a load share: when the row of a running monitoring backup
  is deleted, every later poll raises until the next load or restart. CHANGELOG.md:54 promises
  drift detection without such a condition; `SoundSessionsCapture` has it.
* Updating a location renames its group (`location_service.py:205`), and its devices, which name
  their group, stay behind; docs/LOCATION_MANAGEMENT.md:232 says "Auto-generated group name does
  NOT update" and line 235 "Devices remain assigned, no disruption to backups". `Inventory` has
  the renaming in `UpdateLocation`.
* In the order of docs/INSTALL.md:112-120 (`up -d`, then `alembic upgrade head`) the start of the
  new release creates `backup_failures`, and the revision that creates it
  (`k1l2m3n4o5p6_add_backup_failures.py:18`) fails. The order of README.md:596-603, Alembic
  first, works from every revision (`UpgradesComplete`, with `untouched`).

Differences that the models account for without a run of their own: a schedule created
over the API is not registered before the next restart (observer `unloaded`), and a
critical device enabled again is not polled (observer `reenabled`). Retention applies a policy
to all backups of a destination's *type* (`Matches`): with two local destinations the stricter
policy removes files of both. The stale cleanup takes live backups for stuck ones
(`MarkStale`); a slow backup that finishes afterwards keeps the message of the cleanup beside
its success. A database older than the column `destinations.description` completes the
migrations of the start-up and then fails to start until Alembic has been run (`Readable`);
of rows that the first v161 had mixed up only those in the group `default` are corrected.

Around `Delivery`: README.md:485-487 lists among what is retried timeouts of the socket, a connection
that is reset, and rate limits. Four errors of these kinds are not retried (`Unrecognized`):

* a reset during the upload is an `httpx.ReadError` without words, whose class no rule of
  `classify_error` names: `unknown`, permanent. A save is given up after the first of its attempts
  because of it, against README.md:486 ("Connection refused, reset, unreachable route"): with
  `ReadError` taken out of `Unrecognized`, the run `delivery` refutes `RetriesFollowCause`;
* a slow upload is an `httpx.WriteTimeout`, likewise;
* a 429 that outlasts the tries is reported as "Upload failed after maximum retries": `unknown`;
* a 429 with a date in `Retry-After` ends as the `ValueError` of `int`: `invalid_params`.

`RetriesFollowCause` demands nothing of these four: neither that they are retried nor that they
are not. Digits of the bot token take part in the classification of other statuses, which is why
`RetriesFollowCause` is about tokens without them. The auto-fix for a timeout doubles
`config["timeout"]`, which the Telegram destination does not read. A failed git push is only
logged (`git_destination.py`, lines 85-87), so the pull before a repeated push that README.md:501
describes is never reached.

Around `GitStore`: two saves that overlap may each lose the other's index entry or commit though
both report success (`SavedIsCommitted` is about saves that ran alone); a remote that has
diverged refuses every later push, and each is a warning only; after a crash inside `index.add`
the stale `index.lock` makes every later save fail, visibly, until somebody removes it.

Around `Engines`: docs/DEVICES.md:190 says that two methods are tried for pfSense and whichever
works is used, but a 401 or 403 of the API raises at once (`RestResult`); when the API is not
reached its credential is tried as a web login and the failure says `auth_failure`. A page at the
address of the API passes the test of the connection (`PfSenseTests`). An error 500 at the login
passes for a login, and only the download is looked at (`IsXml`). The answer of a device to a
command it refuses is stored as its configuration, as is a JSON answer without `data`; the `None`
of a download answered with a status between 200 and 400 raises later. A missing TLS answer of
OPNsense is followed by the same request in the clear on the same port, whose 400 becomes
`invalid_config`; a read timeout of httpx has no words and becomes `unknown`. Oxidized is tested
by address or name and asked by name. Of OPNsense and of Oxidized any answer of 200 is stored
unseen, after redirections: a page at the address of the API becomes the configuration and passes
the test (`OpnsenseAnswer`, `PageThere`), while of a pfSense no page ever does. The list of what a
Proxmox backup contains in docs/DEVICES.md:240 has `/var/lib/pve-cluster/config.db`,
`PROXMOX_BACKUP_PATHS` has not. A connection lost in the last path leaves an incomplete archive
that is a success; a jump host stays connected when the channel through it fails, and SCP leaves
all open when the login fails (`ClosesConnections`).

Types of failures (`TypeTellsCause` has each as an exception): a credential without anything to
offer is an `auth_failure` although nobody refused it, and with Netmiko may be a
`network_timeout`, as are a key file that cannot be used, an enable secret that does not work and a
prompt that is not found ("Pattern not detected", which names the `read_timeout`; docs/DEVICES.md:317
knows it as a wrong CLI mode): these are retried as if the network were at fault. A connection lost
during the login is an `auth_failure` to paramiko, and is not retried.

docs/DEVICES.md:244 allows Proxmox users other than root who can read `/etc/pve`. Such a user passes
the test, which only logs in; but `lstat` of `/root/.ssh` is refused, `_collect_tgz` catches only
`FileNotFoundError` (proxmox_engine.py:149), and every backup fails (`barred` in `NextPath` and
`TestTellsFetch`).

Around `Inventory`: in an upgraded database nothing enforces `proxy_credential_id`, and a form that
was opened before the deletion of a credential can still store its id; the next credential with
this id is then used for the proxy, or the next start clears the reference. `ReferencesResolve`
speaks of proxies only where the database has the foreign key.

Around `Diagnostics`: a retry that reached only another destination, or only the emergency copy,
resolves all failures of the device, those of destinations that got nothing among them.

Around `RateLimiter`: threads that overlap may let in more than the limit, refuse for entries
that had expired, or answer 500 when the list is emptied between the check and the minimum;
Retry-After is cut to whole seconds, so that a client may have to ask once more.

Hazards of the code that no property of a run covers, and which are not in `PROJECT.json`:
lists of groups, devices and schedules keep the id of a deleted destination, and the next one
created takes it (`destinations.py:221`, in `Inventory`); an edit of a destination awaits its form
between reading and writing the row (`destinations.py:184`); a new chat id written into
`config_json` in place is not noticed by SQLAlchemy (`location_service.py:226`); a device with
failures cannot be deleted (`devices.py:519`, in `Inventory` a request without effect). Two hazards
of reused ids are in the models, and the properties exempt the backups they befall: a backup that
takes the id of a deleted row under a running one (`shared` in `BackupRun`), and one that takes an id
while a sweep or a deletion holds it (`reused` in `Retention`; the sweep then may prune the file of
the new backup, and mark its row).

Outside the models: the `latest` link of the local destination has a relative target that leads
nowhere with the default `./backups`; a schedule whose choice of destinations is left empty is
stored with `[]`, and only `None` means the defaults of the group; docs/MULTI_CHANNEL_SETUP.md:740
says to leave it empty for the defaults.

## 7. Abstractions, and what is not modelled

* A configuration is the slot or version it came from; hashes are equal when the versions
  are. Error texts are reduced to what wrote them and to the destinations they name.
* `BackupRun` does not delete `JobRun` rows or devices in the middle of a job, and takes
  any in_progress rows up to some id as old enough for the stale cleanup. Final commits
  fail only for missing rows. In `Retention` the purge takes any pruned rows that no
  coroutine holds (they are ninety days old).
* Local file names have a resolution of one second; two backups of one device in one second
  would share a file. Files are told apart by backup here.
* `Inventory` leaves out what is data: connection settings, tokens, `config_json`, names of
  destinations and locations (they only refuse requests), the enabled flag of devices and
  locations, `device_count`, the failures of a device.
* `Schema` leaves out indexes (a unique index that a death separates from its table is not
  made later), downgrades, other databases, the writes of the running application while
  Alembic works, and that a host could run both at the same moment.
* `Delivery` reduces a file to its size and a document to the bounds of its part. Left out:
  waiting times (`calculate_backoff`, `Retry-After`), captions, deletion of messages, the
  compression before the split, and an answer to a request that had timed out: the document
  of such a request is in the chat at once or never. A part size of 0 is excluded
  (`SizeAssumption`); the code would divide by it.
* `GitStore` leaves out a file half written when the process dies, the lock files of refs, and
  a remote that others push to: a push is refused only because of what saves did to each other,
  or as a fault. Deleting from git is a no-op in the code.
* `Engines` leaves out names and addresses that contain words of the rules of `classify_error`,
  which of several commands a device refuses, and the bytes: a configuration is one or is not.
  Device types that map to `show running-config` although they know no such command (opnsense,
  linux) are the case `right = FALSE`. A file of Proxmox whose read fails for another passing reason
  counts as one that the user may not read (`locked`).
* `RateLimiter` fuses lookup and append, and the minimum with the second reading of the clock,
  and has a clock that does not go back. Keys are never removed in the code; one key is modelled.
* `Diagnostics` has the retry of one worker at a time, the trigger of `BackupRun`; the pages that
  only read and the wording of the analysis are left out.
* Several worker processes are not modelled; the application starts one.
* Not modelled: notification channels (I/O whose outcome is a free choice), analytics and
  dashboard (read-only), schemas, templates and start-up wiring, changing one's own password,
  session cookies, VACUUM.
* Not modelled yet: section 8.

## 8. Plan

In order of importance; the first thirteen are done.

1. `BackupRun` with proofs. 2. `UserAdmin` with proofs. 3. `Retention`. 4. `Monitoring` with
proofs. 5. `Schedules` with proofs. 6. `JobLedger`, the abstract specification of the job
rows, with the proof that `BackupRun` implements it. 7. `Inventory` with proofs. 8. `Schema` with
proofs. 9. `Delivery` with proofs. 10. `RateLimiter` with proofs. 11. `Engines`. 12. `GitStore`.
13. `Diagnostics`, in the middle of the pipeline.
14. `Audit`: the entries of the operations, written in a commit of their own.
15. Changing one's own password and what becomes of sessions (`security.py`); the purges of the
   daily maintenance.

No theorem of the plan is open: every safety property of the runs has one (section 5).

## 9. Running

    tlc -config BackupRun.cfg MCDiagnostics
    tlapm BackupRunProofs.tla

`PROJECT.json` names module and configuration of every run. Each run takes less than two
minutes with two workers. `BackupRunProofs` and `SchemaProofs` are checked in about six minutes each,
every other proof module in less than five.
