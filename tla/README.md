# VaultMaster in TLA+

VaultMaster schedules, executes and expires server backups. A FastAPI process
answers the Next.js UI and writes PostgreSQL; Celery beat and the API publish
tasks on a Redis broker; Celery workers (`-c 4`, queues `backup`, `rotation` and
`notification`) run them. This directory models what is hard to test about it:
the order of transactions, messages, crashes and user requests, what a long
history of rotations leaves on the storages, and what the pages of the console do
with answers that come late.

The modules are translated from the code, not from its documentation.
`PROJECT.json` gives, for every definition, the lines it stands for.

## 1. Inventory

| Component | State it keeps | Operations | What makes it correct |
|---|---|---|---|
| Backup pipeline, `tasks/backup_tasks.py:47-179` | `backup_run`, `backup_artifact` rows; the worker's program counter | load job, insert run, execute, commit outcome + artifacts + rotation, retry, notify | one trigger yields a bounded number of runs; an outcome, its artifacts and its announcement agree; no run is left "running" |
| Broker, `tasks/celery_app.py` | messages: ready, unacked, acknowledged | publish, deliver, acknowledge late, restore after the visibility timeout | a message is not acknowledged before its work has an outcome; every message is settled |
| GFS rotation, `services/rotation.py` | `is_deleted` of artifacts | `apply_rotation`, `preview_rotation` | the newest backup of each recent bucket survives any history; the preview tells all a rotation will delete but what the next backup pushes out |
| Scheduler, `backup_tasks.py:196-231` | none; reads cron strings and runs | once a minute, publish the jobs whose cron fell due | each cron instant is triggered exactly once |
| Health monitor, `backup_tasks.py:234-262` | `server.last_seen`, `last_error` | test every server, announce those that went offline | one announcement per outage |
| Executors, `services/backup_executor.py` | files and containers of the remote host | dump, tar, checksum, stop/start containers | containers come back; two runs do not share a file; success means there is a file |
| Notifier, `services/notifier.py` | none that is committed | one HTTP call or mail per channel subscribed to the event | what is said is so |
| Runs API, `routers/runs.py` | `backup_run` | list, cancel, SSE log stream | a cancellation does not contradict an outcome |
| Jobs API, `routers/jobs.py` | `backup_job` | CRUD, trigger; delete cascades to runs and artifacts | no orphan rows |
| Storage API, `routers/storage.py` | `storage_destination` | CRUD with masked secrets, connection test, browse | an edit blanks no secret it knew of; a storage with artifacts stays |
| Retention API, `routers/retention.py` | `retention_policy` | CRUD, preview | edits do not rotate anything |
| Servers API, `routers/servers.py` | `server` rows with secrets in `meta` and an encrypted token | CRUD, connection tests, listings | a secret stays with the server it was typed for |
| OAuth flow, `services/oauth_storage.py` | Redis entries with a TTL | start, callback, poll | a token that is stored is one the user consented to |
| Users and setup, `routers/auth.py`, `users.py` | `user` rows | setup, login, API keys, CRUD | nobody without an active administrator account changes accounts |
| Webhooks, audit, plugins, rotation task | configuration rows | never called from the running program | - |
| Storage page, `storage/page.tsx` | form, OAuth state, polling effect, list | edit, save, authorize, poll | a form writes its own record whenever answers come; an Add starts empty; the spinner ends |
| Jobs page, `jobs/page.tsx` | form, listings of the server's databases, volumes and files | edit, toggle, browse, prune, save | opening and saving a job keeps what the form shows of it; lists stay sets |
| Servers and notifications pages | one form each, secrets that are never shown again | edit, save, delete | no server takes over a secret of another one; of a former type nothing stays but an API token |
| Login, setup, layout, top bar, users page, `lib/api.ts` | the token in `localStorage`, the page of each tab | log in, set up, poll, administer | a tab without a session leaves the application |
| Other pages of `ui/src/app` | lists | read, filter | - |

Interaction, on the server. The API and the workers share nothing but PostgreSQL rows and broker
messages. `get_db` (`database.py:22-31`) commits once, after the handler; a worker
commits in the middle of its work. Nobody locks rows, so every read-then-write of
one side interleaves with the other. A cancellation or a deletion is not
announced to the worker that executes the run.

Interaction, in the browser. A page sends requests and goes on; each answer runs the
rest of its handler against whatever the page shows by then. Nothing is aborted when a
form is closed or a page is left, and the API orders nothing either: two requests of one
page are served in any order. The tabs share one token.

What is hard, and therefore modelled first:

* a run's row is committed before its work, its message is acknowledged after it,
  and its retry is published before its failure is committed: three orders that
  a crash, a redelivery or a deletion can cut at any point;
* the executors' own timeouts (3600 s and 7200 s) are no shorter than the
  broker's visibility timeout (3600 s), so a message may be handed to a second
  worker while the first one is still on it;
* one transaction holds the outcome, one artifact per destination and the rotation
  of each destination, and any of these can be refused;
* rotation is incremental: each backup rotates what earlier rotations left, under
  policies that users edit meanwhile, with integer counts nobody validates;
* one form serves every record of a page, its fields survive from one record to the
  next, its secrets are never shown again, and the answer to a save closes the form that
  is open by then;
* an OAuth flow is spread over the form, a window, a callback, a Redis entry with a TTL
  and overlapping polls, each of which reads and writes separately.

`PROJECT.json` lists every hazard at its line; those without a property are the
work of the plan in section 6.

## 2. Modules

| Module | Contents |
|---|---|
| `Rotation` | the decision of `rotation.py` as pure operators on sets of rows |
| `RotationFacts` | lemmas about these operators, proved |
| `GfsHistory` | backups, rotations, policy edits and time on any number of series |
| `GfsHistoryProofs` | its theorems, proved |
| `RotationTx` | overlapping runs of one job: the statements of their rotation transactions, locks and failures |
| `RotationTxProofs` | its theorems, proved |
| `RunLifecycle` | what a client of the API may rely on about runs, artifacts and announcements |
| `BackupRuns` | broker, workers, rows, API and faults |
| `BackupRunsProofs` | its theorems, proved, among them that it implements `RunLifecycle` |
| `SecretVault` | what the storage page and its API promise together about secrets |
| `StoragePage` | the storage page, the storage API and the OAuth flows |
| `StoragePageProofs` | its theorems, proved, among them that it implements `SecretVault` |
| `JobEditor`, `JobEditorProofs` | the jobs page and the jobs API; theorems |
| `ServersPage`, `NotificationsPage` | a page each, with its API, as actions |
| `Console`, `ConsoleProofs` | one tab that shows one page or the other; theorems |
| `Session`, `SessionProofs` | the tabs of a browser, their token, and the accounts; theorems |
| `MC...` | the instances TLC checks |

### Rotation and GfsHistory

A row is `[id, at]`. `BucketOf[g][t]` is the key `_assign_bucket` builds; the five
dictionaries become the set `Grans`, and all that is assumed of the keys is that
they grow with time (`CalendarAssumption`), which holds of years, of
(year, month), of ISO (year, week), of dates and of (date, hour) under Python's
tuple order, although weeks straddle months and years. `TopKeys` is
`sorted(keys, reverse=True)[:n]`, a negative `n` included. `ORDER BY created_at
DESC` leaves rows of equal `created_at` in an order PostgreSQL chooses; here the
larger id counts as newer, always the same way. `bucket_dict[key][0]` is
`NewestInBucket`. `Marked` is the loop at `rotation.py:79-91`, `WouldDelete` the one of
the preview.

In `GfsHistory`, `Backup(s)` is one successful run at one destination: the new artifact
joins the rows of its series and the whole series is rotated before the commit
(`backup_tasks.py:113-147`); without a policy rotation is skipped.
`BackupWithoutFile(s)` is a success without a checksum, which rotates without bringing
an artifact. `created_at` is `func.now()`, the start of the transaction that
`db.refresh(run)` opens: the start of the run, and so still the newest of its series
where runs do not overlap. `SetPolicy` stands for every way a series comes under another
policy (an edit, a deletion, a new default, an override). `base`, `since` and `rotated`
are ghosts: the rows live when the policy was set, those created under it, and whether
it has been applied yet.

### RotationTx

The same rotation where runs of one job overlap (a retry, a redelivery, two triggers).
Each worker has its transaction at READ COMMITTED, PostgreSQL's default, which nothing
in the repository changes.

| Variable | In the program |
|---|---|
| `destIds`, `order`, `idx` | `job.destination_ids` now, the worker's copy of it, the iteration of the loop at `backup_tasks.py:135` |
| `rows`, `dead` | per destination, the committed `backup_artifact` rows of the job and those with `is_deleted` |
| `new` | the pending artifact, dated when the transaction began; the same at each destination |
| `seen`, `todo` | the run ids read at `rotation.py:28`, and the dirty rows the flush has not sent yet |
| `locks` | the rows the transaction has updated and holds until it ends |
| `overtaken` | ghost: somebody committed since this transaction began to rotate |

| Action | Code |
|---|---|
| `Begin`, `Succeed`, `SucceedWithoutFile` | `backup_tasks.py:66-130` |
| `ReadRuns`, `ReadArtifacts` | the two queries of `rotation.py:27-37`, the second with the decision of lines 46-91 |
| `MarkRow` | one UPDATE of the flush at line 93, in the order of the primary keys |
| `NextDest`, `Commit` | the loop, and the commit at `backup_tasks.py:160` |
| `RotationError` | an override that is no UUID: the handler commits what has been flushed, as a failed run |
| `Rollback` | a failed execution, a refused flush, a lost connection, a dead process |
| `UpdateJob`, `Tick` | `routers/jobs.py:55-68` with other destinations; the clock |

### BackupRuns

| Variable | In the program |
|---|---|
| `jobRow`, `storageRow` | the rows of `backup_job` and `storage_destination` that exist |
| `status`, `finished`, `art` | `backup_run.status`, `finished_at IS NOT NULL`, the `backup_artifact` rows |
| `queue`, `payload` | a message: ready, unacked or settled; the job id, Celery's `retries` header and, as a ghost, the trigger it descends from |
| `pc`, `holds`, `at` | per pool process: where in `_run_backup` it is, its message, its run |
| `cancelling` | cancel requests between their read and their commit |
| `origin`, `sent`, `orphaned`, `lost`, `redelivered`, `crashes` | ghosts the properties speak about |

| Action | Code |
|---|---|
| `TriggerJob` | `routers/jobs.py:80-88`; what the scheduler publishes is the same message |
| `CancelRead`, `CancelCommit` | `routers/runs.py:77-87`, the row read and the row written when the request ends |
| `DeleteJob`, `DeleteStorage` | `routers/jobs.py:71-77`, `routers/storage.py:121-127` and the models' cascades and foreign keys |
| `Take`, `Ack` | delivery and late acknowledgement, `celery_app.py:20-22` |
| `LoadJob`, `InsertRun`, `InsertRefused` | `backup_tasks.py:66-90`; the insertion is refused when the job went in between |
| `Execute` | `backup_tasks.py:92-107`: success with a checksum, success without one, failure, exception |
| `CommitSuccess`, `RotationError`, `CommitRefused` | `backup_tasks.py:107-160` and the handler `173-179` |
| `Retry` | `backup_tasks.py:149-158` with Celery's `retry` |
| `CommitFailure` | the commit at 160, or the one of the handler at 177 |
| `Notify` | `backup_tasks.py:162-171` |
| `Crash`, `ChildLost`, `RestoreOrphan`, `RestoreLate` | external: container and process loss, kombu's restore of unacknowledged messages |

Three library behaviours carry weight. After a failed flush a SQLAlchemy session
refuses everything until it is rolled back, so the handler's `db.commit()` raises
as well (`CommitRefused` leaves the row as it was). `task.retry` publishes and then
raises, into the `except` of `_run_backup`. A restored message keeps its delivery
tag, so the acknowledgement of a late worker has an effect only when the message
is out again.

`RunLifecycle` has no messages, workers, retries or crashes. `BackupRuns!Life` maps its
variables to those of the same name, and the job of a run to the job of the message the run
came from. `InsertRun` is `Start`; `CommitSuccess`, `RotationError` and `CommitFailure`
are `End` (which allows one outcome per run and the copies of all destinations or of
none); `Notify` is `Announce`, after an outcome, once and truly; `CancelRead` and
`CancelCommit` are `AskToCancel` and `Cancel`, the blind write; the deletions are
`DropJob` and `DropStorage`. Every other step (deliveries, retries, refused
commits, acknowledgements, crashes, restores) and the commit for a run that is gone
stutter: no client sees them. It promises no liveness, since the code does not either (`RunsEnd`).

### StoragePage and SecretVault

A secret is its owner: the destination whose form it was typed into, `New` for a form
opened by Add, or the OAuth flow that yielded it; `Empty` is a blank field. The form keeps
one field per backend, as the page does, so what was typed for one destination is still
there when another one is opened (`EditForm` resets the fields of the row's own backend
only). `form.record` is a ghost: the record the fields were loaded for.

| Action | Code |
|---|---|
| `OpenNew`, `OpenEdit`, `Cancel`, `SelectBackend`, `TypeSecret` | `storage/page.tsx:104-126` and the fields at 181-276 |
| `Save`, `SaveFails` | `handleSave` up to its `await`; a refusal or a lost request |
| `CreateDone` | `routers/storage.py:76-85` and the rest of `handleSave` |
| `UpdateRead`, `UpdateDone` | `update_storage` up to its SELECT (line 101), which locks nothing; its merge, flush and commit (105-118), with the rest of `handleSave` |
| `Authorize`, `StartAnswered`, `StartFails` | the button's handler before and after its `await` |
| `Callback`, `WriteToken`, `ExchangeFails` | `handle_callback`: the entry read, the exchange awaited, the entry written back |
| `Poll`, `ReadToken`, `DeleteToken`, `ReceiveToken`, `ReceiveExpired`, `PollFails`, `PollTimeout` | the polling effect and `get_token`, which reads and then deletes |
| `Expire` | external: the TTL of a flow in Redis |

An update writes what SQLAlchemy writes: the columns that differ from the row it has
read, over whatever the table holds by then (`Written`). A config has keys beside its
secrets, so one whose secrets are as they were may be written or not.

`SecretVault` knows destinations, their secret values, the flows that were granted, and
edits. A destination is put with secrets, blank fields or granted tokens. An edit looks at a
destination and later replaces it: it may blank nothing it has seen, and it may undo what
another edit has stored since, because the code does not serialize edits. What is deleted
does not return. `StoragePage!Vault` maps a destination's `config` to its contents, and the
row an update has read to what its edit has seen.

### JobEditor

An item is a path, a database, a volume or a script. `choice` has a list per backup type,
as the form has a field per type, and `BuildSourceConfig` sends the one of the type shown.
A stored `config` has more: `source` may hold choices of several types, as a job the API has
created may, and `unseen` the keys the executor reads and the form does not know (db_name,
pg_user, dump_format, compress_level, stop_containers, volumes, excludes, script). `LoadRow`
takes from it what the form shows, the update replaces it as a whole, and a `do_snapshot` job
keeps of it nothing the model tells apart. Updates read and write separately, as in `StoragePage`.
`ItemsOf`, `OrphansOf` and `BindMountsOf` say what each server has. The listings of
databases, volumes and directories are requests of their own, each of which remembers the
server it was sent for; changing the server or the form does not cancel them.
`Prune` keeps the page's mixture of two servers: it offers the orphans of the listing on
display and prunes those of the server selected. The API prunes (`Pruned`), and the answer
asks for the listing of that server again (`PruneAnswered`).

### ServersPage, NotificationsPage, Console

Both pages have the same shape: a list, one form, requests in flight. A secret is again
the record whose form it was typed into. `Console` instantiates both over variables of its
own; a link of the sidebar unmounts one page (`Leave`: its form and list go, its
requests do not, and their answers find no page) and mounts the other. Each page has places
(`Slots`) for requests under way, and its updates read (`UpdateRead`) and write (`UpdateDone`)
separately: `update_server` and `update_channel` set the columns they were sent on the row they
have read, and write those that differ. Two that overlap can leave the type of one and the
`meta` or `config` of the other. A server's `api_token` is a column of its own which is sent
for type `api` only, so that no update to another type clears it.

### Session

`token` is `localStorage`, shared by the tabs. A tab shows the login page, the setup page
or the application and has at most one request of each kind under way: the poll of the
top bar, the setup status, and what the user asked for. A request carries the token of the
moment it is sent, is authorised (`AuthoriseAdmin`, `CountAccounts`), committed (`Commit`)
and answered in separate steps. `apiFetch` reacts to any 401 by removing the token there
is at that time and by loading the login page, whichever token the request carried.

A page load (`location.href` of `apiFetch` and of logout, or opening the console) drops
only the browser's end of a request. What may change the accounts goes on in the API,
whose `get_db` commits when the handler ends: `Unloaded` moves such a request to a place
in `Left`, where it is authorised and committed like any other and its answer reaches
nobody. The places are as many as there can be requests (`LeftAssumption`). A login
changes no account and is not kept. `Open` sends the poll of the top bar before the
layout sends a tab without a token to the login page, and that poll's 401 is handled
there. A request keeps its token only where the API looks at it, and an expired one as
none, which is how the API treats it.

## 3. What the runs check

| Run | Instance | What it shows |
|---|---|---|
| `gfs_history` | 4 instants, days of 2 and weeks of 3 (a week straddles two days, as ISO weeks straddle months), 2 policies, 2 symmetric series, 4 backups | incremental rotation equals one rotation of the whole history; recent buckets stay covered; a run keeps its own artifact; it deletes at most one row per positive count that a preview before it did not list |
| `rotation_tx` | 2 symmetric workers, 3 runs beside 2 older artifacts, 3 destinations in 3 orders, one of them with an unusable override, one with a negative count | stale reads delete too little and never too much; the newest backup is live; the next undisturbed rotation catches up; only an edit that reorders the destinations can deadlock |
| `backup_runs` | 2 workers, 1 job with 2 destinations, 3 messages, 3 runs, 1 late restore per message, 1 crash, 1 cancellation | the safety of the pipeline, and that `RunLifecycle` is implemented |
| `backup_liveness` | 1 worker, 2 jobs that share a storage, one of them with an unusable retention override and no retries | every message is settled, every run ends, but for the two exceptions stated |
| `storage_page` | 2 symmetric destinations, 2 symmetric flows, 1 worker, 2 saves under way, 5 clicks | updates write the record of their form, creations carry nothing typed for another one, the spinner always has a timer, and `SecretVault` is implemented: an update blanks nothing it has read |
| `storage_secrets_kept` | as `storage_page` | disagreement with the words below a secret field: two overlapping saves lose one |
| `job_editor` | 2 jobs, 2 servers with different databases, volumes and files, 2 destinations, 1 key the form does not know, 2 saves under way, 5 clicks | a job is written only from its own form, its lists stay free of duplicates, opening and saving it keeps exactly what the form shows, its server is fixed |
| `console` | 2 symmetric servers, 1 channel, 2 saves under way per page, 5 clicks | no server takes over a secret of another one and no channel is created from one; a save leaves of the former type an API token at most, unless updates overlap; reopening loses exactly the secrets |
| `session` | 2 tabs, 2 names, 2 accounts, 2 clicks, a place for each request of a page that is gone | a tab that has lost its session leaves the application; without an active administrator and a request authorised before, the accounts never change again |
| `gfs_preview_exact` | as `gfs_history` | disagreement with the docstring of the preview |
| `retry_budget`, `failure_announced` | 1 worker, the decorator's limit of 3 | disagreements with the form's help text and with the list of triggers |

Bounds. Rotation needs two buckets of one granularity, ties in one bucket, and a
bucket that straddles two others: four instants and four backups give all of
them, and the policies cover positive, zero and negative counts and an age limit that
bites. In `BackupRuns` one redelivery already gives two runs of one message, one
retry gives both sides of `retries < TaskMaxRetries` (the limit of the decorator, 3,
is a constant; 1 keeps the space small and 3 is used where the number matters),
two workers give every interleaving of two attempts, and two
destinations are the least that can be written partially. `MaxTriggers`, `MaxMsgs`,
`MaxRuns`, `MaxRedeliveries`, `MaxCrashes`, `MaxCancels` and `MaxBackups` bound the
models only; the theorems hold for any values.

In `RotationTx` two workers give
every interleaving of two transactions; a third run is needed for one that catches up, and
two rows from before rotation was configured make every rotation mark something. Two
instants give ties and different hours in one day. A rotation that fails at a later destination
after it has marked rows of an earlier one, and commits these marks, needs more rows than that:
the run has the failure and the marks, but not both in one transaction, and that case is left to
the theorems `NeverDeletesTooMuch` and `RotationCatchesUp`, which have no bounds.

In the models of the pages `MaxClicks` bounds what the user does and `MaxSaves` (in `Console`
the set `Slots`, for each page) the requests under way; answers, polls and expiries are not
bounded. Two requests are the least that overlap. Five clicks open a form,
fill it, save it, open another and save that. Two flows are the least that overlap; one
worker answers polls one at a time, and with two the stored token could
only be collected twice, which `WriteToken` over a collected entry already gives. In
`Session` two clicks are one action of each tab: two setups, an administrator who demotes
or deactivates itself against a creation or a login, a login against a late 401. That
several administrators remove each other step by step is left to the theorem, which
has no bounds.

Every configuration says `CHECK_DEADLOCK FALSE`: when the bounds are used up, or when
nobody triggers a backup or touches a page any more, the system rightly stands still.

Symmetry is used only in the safety runs, on constants no definition tells apart
(workers, storages with the same jobs, series, destinations, flows, servers). `MCSession`
checks liveness and so uses none; it fixes the name of the first account instead.

Fairness (`BackupRuns!FairSpec`). `WF(WorkerStep(w))` for each process: every SSH
command has a timeout, the pool schedules each process, and a free process
consumes what is ready. `WF(RestoreOrphan(m))`: kombu restores an unacknowledged
message after the visibility timeout. Users, crashes, cancel requests and late
restores owe nothing. No strong fairness is needed.

Fairness (`Session!Fairness`), for each tab: `WF(PollDashboard)`, because the interval of
the top bar fires every 30 seconds; `SF(Dashboard)` and `SF(Receive)` for its request, since a
request may fail and be dropped by a navigation, but not every one for ever. Users owe
nothing, nor do their requests.

`SignedOutLeaves` allows that the session is good again before the tab notices: another
tab may have logged in. `LockedForever` is about accounts, not about the token: the
administrators may demote, deactivate or delete each other until none is left, and then
setup stays closed because accounts exist.

The two exceptions in `RunningIsOwned` and `RunsEnd` are the program's, not the
model's: a run whose worker died, and a run whose commit was refused because a
destination had been deleted, stay "running" for good; nothing sweeps them.
`docs/n8n-integration.md` tells clients to poll until success or failure, which
then never comes.

## 4. What is proved

`tlapm` checks every proof to its leaves, for every value of the constants that
satisfies the named assumptions of its module (`CalendarAssumption`, `GransAssumption`,
`PolicyAssumption`, `TxAssumption`, `ConstantsAssumption`, `StorageAssumption`,
`JobAssumption`, `ConsoleAssumption`, `SessionAssumption`, `LeftAssumption`,
`AccountAssumption`); `GransAssumption` says that the granularities are finitely many;
those of the pages say only that ids, marks and blanks differ and that a server lists
finitely many items, `TxAssumption` also that the ids of earlier artifacts are unique,
as primary keys are.

* `GfsHistoryProofs`. `TypeCorrect`; `Batch` (`IncrementalIsBatch`); `PromiseKept`
  (`RecentBucketsCovered`); `NewestAlwaysSurvives` (`NewestSurvives`);
  `PreviewShortByFew` (`FewUnannounced`). The invariant that carries them,
  `RowsOK`, says that the rows are finitely many, that none is from the future and that
  an id is used once. The argument for `Batch` is that Keep(p, Keep(p, S) ∪ {new}) =
  Keep(p, S ∪ {new}) when `new` is newer than all of S: a bucket outside the top n
  never comes back, and a row that was not the newest of its bucket never becomes it.
  Both facts are lemmas of `RotationFacts`, which need the cardinality of sets of keys
  and the monotonicity of `BucketOf` and nothing about calendars. For `PreviewShortByFew`, a row
  a preview of all series would keep is the newest of a bucket it keeps, in its own series too.
  If the rotation after a backup deletes it, then the new artifact has pushed it out, either
  of its bucket or, by opening a bucket, of the last place of the list of that granularity.
  One granularity loses one row at most (`OneDisplaced`), so that the unannounced rows are mapped
  one to one into `Counted` (`FewDisplaced`).
* `RotationTxProofs`. `TypeCorrect`, `NeverDeletesTooMuch` (`NeverTooMuch`),
  `NewestStaysLive` (`NewestIsLive`), `RotationCatchesUp` (`CatchesUp`), for any number
  of workers, destinations and runs. The invariant speaks of `Doomed(w, d)`, what a
  transaction has marked or is about to mark: all of it will be among the rows
  (`Within`), none of it would be kept among them (`Sound`), each of it is older than
  another (`Superseded`), and it is exactly what a rotation of the committed rows would
  remove until another worker commits (`Exact`). A commit of another worker only adds
  rows, and `KeepAntitone` says that a row kept among more is kept among fewer; so what
  was decided from stale rows stays right. `KeepStable` (removing what is not kept
  changes nothing) turns `Exact` into the equality of `CatchesUp`. Cardinalities enter
  through these two lemmas alone. `OnlyReorderDeadlocks` (`DeadlockByReorder`):
  `LockInv` says that ids name rows and that at its present destination a worker has
  locked only rows with smaller ids than those it still has to lock (`LocksBehind`);
  that it has locked nothing at later destinations is part of the types (`Shape`). Were
  all orders in a circle of waiting workers the same, each would wait at a row further
  on than the one before it waits at (`AwaitsFurther`); of the rows waited for by the
  circle one is the last (`LeastNatural`, on the distance from the end), and its worker
  waits for none.
* `BackupRunsProofs`. `TypeCorrect`, `ArtifactsAtomic` (`AllOrNothing`), `RunningOwned`
  (`RunningIsOwned`), `LateAcknowledgement` (`SettledHasOutcome`), `NotificationsTrue`
  (`AnnouncedIsTrue`). None of these is inductive. `IInv` adds that no two workers are
  at the same run (`RanAlone`), that the run of an active worker has no outcome, no
  artifact and no announcement (`NothingYet`), that a worker about to announce has
  committed what it will say (`AboutToSay`), that rows disappear with their job
  (`GoneWithJob`) and that a worker reaches its acknowledgement only when its message
  has an outcome or lost its job or a destination (`DoneWhenSaid`). The proof has one
  lemma per kind of step. `RunsOfATrigger` (`AttemptsBounded`) counts without sums.
  `SlotInv` says that there is a function from attempts (a run, a message that is ready,
  a worker that has not yet inserted its run) to slots: the first delivery of the
  trigger, or one of the times the broker restored a message of its family. A delivery
  hands its slot to the worker, the worker to the run, the run to the message of its
  retry (`SlotHandedOn`); a restored message gets a new one (`RestoreShares`). Attempts
  of a family with the same number of retries have different slots (`Apart`); what makes
  this inductive is that no later attempt has the slot of one that can still hand it on.
  So <<retries, slot>> tells the runs of a family apart, and `FamilyBounded` is the
  cardinality of a product. `ImplementsLifecycle` (`LifecycleKept`): `LifeStep` takes
  each kind of step to its abstract one, from `IInv` and from `Said`, that a worker
  announces only a run that has an outcome or is gone. That the job of a run never
  changes (`JobNowKept`) needs that messages keep their payload and runs their message.
  `OutcomeWrittenOnce` is then a consequence of the abstract steps alone
  (`LifeIsFinal`): outcome and artifacts of a run are written once.

* `StoragePageProofs`. `TypeCorrect`, `SpinnerEnds` (`SpinnerHasTimer`),
  `WritesRightRecord` (`RightRecord`), `AddStartsFresh` (`FreshAdd`), and
  `ImplementsVault` (`SecretsSurvive`): the initial states are vaults, and every step of
  the page, the API or Redis is a grant, a put, a drop, a step of an edit or a stutter
  of `SecretVault`. The invariant behind it is `Tokens`: wherever a token is, in Redis,
  in a poll, in the form, in a request, in what an update has read, in the list or in
  the table, its flow was granted. That an edit blanks nothing it has seen is
  `MergeConfig` over the row read, and `Written`, which writes that or leaves the
  column; that it brings nothing ungranted needs all of `Tokens`, since a token travels
  through every one of these places. `FreshAdd` needs `FreshForm`, the same of the form
  that is open.
* `ConsoleProofs`. `TypeCorrect`, `SecretsStayOwn` (`OwnSecrets`), `LittleLeft`
  (`NoLeftovers`), `ReopenChangesNothingElse` (`ReopenedIsSame`). A form holds secrets
  of the record it edits (`FormOwn`), hence so does each request (`SaveOwn`), hence a
  row after the answer, whoever is on the page by then. `Fits` says that a payload has
  no password its type does not use: so has a row when the row an update meets is the
  row it has read (`WrittenRow`); when it is another one the update overlapped, as the
  property allows. Each page's steps are treated once, against the disjuncts the console
  uses. From these and the types follows what a form shows of its record, and that an
  untouched form writes it back without its secrets (`ServerReopened`,
  `ChannelReopened`).
* `JobEditorProofs`. `TypeCorrect`, `WritesRightJob` (`RightJob`), `ServerNeverChanges`
  (`ServerFixed`), `NothingTwice` (`NoDuplicates`), `ReopenLosesUnseenOnly`
  (`ReopenKeepsShown`). Every edit keeps the form's id and record together (`SameJob`);
  a late answer closes the form with both. The other three rest on `Fit`: the lists of
  the form, of each request and of each stored or listed job have the right elements,
  and none of them twice. `Without`, the `filter` of the page, is a recursive function
  over the positions of the list; what it keeps of any list (`WithoutFacts`) is an
  induction on the length, done by hand: of the lengths at which the claim fails there
  is a least one (`LeastNatural`), it is not 0, and its predecessor refutes it (`UpTo`).
* `SessionProofs`. `TypeCorrect` and `LockedOut` (`LockedForever`): from a locked state
  the answer to every administrative request is a refusal, setup counts accounts and
  refuses, so no request becomes "allowed" (`Shut`) and nothing commits; a page load
  only moves requests to other places, and brings none that was not there
  (`ShutUnloaded`). `Ranges` adds to the types that only setup and administrative
  requests are ever allowed.

Every safety property of the runs, invariant or action property, is a theorem. Only
model-checked are the liveness properties `EverythingSettles`, `RunsEnd` and
`SignedOutLeaves`, since TLAPS reasons neither about fairness nor about ENABLED.

## 5. Findings and abstractions

Findings (`PROJECT.json` has the lines):

* the retry limit of a job compares the counter of a fresh row, so any positive
  number means "the decorator's three"; and with retries configured `run.failed` is
  never sent, because `task.retry` always leaves through the handler;
* the preview looks at all jobs and storages while rotation works on one of each, so it announces
  deletions that do not happen; and a rotation follows a new artifact, which deletes rows the
  preview did not list: one per positive count at most (`FewUnannounced`);
* `max_age_days` deletes nothing that a count keeps, and what no count keeps is
  deleted anyway: the field has no effect (`Marked` says so by its second conjunct);
* an update of a destination merges with a row it read without a lock: of two saves that
  overlap, the one with the empty field can erase the secret the other one has stored;
* opening a job and saving it erases db_name, pg_user, dump_format, compress_level,
  stop_containers, volumes, excludes and script from its `source_config`, and the choices of
  other types: `buildSourceConfig` makes a new object of the fields shown and `update_job` replaces
  the column. `docs/n8n-integration.md:73` creates a job with a key `database`, which goes
  the same way;
* a cancellation is a blind write on either side;
* a destination deleted during a run leaves the run "running";
* editing a server or a channel erases the secrets the form cannot show: `meta` and
  `config` are replaced, where the storage API merges; a server that leaves type `api` keeps its
  token for good;
* the job form offers another server for an existing job and the API ignores it.

Abstractions, beyond the data:

* the worker executes a snapshot of the job; `JobDests` and `JobMaxRetries` are
  constants, so an edit of the job during a run is not modelled, and a job does not
  name a destination twice;
* deleting a server deletes its jobs: `DeleteJob` stands for it, a server at a time
  for one job;
* messages a worker has prefetched count as ready; `retry_count` is always 0 when it
  is compared and is no variable; the countdown of a retry is the time its message
  spends ready;
* the `last_sent` of a channel is not committed on this path, and nothing reads it;
* a broker that refuses the retry message, a database that drops the connection
  and a notifier that raises are not modelled, nor is Redis losing its data;
* the rotation inside `CommitSuccess` is `GfsHistory`'s, where the workers of one job do
  not overlap, and `RotationTx`'s, where they do;
* in `RotationTx` every destination has a policy (one without is left by the loop before
  the first query and nothing marks its rows), policies are not edited, the id of an
  artifact stands for the id of its run as well, and ids are compared as the uuids of the primary
  keys are: that all workers use one order is all that matters.

Of the pages:

* `StoragePage`: a pasted token, the status label, name and capacity are left out; the
  failure counter of a poller is the choice of `PollFails` between going on and stopping;
  leaving the page is not modelled, it drops form and effect;
* all pages: `Load` yields the table or what was shown before, which covers a failed
  request but not two listings that are answered in the reverse order; a handler that
  throws is `SaveFails`; a record's name, host and the like are no data any property
  tells apart;
* a late token lands in whichever form is open when its poll is answered: the code does not
  prevent it and no property says otherwise; likewise an update may carry fields left from another
  record's form (`FreshAdd` is about creations only, on the storage and on the notifications page);
* a create reads nothing and is one step, as is a deletion;
* `ServersPage` and `NotificationsPage`: the tests of a form or a record write nothing the
  pages keep; `ssh_key` stands for `local`, `slack` for the types without a secret; a key
  that is missing counts as empty;
* `JobEditor`: an item stands for its name, so a database of one server is never one of
  another; schedule, scripts, encryption and the subdirectory are fields without control;
* `Session`: one browser; a status or a poll that is dropped by a page load changes nothing in the
  API and is forgotten; a row of the users page may be arbitrarily old; `operator` and
  `viewer` are "no administrator"; a rate limit is a failed request; an answer is sent
  after its commit; a JWT ends by `Expire` at any time; API keys, TOTP and the profile are
  not modelled.

Not modelled: dashboard, runs, artifacts, retention and settings pages (they read, or
write one simple row); the scheduler and the health check, which are next in the plan;
SSH and rclone clients, encryption and mail (I/O), webhooks, audit log, plugins and the
rotation task (never called), dashboard and metrics (queries).

## 6. Plan

Done: rotation, its transactions, the pipeline and what it promises (`RunLifecycle`),
the pages that write, the OAuth flow and the session. Next, in this order; each module
brings its MC instance, its mutants and its map.

1. `Scheduler`: cron windows, the check that waits behind backups in the same queue,
   the run row that appears only later. Duplicates, misses and the stall after a second
   row.
2. `Executor`: stop, dump, checksum, start, with failures at each point and two runs on
   one server in the same second.
3. `HealthMonitor`: announced outages against tests that take their time, and the one
   commit for all servers.
4. The searches of the artifacts page, whose answers overtake each other.
