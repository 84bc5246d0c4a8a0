# TLA+ models of warehouseAnalysis

This directory specifies the parts of warehouseAnalysis whose correctness depends on order,
interruption, sharing or exact figures: the event channel between the cloud and the workbench, the CSV
import and its wizard, backups, start-up and safe mode, logins on the desktop and in the browser, the
agent's task runs and configurations, the status stream, what the inventory events are worth once they are
replayed and analysed, and what becomes of the results. Every model is checked by TLC on small instances;
what they say is also proved with TLAPS, for all values of the constants, as far as section 4 tells.

## 1. The system

The *workbench* is a PySide6 desktop program with a local SQLite database. The *control plane* is a
FastAPI service with PostgreSQL. The workbench runs

* the **UI thread** (imports, analyses, backups, the daily backup timer, start-up and login),
* the **SyncWorker** thread (pulls encrypted event envelopes and stores the events),
* the **AgentWorker** thread (heartbeat, configuration, tasks),
* the **StatusStreamWorker** thread (SSE, polling as a fallback).

They share the SQLite database through separate connections, one `HttpApiClient`, and one token
file. There is no application lock around any of these: what is atomic is a SQLite transaction and a
request handled by the control plane (its routes are coroutines that call synchronous use cases, in
one uvicorn process, so a request is handled without another coming in between).

| Component | State | Operations | Interacts with | What is hard | Correct when |
|---|---|---|---|---|---|
| Cloud envelopes (`sync_usecase.py`, `db/repositories.py`) | `sync_envelope` | inject, pull (+ purge), ack | SyncWorker over HTTP | TTL against late acks; purge by any device's pull | an envelope leaves the queue only when its event is stored, or by TTL |
| SyncWorker (`sync_worker.py`, `sync_repository.py`) | `sync_inbox`, `sync_outbox`, thread locals | cycle: resend acks, pull, handle each envelope | cloud, `inventory_event` | five transactions and two calls per envelope, stop and crash between any two | store before ack, ack exactly once, nothing dropped silently |
| CSV import (`import_manager.py`, `import_wizard.py`, `import_page.py`) | `sku`, `inventory_event`, `import_batch`, `import_error`; the wizard's pages | run_import (master, events); choose, map, run, errors | projection, SyncWorker's inserts, the file on disk | one transaction per step, database checks that the importer lacks, a file read three times | every row stored or reported, counts true, one commit per file, the wizard tells the truth |
| Projection (`projection.py`) | `inventory_balance` | rebuild | import | runs only after imports that insert; a second program for what the engine's replay computes | equal to a replay of the events |
| Backup and restore (`backup_service.py`, `backup_manager.py`) | database file, backup files, `backup_record` (inside the database!) | backup, restore | scheduler, all writers | the records travel with the snapshot; replacement under open connections | verified means readable; a restore loses nothing |
| Backup scheduler (`auto_backup_scheduler.py`) | state file | minute timer | backup | state written before the backup is made, a state file that cannot be written | one backup a day |
| Start-up and safe mode (`main.py`, `upgrade_safety.py`, `safe_mode_dialog.py`) | schema version, `app_meta.json` | snapshot, migrate, restore, open read-only | backup | a migration that fails half-way, a second start of the same code, restores without a digest | an old database survives a failed upgrade |
| Session, server (`auth_usecase.py`, `session.py`) | `session` | login, refresh, logout | client | rotation and replay detection | a token is accepted once, revocation is final |
| Session, client (`http_client.py`, `token_store.py`) | token file | request, 401 -> refresh -> retry | all worker threads | unlocked sharing, truncate-then-write, lost answers | the stored pair is the accepted one |
| Accounts and browser tabs (`account.py`, `auth_usecase.py`, web `client.ts`, `page.tsx`) | `account`, `session`, `localStorage` | wrong password, login, logout, suspend | all tabs of a browser | lock and counter with a clock; tokens shared and cleared after awaits | guessing is slowed for good; a logout ends the session |
| Devices, licences, heartbeat, config, tasks | control-plane tables | register, report, publish, pull | AgentWorker | read-modify-write, runs locked before the answer is sent | licence limit kept, a run goes to one device, once |
| AgentWorker (`agent_worker.py`) | config cache, backoff | beat, refresh config, run tasks | control plane | stop between calls; failed cache writes | an applied configuration is verified |
| Realtime hub, status stream (`hub.py`, `status_stream_worker.py`) | ring buffer, queues | publish, subscribe, resume | web and desktop | bounded queues, restarts | no event is lost within the buffer |
| Saved runs, reports, analysis page (`report_export.py`, `exporter.py`, `analysis_page.py`, `report_page.py`) | `analysis_run`, `report_artifact`, files, widgets | run, look up, export, restore | other windows, backups | file written before its row; tables filled by different handlers | a registered hash is that of its file; a page shows one run |
| Analysis use case and adapter (`analysis_usecase.py`, `dataset_adapter.py`) | none; reads `inventory_event`, `stock_snapshot` | default request, build, run | local database, engine | two reads in two sessions; closed against half-open periods | every event of the period is analysed |
| Analysis engine (`warehouse_engine`) | the buckets of a replay | replay, KPI, ABC, ageing, replenishment, forecasts | dataset adapter | backdated reversals, reversals of reversals, stocktakes, lots, negative stock, zero denominators | results agree with their definitions |

`PROJECT.json` lists the same components with their status, and under `hazards` each place where the
code can go wrong in a way a test would hardly reach.

## 2. Modules

| Module | Models | Checked by |
|---|---|---|
| `EventDelivery` | what the event channel promises: stored, then released, then confirmed | as the property `DeliverySpec` |
| `SyncPipeline` | cloud envelopes, the network and the SyncWorker | runs `sync`, `sync_redelivery`; `SyncPipeline_proofs` |
| `ImportPipeline` | run_import next to the SyncWorker's inserts | runs `import`, `import_race`, `import_failed`; `ImportPipeline_proofs` |
| `ImportWizard` | the wizard's pages and a file that is rewritten meanwhile | run `import`; `ImportPipeline_proofs` |
| `BackupRestore` | BackupService, its files and its records | through `StartUp` |
| `StartUp` | extends it with start-up, migrations, safe mode and everything that touches the files | runs `backup`, `backup_judged`; `StartUp_proofs` |
| `DailyBackup` | the scheduler and its state file | run `backup`; `StartUp_proofs` |
| `AuthSession` | session table, HttpApiClient, token file, the workbench's life cycle | runs `auth`, `auth_reuse`; `AuthSession_proofs` |
| `AccountLogin` | the lock against guessing, logins and logouts of browser tabs | run `auth`; `AuthSession_proofs` |
| `DeviceRegistry` | the device table and the licence that bounds it | through the next two |
| `TaskHandout` | what the task service promises of a run | as the property `HandoutSpec` |
| `TaskControl` | AgentWorker, configurations and task runs | run `control`; `TaskControl_proofs` |
| `StatusStream` | the hub, one SSE connection and its reader | run `control`; `TaskControl_proofs` |
| `Amounts` | sums and exact fractions | through the next three; `Amounts_proofs` |
| `StockReplay` | the ledger, the projection, the dataset adapter and the engine's replay | runs `replay`, `analysis_period`; `StockMetrics_proofs` |
| `StockMetrics` | extends it with the roll-up, ages and stale stock; holds the properties of both | runs `replay`, `analysis_period`; `StockMetrics_proofs` |
| `Analytics` | the five calculators after the replay | run `replay`; `StockMetrics_proofs` |
| `Reports` | saved runs and the export of reports | run `replay`; `Reports_proofs` |
| `AnalysisPage` | extends it with what the analysis page shows | run `replay`; `Reports_proofs` |

The `MC*` modules instantiate them for TLC. Protocols that share no state share a run: the variable
`part` of an MC module says which of them a behaviour follows, and the others keep their initial state, so
the state spaces are added and not multiplied. Where components do meet, they are one module or one
extends the other: import and sync inserts, backups under start-up and under commits of other threads,
registry under tasks and under the stream, saved runs under exports, restores and the page.

The operators whose comment begins with *Mutation* are
plausible bugs: each is put in the place of the definition after it, and the property it is listed with in
`PROJECT.json` must then fail. They show that a property depends on the code it is about.

### SyncPipeline

State: `cloud` (one row per envelope, with `expired` and `purged` for the clock and the TTL),
`known` (events whose SKU and warehouse exist), `inbox`, `outbox`, `inventory`, and `worker`: the
thread's program point, the acks still to resend, the pulled batch and the envelope in hand. Each step
of the thread is one transaction of `SyncRepository` or `InventoryEventRepository` or one HTTP call.
Envelopes are numbered in the order of `created_at`; acks are resent in that order because they are
registered in it.

* `Inject`, `Expire`, `PurgeByOthers`, `Pull`, `AckAtCloud` are the cloud. An ack of a row that is gone
  is refused, and the client sees no difference between a refusal and silence: `ack_sync_events`
  returns `None` for both.
* `Resend(answered)` / `SendAck(answered)`: when there is no answer, the cloud may or may not have
  handled the request.
* `RecordEnvelope` skips an event that has an inbox row, whatever became of it.
* `OpenEnvelope` is `_decrypt` and `_build_event`; payloads are `good`, `garbled` or `mismatched`.
* `Crash` is the end of the process, or of the thread by an exception `run` does not catch.
* A revoked device or a failing network is `PullFails`. Delays (idle, backoff) are part of `idle`.

### ImportPipeline and ImportWizard

A row of a file is an event id, a SKU, the number of its cells that fail a check, and whether it is
*poison*: it passes every check of the importer and not the database's (`1E-400` is a positive Decimal
which SQLite casts to `0.0`). `upsert_events` is two steps, SELECT and INSERT, because Python's sqlite3
opens the write transaction at the first INSERT; everything else is one step per transaction. The
SyncWorker takes part through `SyncCheck`, `SyncInsert`, `SyncSkip`. `balance` holds the events the
last rebuild replayed. `Crash` is the end of the process or an uncaught database error in
`run_import`; `InsertRefused` is the IntegrityError the code does not catch.

`ImportWizard` takes a batch as one step and looks at what surrounds it. `disk` holds the content of each
path, `Edit` is another program. `SetFile` reads the file for the snapshot of the mapping page, `ClickRun`
is run_import's reading of the rows, `RunImports` / `RunRefuses` / `RunRaises` its second reading for the
digest (`import_manager.py:374-377`) and what follows. `ledger[b].read` is a history variable: the content
whose rows the batch read. Met while modelling, and kept in the model as the code has it: a file rewritten
between the two readings is filed under a digest of content nobody read, so the new content is refused later
as imported already; a file that cannot be read is shown as chosen while the snapshot of the one before stays
and *Next* stays enabled, though `set_file` says it blocks the next step; a second click on a committed file
leaves the first summary beside an error page without a result.

### BackupRestore and StartUp

A database is its facts, its own `backup_record` table, its schema version and whether its integrity
check passes; a backup file is a snapshot of one. That the records are inside the database is what makes
restores hard: a restore takes the table back as well. `Alter` changes a file after it was digested,
`Commit` is another thread, `CommitToReplaced` is another thread that
still holds the file which `os.replace` unlinked. `StartRestore` compares the SHA-256, `Copy` reads the file a
second time and validates the copy: two steps, since the file may be altered between them, and then what is
restored is not what was compared: so `CurrentIsUsable` promises genuine data only while no file was altered
under a restore (`unvouched`). `CopyFails` is a file that cannot be copied or a copy
that does not pass. Until the safety backup a restore changes nothing. `RecordFails` is any write to
`backup_record` that fails: from `create` and `mark_verified` the error leaves `backup`, `_record_failed` and
`_re_register_safety` swallow it (`:416`, `:391`), and in each case the file on disk may be left without a
record, or with one that stays CREATED.

`StartUp` is `create_session_factory`, called twice before the safe mode dialog opens: `TakeSnapshot` /
`NoSnapshot` (the snapshot has no record), `UpgradeBackup` when `app_meta.json` names another version,
`MigrateOne` per Alembic revision (SQLite commits each), `MigrateFails`. In the dialog
`RestoreInSafeMode(b)` replaces the database with no safety backup; a registered file is checked against its
digest, an unregistered one is not; `ContinueReadOnly` opens the database as it is. `Install` is another
version of the program. The history variables name the losses the code really allows: `late` (commits
between a safety snapshot and `os.replace`), `unsaved` (facts that safe mode replaced after the snapshot had
failed), `unvouched` (a restore copied an altered file that had no record or was altered after its digest had been
compared), `displaced` (records taken back by a restore) and `cut` (backups in hand at a crash, or when a write to
`backup_record` failed). Met while modelling: once one
revision of a failing upgrade has been committed, the snapshot of the start can no longer be restored by the
version that took it, because `_validate_restored` compares Alembic versions; and safe mode is read-only in
name: `main.py:577` starts the SyncWorker, which writes. The comment of `_re_register_safety` (`:376-377`) says of a
file whose registration failed that the next backup or restore can find it again: only safe mode lists the
directory. And a restore that fails after its safety backup was made has written a `backup_record`, against point 4 of
the module's docstring.

Left out: a file altered between VACUUM INTO and the digest that is registered for it (it would be registered as
it is); a complete file whose record is FAILED because the schema version could not be read is one of the partial files
of `SnapshotFails`.

### DailyBackup

Time is in half days, before and after `backup_hour`. `TimerTick` reads the clock and the state file and
applies the daily rule or the 24-hour rule; `Note` writes the day *before* the backup (`:174`), `NoteFails` is
the unwritable file, `RunBackup` the callback, which does nothing when the program runs read-only. Crashes may
tear the state file. `excused` collects the days on which a crash, a failed note or safe mode came between;
while the state file cannot be written, every tick makes a backup, which the comment at lines 121-134 calls one
backup too many.

### AuthSession

A token pair is a number. Every thread of the workbench goes `call` -> (401) `reload` -> `refresh` ->
`save` -> `saving` -> `resend`; `save`/`saving` are the two moments of `write_text`. A session is
`ACTIVE`, `EXPIRED` or `REVOKED`. The desktop never calls logout and asks for a login only at its start.

### AccountLogin

`account` is the row that `CanLogin`, `RegisterFailure` and `RegisterSuccess` read and write, with the
clock `now`; `wrong` is the history of wrong passwords since the last good one. The tabs of a browser share
`stored`, the token in `localStorage`, and each goes from `login` through `SignIn` (answered or not),
`Welcome`, `Load` and `Logout`; what a tab sent with an awaited request is in `tab[t].sent`, and 401 answers
remove the stored token whosever it is. `LoginCutShort` is a process that dies between the transactions of a
login. `loose` collects the sessions given up for a reason the code allows (unanswered, run out, removed by
another tab). Met while modelling: the web never refreshes, a logout with a token that has run out leaves the session active
behind the message that it is over, refresh looks neither at the account's status nor at the tenant's, and a suspended tenant's
sessions keep their access although `tenant.py`'s docstring says it is refused.

### DeviceRegistry, TaskControl, TaskHandout, StatusStream

Each route of the control plane is one step. `DeviceRegistry` has registration under the licence,
the part of a heartbeat that changes a device, and days that pass; revoking a device or a licence is done by
operators in the database and is external.

An agent of `TaskControl` goes `beat` -> `config` -> `saving` -> `pull` -> `exec` and looks at `stop` between
calls. `PullTasks` is a pull whose answer arrives, `PullUnanswered` one the control plane has handled and the
agent never hears of: the runs are QUEUED then and no route takes them back, so they are `lost`. Signatures are
abstracted to whether an agent has the control plane's secret (`trusting`). `SaveConfig` emits
`config_applied` whether or not the cache could be written. `TaskHandout` is the promise: a run goes to at
most one device, the assigned one, never to one barred before, and is carried out at most once;
`HandoutSpec` is the refinement.

`StatusStream` has the ring buffer, one connection (`conn`: replay, queue, overflow) and one reader: the
desktop's `StatusStreamWorker` with its fallback to polling and the number on the `StatusCard` (`card`), or the web
hook. Ids start again at 1 when the control plane restarts. The desktop's worker emits every frame as a
snapshot, so an event frame sets the card's number to zero (`EventFrame`, `CardShows`, `status_card.py:121`), and
`docs/用户手册.md:129`, which promises the number of bound devices there, is not kept; no property is about the number. The hook hears snapshots only, and after an error it polls until the page is loaded again.

### StockReplay and StockMetrics

State: `ledger` (the rows of `inventory_event` in the order of insertion), `pc` and the locals of one
`RunAnalysisUseCase.run`: `request`, `dataset`, the events `pending`, one `_BucketState` record for each
SKU and warehouse, `last_cost_by_sku`, `missing_cost_skus`. A run ends with `Return`, and the next one
starts with new buckets.

* `AskLocal` and `LoadLocal` are the two sessions of `SqliteDatasetAdapter.load`; an import may commit
  between them (`Record`). After the second, the run works on its own copy, so what is recorded later
  changes nothing and `Record` waits for the run's end. `LoadContract` is a provider of complete contract
  records, with a request of its own; its records are those of the ledger.
* `AdapterDataset` has no `reversal_of`, as in the code: each local REVERSAL is refused by
  `ReversalsResolve`. The replay of reversals is therefore explored through `LoadContract`.
* One action per event replayed, by the kind of its *base* event (the end of the chain of reversals):
  `ReplayInbound`, `ReplayOutbound`, `ReplayStocktake`, `ReplayTransfer`, `SkipReversal`. `Turn` is the
  sort key; `Opened` the capture of the opening, `Received`, `Issued` and `Counted` the three branches of
  `apply`, `Charged` and `Tracked` the rest of `apply_and_track`.
* `Drain` computes in one expression what `_drain` does slice by slice: the set `ahead[i]` is emptied
  before slice `i`.
* `Rebuilt` is `BalanceProjectionService.rebuild`: one transaction that empties the table and writes it
  anew, so its result is a function of the ledger.

Abstractions: an event's id is its place in the ledger, and the order of ids within a day stands for
`(occurred_at, event_id)`; a day may come late, so events arrive in any order of days. Locations are
dropped. Decimals are integers for quantities and exact fractions for costs (formula-spec 2.2 rounds only
results). The cost kept with a slice is not read by anything modelled. Of snapshots only the dates
matter, as they move the default period.

### Analytics

`WarehouseEngine.analyze` after the replay, one step per calculator (`Kpi`, `AbcAging`, `Replenish`,
`ForecastDemand`, `Compare`, `Deliver`), over *sheets*: what a replay may leave of one SKU. Of a
figure the model keeps whether it is null, its sample count and its reason; amounts stay where one of those, or an ABC
class, depends on them. `LeftOutIsNamed` compares the samples with the warnings. What the code leaves out in silence
it does not claim. Two such gaps: the replenishment figures of an empty dataset are null without a reason
(`replenishment.py:292-296` against `skills/replenishment/SKILL.md:67`), and SKUs known by a snapshot only are left out
of the forecast and not named as having too few weeks (`forecasting.py:255` against `docs/formula-spec.md:240`). Met
while modelling: `F-AGE-001` says `no_closing_stock` where there is stock without an
inbound date; BENCHMARK_UNAVAILABLE also stands for a null metric and for a benchmark of zero; a single best seller beyond the first threshold is
not class A; the stale ratio may exceed 1; some reasons the engine gives are not among the six that
`analysis_page.py:97` and `docs/API.md:922` call complete, so the page shows their codes.

### Reports and AnalysisPage

`Reports` has the saved runs (`list_runs` returns the newest `ListLimit`), the files, and
`report_artifact`; an export of a window is `StartExport`, `Render`, `Hash`, `Register`, and may be
`CutShort` between any two. `BackUp` / `RestoreRows` take the rows back and leave the files. `suspect` collects
the reports whose last export was interrupted or overlapped. `AnalysisPage` keeps of each table of the page
the run whose figures are in it, through runs that succeed, find no data, are invalid or raise, and through
lookups by id, button and double click. Met while modelling: an HTML report bears the time
it was made, so exporting is idempotent for CSV only, although `exporter.py:9` says it of both; the row of a
refreshed report table is remembered by its index; a double click on the wrong column looks up the text
of that cell.

## 3. What the runs show

| Run | Instance | Result |
|---|---|---|
| `sync` | 2 events, 2 envelopes, 1 crash, 1 expiry | 106 322 states: the safety invariants, the refinement of `EventDelivery`, and that readable envelopes arrive and acks are confirmed |
| `sync_redelivery` | 1 event, 1 envelope | *violated*: an event that failed once is redelivered for ever and never applied |
| `import` | 6 files, 2 SKUs, 2 events, 3 batches, 1 crash; wizard: 2 paths, 4 contents, 1 rewrite, 2 imports | 392 224 states: isolation of errors, true counts, staleness explained, batches end; what the wizard says of an import is true of it |
| `import_race` | same | *violated*: an insert of the SyncWorker comes between SELECT and INSERT |
| `import_failed` | same | *violated*: FAILED although a row was stored |
| `backup` | 1 fact, 3 backups, 1 upgrade, 1 damaged file, 1 crash; schedule: 4 days, 2 faults | 7.4 million states: verified files are readable, the current database is usable, nothing is lost but what is named, the snapshot of a start is a way back, each day gets one backup |
| `backup_judged` | 1 fact, 1 backup | *violated*: a backup that fails its read-back stays CREATED |
| `auth` | 2 workers and the UI, 4 pairs, 2 starts; guesses: limit 2, lock 2, 4 wrong passwords; 2 tabs, 2 logins | 608 825 states: replays are explained, the stored pair is current, revocation is final, expired tokens are renewed, guessing is slowed, abandoned sessions are explained |
| `auth_reuse` | the tokens of the same | *violated*: the tokens survive REFRESH_TOKEN_REUSED |
| `control` | 2 devices, 2 runs, 2 versions; stream: 3 events, buffer 2, queue 2 | 165 264 states: runs are held by their agent, handed out once (`HandoutSpec`) and taken; caches are verified; a stream keeps up |
| `replay` | 1 SKU, 2 warehouses, 1 lot, 2 days, ledgers of up to 3 events from a menu of 9 rows, 3 contract requests; up to 3 of 9 sheets, 5 questions; 2 windows; 3 runs on the page | 475 326 states: quantities reconcile with the events, the lot book covers the balance, averages and dates are witnessed, projection and engine agree; classes rank by amount, SKUs left out are named; registered hashes are those of the files; the page shows one run |
| `analysis_period` | 2 events, no snapshot | *violated*: the default period leaves out the last day's events |

The violated runs each check one statement that a comment or document of the repository makes and the
code does not keep; `PROJECT.json` quotes them under `findings`.

Disagreements met in the replay which no run is about: `SqliteDatasetAdapter` drops `reversal_of`, so a
local database with a REVERSAL cannot be analysed; it also drops the events before `start_date`, on which a
request later than the default one would rely for its opening. The engine undoes a stocktake by subtracting
the difference it made (formula-spec 2.6 asks for the stock without the count; the two differ once a second
count lies between), the projection does not undo it at all. Nothing forbids two reversals of one event: such an event counts below nothing in the sums, which is
why `DatesAreWitnessed` has a premise that says so.

**Bounds.** Two envelopes are enough for every ordering effect of the channel (an ack resent while
another envelope is handled, an ack stuck behind a purged one, a second envelope for the event of
the first after a purge); `Limit` equals `MaxEnvelopes`, so starvation at the head of the queue is
not explored. The six files contain each kind of row and each kind of repetition (within a file,
between files, between import and sync); three batches allow an abandoned, a failed and a completed
attempt at one file. The wizard's contents are two of one header, one that the database refuses and one that is no CSV;
one rewrite is enough, since what matters is which of the three readings it falls between. Three backups allow a
backup, a restore with its safety backup, and a restore of
either; or the snapshots of both calls of a start and a backup. A fact is only ever in a file or not, and each
conjunct is about one fact at a time, so one is enough. One upgrade may fail before or after its revision is committed.
Seven half days and two faults hold a faulty day between two good ones. Four pairs allow a login, two
rotations and a second login. A limit and a lock of 2 tell `>=` from `>`, and four wrong passwords reach past the
second lock. Two tabs are enough for one to clear what the other has stored. Two agents and two runs allow each to be after both, and a
pull of at most one run leaves the other waiting;
`MaxDevices` equals the number of devices, so that the licence bounds them is shown by proof only; three events overflow
a queue and a buffer of 2. Three replayed events are enough for
a chain (an event, its reversal, the reversal of that), for a backdated reversal with an event in between, and
for an outbound that needs two slices; two days give a history and a period, and the request of the first day
alone cuts reversals off from their base. `SnapshotDays = {2}` makes the default period reach past the last
event in `replay`; `analysis_period` takes the snapshot away. Three SKUs allow a tie and one beyond it; the sheets lack a
cost, a date, a lead time, a movement or a bucket one by one; weeks of 2 days in a period of up to 6 are cut and
whole. Every counter that would grow without
bound (`MaxBatches`, `MaxBackups`, `MaxPairs`, `MaxEdits`, `MaxRenders`, `MaxCrashes`, ...) is a constant that only guards
its own action. Deadlock checking is off where a
system may come to rest at its bounds; the two runs of the replay keep it on, since an analysis can always be
asked for.

**Fairness.**
*Sync:* the operating system schedules the thread, an HTTP call ends (the client has a timeout), the
workbench is opened again: weak fairness. Strong fairness of `Pull` and of an answered `Resend`: the
network is not down for ever. That the user does not stop the worker for ever is a premise
(`LeftOpen`). Nothing is assumed of producers, imports, clock or crashes.
*Import:* `run_import` is a synchronous call on the UI thread; once begun, it goes on. *Auth:* each
thread goes on and each request ends; for the workers, who poll again and again, a repeated 401
arrives some time and so does the answer to a repeated refresh. *Control:* an agent's thread runs on (waits end,
calls time out), and a control plane that is asked again and again answers a pull now and then (`SF` of `Pull`);
the generator of the stream wakes every `poll_interval`, and a reader notices that its stream was closed. Nothing is assumed of
users, operators or restarts. *Backup*, *replay*, the wizard, the tabs, the exports and the page: only safety is
claimed.

## 4. What is proved

The eight modules of proofs are complete to the last step; each assumes no more than the named `ASSUME` of the module it is about. The
theorems a reader should know of are listed in `PROJECT.json`. In all of them no invariant that a run
checks is inductive: each is joined by what the program points of the actors imply about the shared state, the
union is proved inductive with one lemma per action, and a theorem named `...Invariance` is the temporal
conclusion. A module of proofs goes with each MC module, so some hold several such arguments.

* `SyncPipeline_proofs`: the type invariant, `AckAfterStore`, `OutboxSound`, `ReceiptSound`, `OnlyCrashes`, and
  `Refinement`: `Spec` implements `EventDelivery`. `HandInv` says what each program point of the worker
  implies about the tables (at `markApplied` the event is stored; at `recordAck` it is applied and has no ack
  yet; at `markAcked` the cloud has taken the ack), `TableInv` what the tables imply about each other.
* `ImportPipeline_proofs`: `NoRowIsLost`, `CountsAreTrue`, `StalenessExplained`, `OneCommit`, `UnfinishedOwned`. The
  core is `Hand`: between any two transactions each row of the file in hand is a draft, stored or in error.
  `BatchInv` carries that over to batches that have ended, and `SoleInv` (a file in hand has no
  committed batch) gives one commit per file. Of the wizard, `WizardIsTruthful`: `ReadingInv` and `ReadInv` say that what a
  batch read is what is on disk, or the batch is marked as rewritten; `ResultInv` and `RefusedInv` that the result on
  a page is of a batch of the file chosen and the errors listed are its own.
* `StartUp_proofs`: every invariant of the run `backup` that is about files. The five properties are inductive
  only together, with: `NewInv` (the number of a backup is new, so a file is written once), `ReadInv` (a verdict holds in
  *every* copy of the record table, since any copy may be restored), `HandInv` (the facts a restore is about to replace are in the
  safety backup or came late), `TmpInv` (the copy that replaces the database is sound, of the same schema, and
  genuine unless marked `unvouched`), `SourceInv` (the file about to be copied is unaltered, has no
  record, or the restore is already marked), `SnapInv` and `GenuineInv` (snapshots of a start).
  Of the daily backup, `OneBackupADay`; `NotedInv` relates the state file to the backups made.
* `AuthSession_proofs`: `SequentialIsSafe`, `FileFollowsSession`, `RevocationStands`. `OwnInv` says whose the
  pairs are and in which order they were given; `ThreadInv` what a thread at each point of the refresh knows of the
  pair it holds (`RefreshInv`, `SaveInv`, `OverlapInv`); `FileInv` what the token file holds.
  Of logins and tabs, `LockSlowsGuessing` from `GuessInv` (the row agrees with the wrong passwords judged),
  `NoSessionLeftBehind` from `TabInv` (every tab's token agrees with what became of its session).
* `TaskControl_proofs`: `LicenseLimit`, `NoRunForgotten`, `CacheSound`, and `Refinement`: the task service and its agents
  implement `TaskHandout`. Of the stream, `StreamComplete`: as long as the queue of a live
  connection lost nothing, what the client knows and what is still to be replayed or queued make up the table of
  the devices (`KnownInv`).
* `Reports_proofs`: `HashTellsFile`. `JobInv` and `AloneInv` say that an export that is alone has its report
  to itself, `AgreeInv` that what it hashed is on disk; `FitInv` that a file is of the run it is named for.
  `PageShowsOneRun` is inductive once a page is known to be one (`IsPage`).
* `Amounts_proofs`: what the next one needs of sums over a finite set. The library's fold picks the elements one by one; that
  the result is a function of the set, that it can be split, compared and reordered, is an induction over subsets.
  The library's induction theorems take an operator for the predicate, which the provers cannot
  instantiate, so `SubsetInduction` has a set of subsets in its place and follows from the least element of a set
  of naturals.
* `StockMetrics_proofs`: of the replay, `ReplayTypeCorrect` and
  - `LotBookCovers`. `DrainTakes` shows that what `_drain` takes of all slices together, lot first and
    then by date or from the newest on, is what was asked for or all there is; `AddSliceHolds`, `ConsumeHolds` and
    `RemoveHolds` follow. `BookInv` relates the slices of every bucket to its balance under the premises of the property,
    which depend on the dataset only. An event that is no reversal is its own base with sign 1 (`OwnOrigin`), which is what
    makes the stronger half of the property hold;
  - `DatesWitnessed`. `DatesInv` ties the dates of a bucket to the events replayed: every slice has the day of one of the
    arrivals, the sums of all history are those of the arrivals with their signs, the last outbound is not before any
    outbound replayed. An age by all history is a mean of days weighted by what came less what was undone;
    it lies between the first day and the last one because no weight is negative, which is what the premise
    on the signs gives once the sums are rearranged by base event (`StandingWeights`);
  - `AverageWithinCosts`. `CostInv` says of the average, in products of numerator and denominator, that it
    respects *every* bound of the costs received so far, and of the cost of goods that it respects the bound times the
    quantity. With more costs the bounds become fewer (`AvgGrows`), and `MeanBounds` is the arithmetic of a weighted mean;
  - `QuantitiesAreReconciled`. `QtyInv` says at every step of the replay that the balance is `Reference` of the events
    taken, and the opening, once captured, that of the events before the period. `Reference` counts an event
    as often as its reversals let it stand, the replay by the sign at the end of its chain. `StandingIs` gives the recursive
    `Standing` its existence, by induction on how many of the last events it is asked of, and `StandingSums` shows that
    whatever flips its sign with each layer of reversal sums up to the same by base events as by events replayed;
  - `ProjectionIsReplay`. `RebuildIs` does the same for the recursion of `Rebuilt`; by induction on the number of events
    booked, the sum over the lots of each bucket is the same `Reference` of those events (`RebuiltAgrees`), and the closing
    balance is that of all of them. `LotsOf` must be finite for such a sum, hence `IsFiniteSet(Lots)` in
    `StockAssumption`: `lot` is a table.

  Of the calculators, `ClassesFollowAmounts` and `NothingLeftUnsaid` (`LeftOutIsNamed`): `FiguresInv` and `WarnedInv` keep what earlier
  calculators have concluded, and `WithinFills` is the arithmetic of an ABC class.

Every safety invariant of the runs is thus a theorem. Only model-checked are the liveness properties: fairness and
ENABLED are beyond the prover used.
`OneCommit`, `UnfinishedOwned` and `LicenseLimit` are proved and not repeated in the runs, nor are the type
invariants.

## 5. Not modelled

* *Delays and their growth.* The backoff of the SyncWorker never shrinks; the models have no delays.
* *The queries of requests.* The retry after a 401 loses its `params`; a pull without them is one of the ways a
  pull fails.
* *Restore together with sync.* A restore takes `sync_inbox` back and the cloud does not follow. It needs the tables of
  `StartUp` and `SyncPipeline` in one state, whose product is beyond the runs.
* *Several control-plane processes.* Races inside its use cases (two refreshes read before either writes) cannot
  happen in the documented deployment of one process; with several the models would not apply.
* *Several tenants*, the admin catalogue and the read-only routes, the texts of configurations and heartbeats.
* *The experimental forecast models*, which `analyze` never calls, rounding, and the layout of documents.
* *Single-instance lock.* One call of the operating system, which `main.py` does not use; that is why `Reports` has
  several windows.
* *Contracts, scripts, migrations' texts, the remaining widgets and pages*: declarations, release tooling and display.
* In the modelled parts: the warehouse of an event (the workbench seeds one and never adds another), missing
  databases and partial VACUUM files, encodings and the texts of cells.

What would come next, in this order: the composition of restore and sync over a reduced `StartUp` (facts and one
backup only); the limit of a pull below the number of envelopes; a second connection of the stream.
