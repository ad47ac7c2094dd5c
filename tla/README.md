# Crab-Dump in TLA+

Crab-Dump is one long-lived Rust process (or a one-shot run) that dumps
PostgreSQL databases, packages the dumps and uploads them to Telegram, with a
dashboard beside it. This directory holds TLA+ models of its own logic, the TLC
configurations that check them on small instances, and proofs of the most
important theorems for every size of instance. Paths below are relative to the
root of the repository, so `src/web.rs` is what `PROJECT.json` calls
`src/src/web.rs`.

Contents: 1 the system, 2 what has to be right, 3 the modules, 4 the runs,
5 fairness, 6 the proofs, 7 divergences from the texts, 8 what is left out,
9 the plan, 10 how to run it.

## 1. The system

| Component | State it keeps | Operations | Who else touches it |
|---|---|---|---|
| Backup controller (`src/web.rs`, `ManualBackupController`) | deque of requests, set of queued names, map of active names to cancellation tokens; one mutex, one condition variable | request, take_pending, claim_scheduled, can_cancel, cancel, finish, wait_for_wake | dashboard handlers, scheduler, workers |
| Scheduler (`src/main.rs`, `run_scheduled`) | local: next interval, copy of the registry, drained requests | run manual requests, wait, run a cycle | takes the route gate |
| Worker pool (`execute_database_indices`, `run_bounded`) | a shared cursor over the indices of a batch | take an index, run one pipeline, finish the claim | one scope per batch |
| Pipeline of one database (`run_database`, `backup_pipeline`) | child process, chunk files, manifest entry, destinations still active | dump, package, upload, record, clean up | cancellation token, `UPLOAD_LOCK`, watchdog thread |
| Telegram client (`src/telegram.rs`) | `UPLOAD_LOCK`, `ACTIVE_OPERATION` | send document, send message, download, test | pipelines, bot, health monitor, dashboard |
| Chunk writer (`src/chunk.rs`) | current file, lengths, hash | write, roll, finish | one pipeline |
| Restore controller and worker (`src/restore.rs`) | file of requests, map of tokens | queue, set mode, approve, cancel, finish, recover after a restart | dashboard handlers, one thread per approved restore |
| Database registry (`src/database_registry.rs`) | dashboard entries, published snapshot, file, audit log | add, update, delete, replace | dashboard, migration, scheduler reads the snapshot |
| State store (`src/database_state.rs`) | enabled flag per name, file | set, replace | dashboard, migration, scheduler reads |
| Status cards (`src/web.rs`, `DUMP_STATUSES`) | a card per name | register, set, fail, cancel, remove | everyone; also decides which names the API accepts |
| Route gate (`BACKUP_ROUTE_GATE`) | one flag | acquire by spinning, try, drop | batches, registry mutations, route changes, imports |
| Routing core manager and profile store (`src/routing.rs`) | managed proxy process, pending predecessor; profiles and the active one | apply, commit, rollback, stop; add, select, delete | dashboard, migration, health monitor |
| Health monitor (`src/health_monitor.rs`) | services, runtime per service, incidents, files | check, record, update, delete, snapshot, replace | checker thread, dashboard, migration |
| Migration (`src/migration.rs`) | all of the stores' files | export, import with roll-back | dashboard |
| History and its upload (`src/history.rs`, `src/main.rs`) | a file per month; copy and parts of the upload under way | append, remove old months, copy the month, summarise; split and send | pipelines, dashboard, a worker thread, migration |
| Telegram users (`src/telegram_users.rs`) | a list with a file | create, update, delete, replace | bot, dashboard, migration |
| Bot (`src/bot.rs`) | offset of the next poll, the batch under way | poll, handle commands and buttons, request backups | Telegram, users, registry, states, controller |
| Compression settings (`src/compression_config.rs`) | value and override flag behind two locks, file, one temporary name | update, replace, clear | dashboard, migration, pipelines |
| Share links and configurations (`src/routing.rs`) | none | parse a link, generate for either core | profile store |
| Cron (`src/cron.rs`) | none | parse, next time after | scheduler, history worker |
| Accounts, resource usage, configuration, frontend | next to none | read | dashboard |

What makes it hard:

* *Interleavings.* The scheduler, its workers, the dashboard's handlers, the
  health checker, the bot and restore threads share a dozen locks and atomics,
  and few operations hold one lock from their first look to their last write.
* *Cancellation* races every stage of a backup or a restore.
* *Failure of one step of several*: a store changes memory, then a file, then a
  snapshot; a pipeline dumps, packages, records, uploads.
* *Crashes* between two files that should agree.
* *Retries and lost answers* of an upload.
* *Time*: intervals, cron targets, sliced waits, watchdogs.

## 2. What has to be right

| Component | It is correct when |
|---|---|
| Backup controller, scheduler, workers | no database has two pipelines; a claim and its cancellation token live from before the pipeline to after it; every claim is released and every request leaves the queue; a cycle never starts a database that is queued |
| Route gate | one owner; under a batch neither the Telegram client nor the registry changes; it always comes back |
| Pipeline, dump, chunk writer, upload | a backup is offered for restoring only when Telegram has every part; history and manifest agree; only dumps that `pg_dump` ended well are sent; a part leaves the disk only when nobody needs it; every run ends and leaves neither child nor parts |
| Restore | one restore of a database waits or runs; a clean restore has an administrator's approval; what is over stays over; a workspace nobody works in is gone; a running request ends, a crash included |
| Health monitor | one check of a service at a time; alerts are of transitions; a restart knows what was told; enabled services keep being checked |
| Routing | no process or configuration file is forgotten; client and route agree; a failed switch changes nothing; a switch cuts nobody off; the active profile exists |
| Cron | the answer is the first moment the text names, and no answer means never |
| Registry, states, settings, users, profiles | what was acknowledged is what a start reads, after a failed write as well; the file is one a start accepts |
| Migration | an import that is answered "ok" is in place everywhere; one that failed has changed nothing |
| History | a summary has every record that could be read; an upload that succeeds is whole; a month goes only when it is old |
| Bot, Telegram client | no update is lost or handled twice; only administrators admit users; the lock and its label come back; everyone is served |
| Share links | a core that is listed for a link is configured for what the link asks for |

## 3. The modules

| Module | Stands for | Extends, instantiates |
|---|---|---|
| `BackupLifecycle` | what the scheduler promises of each database (abstract) | |
| `BackupController` | `ManualBackupController`: deque, set, map, one mutex | |
| `BackupScheduler` | scheduler thread, workers, dashboard handlers, gate, registry | `BackupController`; `BackupLifecycle` as `Lifecycle`, `RouteGate` as `Gate` |
| `RouteGate` | what the route gate promises batches and requests (abstract) | |
| `BackupArtifact` | what one run of a pipeline promises (abstract) | |
| `BackupPipeline` | `run_database` with child, watchdog, Telegram, manifest | `BackupArtifact` as `Artifact` |
| `RestoreLifecycle` | what a restore promises (abstract) | |
| `RestoreRequests` | restore controller, handlers, workers, restart | `RestoreLifecycle` as `Lifecycle` |
| `HealthMonitor` | checker, handlers, exports, files, restart | |
| `RouteManager` | processes, slots and files of `RouteManager` in `src/routing.rs` | |
| `RouteSwitch` | apply, disable, import, profile edits, shared client, gate | `RouteManager`; `RouteGate` as `Gate` |
| `PanelStores` | the stores the dashboard manages, in memory and on disk; edits, failing writes, crash and start | |
| `Migration` | export, import, roll-back | `PanelStores` |
| `TelegramOps` | `UPLOAD_LOCK`, `ACTIVE_OPERATION`, the attempts of an operation | |
| `TelegramBot` | the bot thread, Telegram's queue of updates, users | `TelegramOps` |
| `HistoryMonths` | `HistoryStore` and its readers | |
| `HistoryUpload` | the upload worker | `TelegramOps`, `HistoryMonths` |
| `TelegramClients` | bot, worker and any number of other callers over one lock | `TelegramBot`, `HistoryUpload` |
| `CronField` | the text of a field, and its mask | |
| `Cron` | `Cron::parse` and `Cron::next_after` | `CronField` |
| `RouteLink` | `parse_share_url`, `generate_config`, `generate_shoes_config` | |

A module `...MC` names symmetries or data for TLC; a module `...Proofs` holds
the theorems. Operators named `Faulty...` (and `HastySwapClient`) are seeded
faults: what the definition of that name would be with a plausible bug. No
specification uses them; `PROJECT.json` says which property each one breaks.

**One gate, two models.** `BackupScheduler` has batches in detail and of a change
of the route one step; `RouteSwitch` has the change in detail and of a batch its
two ends. What either leaves to the other is `RouteGate`: one holder at a time, and
only a request replaces the client. Both implement it, so that each may stand in
for the other.

**Grain.** A step is one critical section, one access of an atomic, or one call
that may block, of one thread; computations on locals ride with the step before.
So every window between two locks that the code opens is there in the model.

### BackupController, BackupScheduler

`pending`, `pendingSet` and `active` are the fields of `ManualBackupState`;
`active[d]` says whether the name is in the map and its token set. Actions have
the names of the methods (`Request`, `TakePending`, `ClaimScheduled`,
`CancelQueued` / `CancelActive` / `CancelNothing`, `Finish`). `pc` walks through
`run_scheduled`: `Snapshot` and `Drain` are `run_manual_requests`; `LieDown`,
`WakeForRequest`, `WakeForCycle`, `NextSlice` and `StartNow` the wait, with its
condition variable and, for cron, its slices of a minute; `AcquireGate` ...
`DropGate` a cycle or a manual batch. Workers walk `TakeIndex`, `StartPipeline`,
`EndPipeline`, `FinishIndex`. A handler receives a request (`Receive...`) and
walks through its checks in the code's order: `mutation_blocked` is two looks
(`CheckCycle`, `CheckQueued`), the gate is tried, the registry changed and
published (or the write fails: the list stays changed, the snapshot does not),
the cards updated, the gate dropped.

### BackupPipeline

`pc` walks through `run_database`; `child` and `timedOut` are `pg_dump` and its
watchdog, `files` the parts on disk, `received` what Telegram holds in each
chat, whether or not the answer arrived, `recorded` and `manifest` the entry in
the manifests, `active` and `completed` the lists of
`upload_chunks_to_destinations`. An answer can be lost before or after Telegram
took the part, or while its body is read. `Cancel` sets the token and `Crash`
ends the process between any two steps.

### RestoreRequests

`status`, `target` and `mode` are the file of requests; `registered` and `fired`
the map of tokens. `approve_restore` is three steps (`SetMode`, `Approve`,
`Launch`: the mode, the approval, the token and the thread) with other handlers
in between; the worker is `Lookup`, `Fetch`, `FetchedAll`, `LastCheck`,
`Unpack`, `Restored`, `Sweep`, `Finish`. `Restart`
is the recovery of `RestoreController::new` with the sweep of the workspaces.
`faulty` is chosen at the start and says whether the disk may fail in this
behaviour; `RunningSettles` is about those where it does not.

### HealthMonitor

A mutex is the set of places in the code where it is held: `RuntimeFree` says
that no thread is at one of them. `Begin`, `Record`, `Event`, `Alert`, `Save`,
`End` are `check` and `record_check`; `Export...` the three locks of `snapshot`.
`life`, `born`, `told` and `crashes` are history variables: which service has
the name, and what was last told of it, in which run of the process.

### RouteManager, RouteSwitch

`live` and `died` are processes that run, and that ended by themselves and are
not yet reaped; `active` and `pending` the slots; `file` the configuration of
each backend. `op` is the record of locals of the one request that holds the
gate; its `step` walks through the handler. `reading` is somebody who holds the
client's read lock without the gate (an upload of the history). `Boot` is the
start of the program, which applies the stored profile or exits.

### PanelStores, Migration

A store is its content in memory (`mem`) and its file; what a content says is a
member of `Contents`. A store that holds its lock from the check to the rename is
edited in one step; the update of the compression settings, which does not, is
four (`UpdateBegins`, `UpdateRenames`, `UpdateSettings`, `UpdateFlag`).
`FileFirst` are the stores that change nothing in memory before the file is
written; for these `acked` remembers what was last acknowledged. The registry and
the states change memory first, so a failed write (`Unwritten`) stays in memory.
`at` and `pos` walk through `validate_and_apply`: `Export` one store after the
other, `Copy`, `Stage` and `Install` file by file, `Unlist` and `Months` the
history, then the stores in the order of `activate`. `undo` says which of the two
roll-backs is under way, `broken` that it met an error itself. `torn` is set when
an import did not reach its end, `risky` are the stores that were edited while
one was at work. The health monitor gets its state last, and in two rounds:
`PersistHealth` writes the three files, `AssignHealth` replaces the three lists. No
edit of the services and no check runs beside an import here; that is why its
three stores are among `FileFirst`: their handlers and `replace_snapshot` write
first, while the checker, which changes what is known before its file and only
warns when that fails, is in `HealthMonitor`.

### TelegramOps, TelegramBot, HistoryMonths, HistoryUpload, TelegramClients

`holder` is `UPLOAD_LOCK` and `label` `ACTIVE_OPERATION`; an operation is `Call`
(or `TryTake` for the dashboard's check), `Take`, `Name`, `Attempt`, `Release`,
`Reset`, the last two the two lines of `OperationGuard::drop`. `arrived` and
`confirmed` are Telegram's queue of updates: an offset makes it forget what lies
below. The bot takes a batch (`Poll`), raises the offset and handles each update
(`TakeUpdate` ... `Replied`); its looks at users, registry and states are steps of
their own, with administrators' edits in between. A summary (`Ask`, `Read`) reads
month after month without the store's lock; `AppendRecord` and `AppendTears` are
the two ends of an append. The worker copies (`Fire`), splits and sends every part
to every destination; a month's file with nothing but a torn record is copied too
(`Garbled`). `Others` are the callers of whom only their operations matter: uploads
of pipelines, alerts and restores wait for the lock (`Call`), the dashboard's check
does not (`TryTake`). There may be any number of them. `handled`, `trusted`,
`stored` and `expected` are history variables.

### RouteLink

A link is a record of its parameters: `None` for one it does not have, "" for one
without a value, which a VMess link takes for none and a query does not. `type` is
what the link is to be carried over: the net of VMess, the type of VLESS and
Trojan, the plugin of Shadowsocks. `sound` says that addresses, ids and keys are
there and can be decoded. `Wanted` is what the link asks for, read from the link
alone and not from what the parsers keep of it; `CoresServe` compares what the
generators make with it. It names two exceptions, in which the code falls short
(section 7): `LosesTransport`, Trojan and Shadowsocks links that name a transport
other than tcp, and `LosesReality`, for the security with sing-box.

### CronField, Cron

An item of a field is a record (star, value, range, each with a step); characters
are left out. One round of the loop of `next_after` is one step: `SkipDay`,
`Hit` or `NextMinute`, with `GiveUp` at `MAX_SEARCH_STEPS`. The calendar is a
constant of the module, and `CronMC` gives it the Gregorian one from 2096 on.

## 4. The runs

| Run | Instance | What it shows |
|---|---|---|
| `sched_claims` | 2 databases, 2 workers, 1 handler that requests, cancels, toggles; interval; fair | `NoOverlap`: never two pipelines of one database; `PipelineHoldsClaim`: a cancellation reaches the pipeline it was meant for; `ImplementsLifecycle`; `EveryRequestServed`: no wake-up is lost and no claim leaks |
| `sched_edits` | a permanent and a managed database, 2 workers, 1 handler with every operation; cron | `ImplementsGate`: batches and requests exclude each other, and only a request replaces the client, so that a batch has one route; `RegistryStillDuringBatch`; `CyclesSpaced`: whatever wakes the wait, a cycle starts when its target has come |
| `pipe_run` | 3 parts, 3 destinations, 3 attempts, 1 notice; failed dumps kept; fair | `RestorableIsWhole`: what is offered is of a good dump and Telegram has all of it; `BooksAgree`; `NothingLeft`; `ImplementsArtifact`; `Terminates` |
| `restore_run` | 2 requests for 1 database, 2 handlers, 1 part, a disk that may fail, crashes; fair | `CleanNeedsAdmin`, `WorkspacesSwept`, `ImplementsRestore`: a database is touched once and after the approval, what is reported is how that went, and what is over stays over; `RunningSettles` |
| `health_names` | 2 names, 2 services that take them, 1 handler, exports | `MarksExact`, `TransitionsOnly`, through renaming, deleting and creating while checks are under way |
| `health_polls` | 1 service, thresholds 1 and 2, 1 handler, 1 crash, no exports; fair | `RestartRemembers`, `PolledAgain` |
| `route_switch` | 3 processes, 2 profiles, 2 cores, 1 choice of a core; apply and disable | `NoStrayCore`, `ClientFollowsRoute`, `RouteKept`, `ReadKeepsRoute` |
| `route_import` | 2 processes, 1 profile, with imports; fair | `ActiveExists`; `RouteObeyed`: nothing goes past an active route, and what fails leaves the old route or none; `GateReturns` |
| `import_files` | 2 imports of 3 contents (good, refused by the registry, refused by the history) and one `validate` refuses, 1 edit of any store, 1 failing write, 1 crash | `Installed`, `RolledBack`, `StartsAgain`, `AckedSurvives` |
| `telegram_run` | bot, worker, a pipeline and the check; 1 chat, 1 database, 2 updates of 4 kinds, 3 months, 2 records, 2 destinations, 2 attempts, 1 summary for each life, 1 crash; 3 jobs from outside in all; fair | `UpdatesKept`, `QuietIsIdle`, `UploadWhole`, `SummaryComplete`, `OnlyAdminsDecide`, `Served` |
| `functions` | 298 expressions of every form from 6 moments; 22 684 links | `AsWritten`: the answer is the first moment the text names, `NoneIsNever`; `CoresServe`: protocol, cipher, transport and security of what is listed are those of the link, but for its two exceptions |
| `health_export` | 1 service, 1 handler, exports; fair | `PolledAgain` does not hold (section 7) |

**Bounds.** Two databases are the least with which one waits while another runs;
two workers the least that could run one database twice; a permanent and a
managed database differ in what may be edited. One handler beside the scheduler
suffices for the windows between its checks, as a request it left in the
queue is drained during its next operation; the theorems have any number of
handlers. With three parts and three destinations one destination fails before,
one at, and one after a part that another one gets; three attempts have a first,
a middle and a last one. Two requests, two handlers: one approval interleaved
with a change of mode, and two workers in the workspace of one database. Health:
two names are the least for a rename, two services for a name that is passed on;
failures saturate at the largest threshold. Three processes are an active one,
its predecessor and a new one.

Imports: the second one meets what the first has left, or what is there after the
crash; one fault and one edit hit every step of either, and a refused content
takes the place of a fault where the fault is spent on the roll-back. Telegram:
two updates make a batch of two or two batches; `MaxJobs` bounds what comes from
outside together, so that every pair and triple of updates, edits, records,
months, firings and checks occurs, interleaved with all steps of the threads;
three months with a retention of two let a month go while a summary reads. One
chat suffices, since a second one is a stranger to it; the theorems have any
number of everything, callers of the lock included. The calendar reaches across 2100, which is no leap year, so
that 29 February is eight years away; it is longer (9000 days) than
`MAX_SEARCH_STEPS`, so that 30 February exhausts the budget. The links are every
combination of scheme, transport and security, each parameter given, empty or
absent, accepted or not.

Symmetry is used where no liveness property is checked: services, handlers,
processes and profiles are interchangeable. `CHECK_DEADLOCK FALSE` is set where
the system stops: a pipeline is over, a search has its answer, the imports and
edits of the bound are made, and exports can lock the health monitor up (that is
finding `health_export`).

## 5. Fairness

* *Scheduler, workers, handlers, restore workers, pipeline: weak.* They are
  threads; one that can go on does. A pipeline inside `BackupScheduler` is taken
  to end, which `Terminates` shows of `BackupPipeline`. Nothing makes a request,
  a cancellation or a crash happen, and no fairness makes time pass (`Elapse`)
  in the scheduler: requests are served without it.
* *The scheduler's spin on the gate* is only weakly fair: handlers that take the
  gate in turn could starve it. So `EveryRequestServed` assumes that they stop
  some time, `<>[]GateLeftAlone`.
* *Pipeline.* The HTTP client has a timeout of 300 seconds for every request
  (`src/main.rs:2120`), so an answer or an error comes. `pg_dump` is not fair:
  it may hang, and a read of its output with it; the watchdog is. The end of
  what a dead writer left in a pipe is reached: `ReadEof` is strongly fair.
* *Health.* `Poll` and `Serve` are strongly fair: a mutex that is released again
  and again is had in the end. Time goes by, and a process that died is started.
* *Routing.* Swaps are strongly fair, since the lock holds new readers back
  while a writer waits, which the model leaves out.
* *Restores.* `pg_restore` is assumed to end; the code gives it no timeout.
* *Telegram.* Bot, worker and the callers inside an operation go on; a process
  that died is started; a poll is answered sooner or later (`BotPoll`), since the
  bot asks for ever. A caller that waits for `UPLOAD_LOCK` gets it (`Lock`, weak):
  nobody keeps the lock, and every attempt ends by the timeout of the HTTP client.
  `MaxJobs` bounds how often the others get ahead of bot and worker; Rust's mutex
  promises no order, and an endless stream of operations is not modelled.

## 6. The proofs

Each theorem holds for every value of the constants that satisfies the named
`ASSUME`s of its module: finite or not, any number of databases, handlers,
parts, processes, stores' contents, updates, months. Each proof is the same
argument: an inductive invariant, a lemma per conjunct that each action keeps it, and the property from
it, or for an action property from it and one step.

| Module | Theorems | The strengthening, and why |
|---|---|---|
| `BackupSchedulerProofs` | `TypeCorrect`, `QueueCorrect`, `GateCorrect`, `NeverTwice`, `CancelReaches`, `ClaimsReturned`, `RouteStable`, `RegistryStable`, `CyclesOnTarget` (cron), `NoWakeupLost`, `GateImplemented`, `Implementation` | `SchedulerInv`: indices and workers exist only at certain places of the scheduler, and those of a manual batch are in `batch`, so that `ReleaseClaim` finishes nobody else's claim. `HandlerInv`: what the locals of a handler are at each place. `TargetCome`: what the places after the wait know of its target. `SleeperIsTold` is inductive with the types. `OneMoves`: no step moves scheduler and handler at once, so that a step of `RouteGate` is one enter or leave |
| `BackupPipelineProofs` | `TypeCorrect`, `RestorableCorrect`, `BooksCorrect`, `GoodDumpsOnly`, `LeavesNothing`, `PartsKept`, `LoopsEnd`, `Implementation` | `DumpInv`: past the reaping the dump is good, and the parts on disk are those from the current one on. `BookInv`: an active destination has every part before the current, by manifest and by Telegram. `EndInv`: manifest and outcome at each place. `Ahead` is lexicographic: phase, notices left, part, place within the part, destination, place within it, attempt |
| `RestoreRequestsProofs` | `TypeCorrect`, `OneActiveCorrect`, `CleanCorrect`, `WorkspacesCorrect`, `HandledCorrect`, `SettledCorrect`, `Implementation`, `ClashOnlyIfCancelled` | `ApprovalInv`: a worker exists only for an approved request, and one handler at most is about to start it. `ReportInv`: a request that was reported has neither a worker nor a handler about to start one, and nobody is at work between a crash and the start |
| `HealthMonitorProofs` | `TypeCorrect`, `MarksCorrect`, `RestartCorrect`, `TransitionsCorrect`; without exports `LocksComeFree` | `LocksInv`: one thread is in `record_check`. `AlertInv`: what is known and the last alert differ exactly while a thread is about to tell. `SavedInv`: the file agrees when nobody is about to write it. `HistoryInv` bounds the history variables. `NoneExports`: nobody is at the two places that only an export reaches |
| `RouteSwitchProofs` | `TypeCorrect`, `NoneStrays`, `ActiveRuns`, `FilesSwept`, `ActiveKnown`, `BackupsUndisturbed`, `NothingGoesPast`, `RequestsEnd`, `GateImplemented`; without imports `ClientFollows`, `FailuresKeepRoute`, `ReadsUndisturbed` | `GateInv`, `SlotsInv`: which process may be where at each step; `FileInv`, `ReadInv`; `StageInv`: what each step of apply and disable has changed so far. With imports the last three are false (section 7); what an import keeps as well is `ObeyInv`: at each step, which process is active and what the client goes through. `KindInv`: which request is at which step |
| `MigrationProofs` | `TypeCorrect`, `StartsAgainCorrect`, `InstalledCorrect`, `RolledBackCorrect`, `AckedCorrect` | `TypeInv`: with the types, where in its order each phase may be and what the roll-back knows. `RegistryInv`: the registry in memory is always one a start takes, and so is what was exported of it. `StoresInv`: what each phase leaves behind, in `.migration-stage` (`Staged`), on the disk and in memory, of what the snapshot says; memory stays what was exported until activation, which is why a roll-back of the files alone is enough; and the acknowledged content is in memory and on disk, or in the export. All but for stores that were edited meanwhile |
| `TelegramClientsProofs` | `TypeCorrect`, `QuietCorrect`, `UpdatesCorrect`, `UsersCorrect`, `TrustCorrect`, `SummaryCorrect`, `RetentionCorrect`, `UploadCorrect`, `PartsCorrect` | `LockInv`: the lock is with the caller inside, a label is somebody's who has still to reset it; an invariant for each of bot, months and worker over its own variables: the offset lies within the batch and everything below it was handled; a month a summary counts on is there with all its records, or too old for a record to come; every active destination has all parts before the current one |
| `FunctionsProofs` | `TypeCorrect`, `FirstFound`, `SearchIsWide`, `ReadAsWritten` (of an expression without a step of one behind a value), `NoneMeansNever` (in a calendar that recurs), `LinksServed` | `Scanned`: nothing that was passed fires. `Counted`: a round for every minute of the first and the last day and one for every day between. `CanFire`: every mask has a member, so a day that matches ends the search. `FromText`: the expression that is searched is what the parser made of a legal text. For `NoneMeansNever`: what fires beyond the reach has an earlier day of the same date, or of the same weekday and month, within it; the first such day is the least of a set (`LeastNumber`). `FromLink`: profile and configurations are those of the link |

`SearchIsWide` in figures: whatever fires within `MAX_SEARCH_STEPS - 2880` = 5120
days is found; eight years, the longest wait for a 29 February, are 2922.

Some theorems state properties no run lists. Either a property of a run says as
much: `OneRoutePerBackup`, `GateExclusive` (`ImplementsGate`), `SettledStays`
(`ImplementsRestore`), `FirstMatch` (`AsWritten`), `QueueConsistent`
(`ImplementsLifecycle`). Or one rests on the same behaviour: `NoLeakedClaim`,
`SleeperIsTold` (`EveryRequestServed`), `OnlyGoodDumps`, `KeptUntilSent`
(`RestorableIsWhole`, `BooksAgree`), `AlwaysAhead` (`Terminates`), `OneActive`,
`RunningIsHandled` (`RunningSettles`), `NoLockCycle` (`PolledAgain`),
`RequestsAdvance` (`GateReturns`), `ActiveNotStopped`, `NoStrayConfig`
(`NoStrayCore`), `BackupKeepsRoute` and the `ImplementsGate` of `RouteSwitch` (the
routing's view of the gate), `RequestsTrusted`, `RetainedLongEnough`, `PartsKept`
(`UploadWhole`), `SearchReaches` (`NoneIsNever`), that two restores meet in a
database only after a cancellation (`ImplementsRestore`; section 7,
`OneRestoreAtATime`), and the type invariants. Those with a name can be added
to the configuration of that run, and TLC agrees (`RunningIsHandled` where the
disk works).

Hypotheses of theorems, beside the `ASSUME`s: `NothingByOne` and `CalendarRecurs`
are about the constants, and `CronMC` lets TLC evaluate both for the expressions
and the Gregorian calendar of the run; `Mode = "cron"` for `CyclesOnTarget`, since
for intervals it is false (section 7); `Retention >= 2` for `SummaryCorrect`,
since the configuration permits 1 (`src/config.rs:735`) and there it is false
(section 7); no exports for `LocksComeFree`, since with
them the run `health_export` has the deadlock; no `"import"` in `Ops` where the
table says so.

Model-checked only: all liveness (`EveryRequestServed`, `Terminates`,
`RunningSettles`, `PolledAgain`, `GateReturns`, `Served`), whose proofs need
`ENABLED`. What a behaviour would have to do to violate them is narrowed by
theorems about their safety halves:

| Liveness | What is proved of it |
|---|---|
| `EveryRequestServed` | `NoWakeupLost`, `ClaimsReturned`: a request that waits has woken the scheduler, and a claim has somebody to finish it |
| `Terminates` | `LoopsEnd`: no loop after the dump goes round for ever |
| `RunningSettles` | `HandledCorrect`: a running request has somebody to finish it when the disk works |
| `PolledAgain` | `LocksComeFree`: without exports a thread with a lock can go on |
| `GateReturns` | `RequestsEnd`, `GateImplemented`: every step of a request is nearer to its answer, and who is inside leaves |
| `Served` | `QuietCorrect`: nobody keeps the lock or its label |

Induction over the natural numbers, which `NoneMeansNever` needs, is done through
sets: a set of numbers that is not empty has a least member, since `<` is well
founded. No definition that is proved about is recursive.

## 7. Divergences from the texts

One is a run of this project, `health_export`: `snapshot` builds a tuple of three
lock guards, which live to the end of the expression: it holds the incidents while
it waits for what is known (`src/health_monitor.rs:214`); `record_check` holds what
is known while `event` waits for the incidents (`:602`, `:679`). Both stop for
ever, and with them the checker and the pages.

More were met while modelling. Each is stated as a property of its module, none
of which holds, and can be seen by putting the property alone into a copy of the
configuration named, with `Spec` and without `SYMMETRY`. They are no runs.

| Property | Configuration | What happens | What the text says |
|---|---|---|---|
| `CyclesSpaced` | `sched_claims` | a manual request consumes the rest of the interval: the next cycle starts at once (`src/main.rs:559`) | "cycles one interval apart" (`src/main.rs:504`) |
| `DrainedRequestsRun` | `sched_edits` | the registry is copied before the queue is drained: a request for a database created in between is dropped (`src/main.rs:631`) | requests are "executed" (`docs/ADR-0003...md:32`) |
| `NoChangeWhileQueued` | `sched_edits`, 2 handlers | a request comes between `mutation_blocked` and the change (`src/web.rs:2146`) | "unavailable while this backup is queued or running" (`src/web.rs:2025`) |
| `OnlyConfiguredKnown` | `sched_edits`, 2 handlers | enabling writes the card of a database deleted meanwhile (`src/web.rs:1430`) | "Only configured database names" (`docs/ADR-0002...md:49`) |
| `DeletedWhenAccepted` | `pipe_run` | a part that no destination accepted is removed (`src/main.rs:1016`) | "after Telegram accepts it" (`README.md:84`) |
| `BytesDoneCounts` | `pipe_run` | the size of a part is read after its file is gone (`src/main.rs:1643`) | "Bytes uploaded to Telegram so far" (`src/web.rs:156`) |
| `TransportErrorsRetried` | `pipe_run` | an error while the body is read is not retried (`src/telegram.rs:349`) | "up to five total attempts" (`README.md:602`) |
| `CancelledIsNoFailure` | `pipe_run` | a cancellation seen by the last send counts as a destination's error (`src/main.rs:999`) | `"status": "cancelled"` (`src/web.rs:1327`) |
| `OneRestoreAtATime` | `restore_run` | a running request that is cancelled is Cancelled at once and its database free, while nothing interrupts its `pg_restore`: a second request restores beside it (`src/restore.rs:351`). The dashboard offers Cancel for queued requests only, the API takes it for running ones | "a restore is already queued or running for this database" (`src/restore.rs:353`) |
| `CancelledIsStopped` | `restore_run` | a cancellation between approval and start takes the token; the worker restores (`src/web.rs:1714`) | "Restore request cancelled." (`dashboard/restores.html:537`) |
| `OneNotification` | `health_polls` | a crash after the alert, before the file: alerted again (`src/health_monitor.rs:679`) | "one notification is sent" (`README.md:561`) |
| `OutageIsTold` | `health_names`, `MaxLives = 3` | what was known under a name passes to another service (`src/health_monitor.rs:428`) | the same |
| `ReplacementKept` | `route_import` | a failed import rolls back a switch that took nothing over (`src/web.rs:2691`) | "a failed replacement retains the previous working route" (`README.md:541`) |
| `SelectedRuns` | `route_switch` | a core is chosen while a route is applied (`src/web.rs:2918`) | "Disable routing before changing the selected core." (`src/web.rs:2914`) |
| `RolledBackSettings` | `import_files` | a failed import with an override leaves its compression file in `.migration-stage`, and the roll-back of settings without one installs it (`src/migration.rs:194`) | "rejected or rolled back" (`src/web.rs:2725`) |
| `StoredIsRead` | `telegram_run` | a record cut short has no newline, and the next one becomes a part of its line (`src/history.rs:129`) | "one truncated record cannot hide the rest of the dashboard history" (`src/history.rs:197`) |
| `SummaryComplete` | `telegram_run`, `Retention = 1`, `MaxJobs = 5`, `MaxUpdates = 0`, `NumDests = 0`, only bot and worker | a late record of a month that was just removed brings its file back, while a summary has the month on its list: it reads the new file for the old one (`src/history.rs:239`) | "HISTORY_RETENTION_MONTHS must be at least 1" (`src/config.rs:736`) |
| `SingKnowsReality` | `functions` | a profile with REALITY is listed for sing-box, whose configuration has none of its keys (`src/routing.rs:1121`) | the list of compatible cores |
| `RealityComplete` | `functions` | a link with `pbk=` or `sni=` without a value is taken, and its configuration for shoes has an empty key or name (`src/routing.rs:1243`) | "Reality profile is missing its public key" (`src/routing.rs:1246`) |
| `TransportKept` | `functions` | no parser reads the type of a Trojan link or the plugin of a Shadowsocks link: both cores take the profile and are configured for tcp (`src/routing.rs:1036`, `:1113`) | "can manage VMess, VLESS, Shadowsocks SIP002, and Trojan share URLs" (`README.md:535`) |
| `AsWritten` | `functions`, with `By(One(5), 1)` as a minute in `CronMC` | a step of one is taken for no step (`src/cron.rs:241`) | "from here to the end of the range" (`src/cron.rs:238`) |

Met in the same code, and excused by name in the properties:

* *Imports.* Whether a crash between the installing of the files and the end of the
  activation leaves a registry that the next start refuses, a mixture of old and
  new files, or a memory that a restart would not read, is not decided by the
  code: the copy it makes before is never read (`torn` excuses it in
  `StartsAgain` and `AckedSurvives`). The roll-back drops its own errors
  (`broken`). An edit made while an import runs can end up on one side only
  (`risky`); one whose file could not be written stays in memory and is written
  with the next. Two updates of the compression settings share one temporary name.
  `replace_history` removes the months before it looks at the new records.
* *History.* A summary fails when a month goes while it reads. The worker fires by
  local time and copies the month of universal time, so that the last records of
  a month can fall between two copies.
* *Telegram.* A guard that resets its label late overwrites the label of the next
  holder: the dashboard shows idle while an operation runs. The bot writes the card
  "queued" after the request, possibly over "running" or "done". An update that
  cannot be parsed fails the poll again and again. After a crash the updates of the
  batch come again, and the requests they queued are gone. The worker reads the
  client for the whole of a send, so a change of the route waits for it; after a
  crash its copy and parts stay.

## 8. What is left out, and why

* *Scheduler*: spurious wake-ups of the condition variable (the loop looks
  again), the one-shot mode, the roll-back of an import, crashes. At least one
  database is permanent, as the configuration requires.
* *Pipeline*: bytes, hashes, codecs, texts of messages, status records; panics
  inside `run_database`, which leave parts unswept, as a crash does: no restart
  removes them; removing a file succeeds; a failing `cancel` of the child.
* *Restore*: bytes and keys; a `pg_restore` that outlives the process (it runs
  in the container of the program, which ends with it); workspaces that cannot
  be removed at a restart.
* *Health*: checks while an import replaces the state, failed writes (they warn),
  acknowledging, the limit of 500 incidents, the wake flag, panics, recipients.
* *Routing*: temporary processes of connectivity checks, lists and status pages,
  a store that fails after its rename, transients of an import's roll-back, a
  client that disconnects while its request is handled, ports taken by other
  programs. Whether a profile's link works is nondeterministic.
* *Cron*: characters, names of months and days, seconds, and the jumps of local
  time, which the head of `src/cron.rs` accepts.
* *Stores and imports*: what an edit checks about one entry (that is in
  `BackupScheduler`, `RouteSwitch` and `TelegramBot`), the registry's audit log,
  permissions and directories, reads that fail, edits of the services while an
  import runs. An import beside batches and routes is in `BackupScheduler` and
  `RouteSwitch`.
* *Telegram*: texts, delays, the bot's status and its list of commands, stopping
  the bot, an update without text or sender, what alerts, restores and pipelines do
  besides their operations (they are `Others`), the cancellation of a send (that
  is in `BackupPipeline`).
* *History*: the fields of a record and the statistics, pages, records of more
  than one database.
* *Links*: characters, base64 and percent decoding, addresses, ids, passwords, and
  what a core does with a configuration.
* *Not modelled*: compression and encryption (stream adapters around libraries),
  accounts and sessions, resource usage, configuration (parsed once, at start),
  frontend (`PROJECT.json` has a reason for each).

## 9. The plan

Order of work, most important first. Done: 1 scheduler with controller, gate and
handlers over `BackupLifecycle`; 2 pipeline over `BackupArtifact`; 3 restores;
4 health monitor; 5 routing; 6 cron; 7 stores with files; 8 migration over them;
9 history and its worker, 10 Telegram client and bot, composed; 11 share links;
all with their theorems; the gate and the restores over their abstractions
`RouteGate` and `RestoreLifecycle`. Left:

12. *One-shot mode*, panics inside a worker, and crashes of the scheduler.
13. *Chunk writer* as a pure algorithm against a reference of what the parts
    concatenate to; *login attempts* of the dashboard.
14. Checks of the health monitor while an import replaces its state.

## 10. How to run it

`tlc -config <run>.cfg <module>` checks a run (the module of each is in
`PROJECT.json`), `tlapm <module>Proofs.tla` a module's proofs. The largest run,
`import_files`, takes two to three minutes.
