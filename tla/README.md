# BackupX: specifications, model checks and proofs

BackupX is a backup server: a Master process (Go, `server/`) with an HTTP API, a
SQLite database and a scheduler runs backups itself or hands them to Agents on
other hosts, which poll the Master over HTTP. This directory holds TLA+ modules
that model the parts of that program whose correctness depends on the order of
events, TLC configurations that check them on small instances, and proofs that
TLAPS checks for instances of every size.

Every definition is translated from the Go source; `PROJECT.json` maps each one to
the lines it stands for. Paths below are relative to `server/internal/`.

## 1. Inventory

| Component | State it keeps | Operations | Interacts with | What is hard |
|---|---|---|---|---|
| Agent command queue (`service/agent_service.go`, `repository/agent_command_repository.go`) | `agent_commands` rows: pending, dispatched, succeeded, failed, timeout | enqueue, claim, complete, time out, converge the linked record | Agents over HTTP, backup and restore records, nodes' heartbeats | reads and whole-row saves in different goroutines, lost replies, repeated reports, leases |
| Agent process (`agent/agent.go`, `agent/executor.go`) | the one command it executes | heartbeat, poll, execute, log, report, submit the result (three attempts that share five seconds) | the Master | crash, restart, requests that time out while the Master still works |
| Artifacts of remote runs (`service/agent_service.go`, `agent/executor.go`) | objects, copies named by a record | fetch the task, upload or relay, report | task and target rows, storage | a task edited while its Agent works, a cut transfer, the date in a name |
| Questions to remote nodes (`service/node_service.go`, `service/database_discovery_service.go`) | commands without a record | list a directory, discover databases, delete an object | the command queue | answers that come too late |
| Backup execution on the Master (`service/backup_execution_service.go`) | `backup_records`, task summary, per-task start lock, repository locks | startTask, executeTask, executeRepositoryTask, finalizeRecord, DeleteRecord | scheduler, storage, retention, replication, dependents, notifications | hooks that run before the record is final, shutdown, a record deleted while it is used |
| Differential chains (`service/backup_execution_service.go`, `service/restore_service.go`) | `BaseRecordID` of a record | resolve a base, restore base and increment | retention, DeleteRecord | a base removed while a differential of it is being made |
| Retention (`backup/retention/service.go`) | none of its own | cleanup by days, count, generations | records, storage targets, locks | several targets, protected bases, a selection that sees only what earlier ones left |
| File archives (`backup/file_runner.go`, `backup/manifest.go`) | archive, manifest, list of deletions | walk, archive, restore | the file system | a source that is written to while it is walked |
| CDC repository (`backup/repository.go`, `backup/repository_chunker.go`) | packs, index segments and snapshots in an object store | Upload, Restore, Verify, ExportTar, Prune | storage provider, `repositoryLocks` | a crash between two writes; prune against upload and against readers |
| Replication, restore, verification (`service/replication_service.go`, `service/restore_service.go`, `service/verification_service.go`) | a row per job | start, execute, report, close | slots, the Supervisor, Agents, storage | backups deleted meanwhile; a shutdown at any point |
| Lifecycle (`lifecycle/supervisor.go`, `app/app.go`) | the set of running background jobs | Go, Shutdown, Close | every service | a job accepted while the shutdown has begun |
| Scheduler and tasks (`scheduler/service.go`, `service/backup_task_service.go`, `service/task_export_service.go`, `service/task_template_service.go`) | `backup_tasks` rows, cron entries, the graph of dependencies | Create, Update, Toggle, Delete, batches, Import, Apply; SyncTask, Reload; TriggerDependents | runs, which write the task row back | a row and its entry are changed one after the other |
| Nodes and installation (`service/node_service.go`, `service/install_token_service.go`) | `nodes` and `agent_install_tokens` rows | Heartbeat, RotateToken, Update, Delete, monitor; create, consume, collect | Agents, installers | whole-row saves of a row read earlier; two downloads of one token |
| Storage targets (`service/storage_target_service.go`) | `storage_targets`, OAuth sessions, what the monitor has announced | create, edit, test, delete, authorise; health monitor | the storage outside | the monitor and requests save over each other |
| Accounts (`service/auth_service.go`, `service/auth_*.go`, `service/user_service.go`) | `users` rows with their factors | sign in, enrol and drop factors, codes, passkeys, devices | | one row, saved whole by every request |
| Notifications and monitors (`service/notification_service.go`, `service/dashboard_service.go`, `service/cluster_version.go`) | what was announced, in memory | decide, announce, scan | records, nodes, targets | a decision on records that others change |
| Log hub (`backup/log_hub.go`) | events and subscribers per record | Append, Complete, Subscribe | SSE handlers, executions | sends under a lock, buffers that fill up |
| SAP HANA backint (`backint/`) | catalog, objects, output files | backup, restore, inquire, delete | HANA, storage | processes that die, a batch that fails in part |
| SQL Server (`backup/sqlserver_runner.go`) | one transfer | backup, restore | VDI helper process, a SQL connection | two parties, either of which may hang |
| Database start-up (`database/database.go`) | all tables | reconcileInterruptedOperations | every running record | telling orphaned work from work an Agent still does |
| Storage providers, other runners, HTTP layer, audit, dashboards, web console, native VDI helper | files, remote objects, UI state | I/O | | sequential I/O or other languages |

`PROJECT.json` lists the components with the modules that model them
("components") and what can go wrong, line by line ("hazards"). What makes each of
them correct is stated by the properties of section 4.

## 2. Modules

| Module | Role | Extended or instantiated by |
|---|---|---|
| `AgentCommands` | command queue, linked records, Agents, timeout monitor | `MCAgentCommands`, `AgentCommandsProofs` |
| `JobQueue` | what the queue promises, without requests, faults or time | `AgentCommands` (`Queue`) |
| `BackupRuns` | the runs of one file task on the Master, retention, deletion, locks | `MCBackupRuns`, `BackupRunsProofs` |
| `BackupCatalog` | what the runs promise of the backups | `BackupRuns` (`Catalog`) |
| `ChunkRepository` | uploads, removals, prunes and readers of the CDC repository | `MCChunkRepository`, `ChunkRepositoryProofs` |
| `SnapshotSets` | what the repository promises of its snapshots | `ChunkRepository` (`Snapshots`) |
| `BackgroundJobs` | restores, verifications, replications, the Supervisor and the shutdown | `MCBackgroundJobs`, `BackgroundJobsProofs` |
| `TaskCatalog` | task rows, cron entries, dependencies, imports | `MCTaskCatalog`, `TaskCatalogProofs` |
| `Requests` | HTTP requests that read, decide and write later | the next three |
| `NodeRegistry` | nodes, tokens, installation | `MCServices`, `ServicesProofs` |
| `StorageTargets` | targets, their monitor, the Drive authorisation | `MCServices` |
| `Accounts` | users and their factors | `MCServices`, `ServicesProofs` |
| `Chunker`, `GFSRetention`, `FileArchives` | three algorithms with what meets them | `MCServices` |
| `LogHub` | streams, viewers and the mutex of the log hub | `MCPeers`, `PeersProofs` |
| `Backint` | SAP HANA's calls | `MCPeers`, `BackintProofs` |
| `VdiTransfer` | SQL Server and its helper | `MCPeers`, `PeersProofs` |
| `AgentUploads` | the artifact of a remote run | `MCPeers`, `PeersProofs` |
| `RemoteCalls` | questions to a remote node | `MCPeers`, `PeersProofs` |
| `Alerts` | notifications and monitors | `MCPeers`, `PeersProofs` |
| `MC...` | instances for TLC | the `.cfg` files |
| `...Proofs` | theorems and their proofs | |

An operator whose comment begins with *Mutant* is not part of a specification: it is a
plausible bug of the definition that follows it, and shows that the property named with
it in `PROJECT.json` ("mutants") notices that bug.

`MCServices` and `MCPeers` hold several parts that share no state. A behaviour of
them is a behaviour of one part, chosen in its initial state, while the others rest: the
states of the parts add up instead of multiplying.

Three conventions hold throughout. A handler or goroutine takes one step for each
access to the database, the storage or another process, because others get in between;
what it holds in local variables is a record of the module's state. Repositories save
whole rows (`db.Save`), which is modelled as such: a save undoes what was stored since
the read and brings a deleted row back. Faults are named, chosen per run and counted.

### 2.1 AgentCommands

One element of `Cmds` is one run of a remote task: the `BackupRecord` and the
`AgentCommand` that `startTask` creates (`StartRun`, `Route`, `Abort`).

| Variables | Code |
|---|---|
| `cmd`, `cmdFresh` | `AgentCommand.Status`; whether the time the monitor compares is younger than ten minutes |
| `rec`, `recFresh` | the linked `BackupRecord.Status`; the same for its `UpdatedAt` |
| `online` | `Node.Status` |
| `handler` | the request each goroutine of the HTTP server works on, and how far it is |
| `agent`, `wait` | the local state of each Agent process; the request it awaits |
| `mon` | the loop of `processStaleCommands` with the rows it listed |
| `outcome` | what the execution really came to (a history variable: no code reads it) |

A handler takes one step for each access to the database, because other goroutines get
in between: `ClaimPending` reads the oldest pending row (`PollSelect`) and updates it on
condition that it is still pending (`PollClaim`); `UpdateRecord` and `failLinkedRecord`
read a row and save it whole later (`UpdateRead`/`UpdateSave`, `ConvergeRead`/`ConvergeSave`);
`SubmitCommandResult` finds, completes and converges (`ResultFind`, `ResultComplete`,
`ConvergeRead`). The monitor lists (`MonScan`), decides on the listed status (`MonCheck`),
times out on condition (`MonTimeout`) and converges the record (`MonRead`, `MonSave`).

Faults are named, chosen per run (`FaultKinds`) and counted (`MaxFaults`): a database
error of any access, a request that is lost or that the client gives up while the Master
works on it (its context is then cancelled, except in the convergence, which runs in a
`finalizationContext`), the end of the five seconds that all attempts to deliver one
result share (`agentFinalizationContext`; the loop of `submitCommandResult` ends with
them, `Deadline`), an Agent crash and its restart, a node that cannot be heard, a Master
restart with `reconcileInterruptedOperations`.

Abstractions. Time is only what the code tests of it. Being online stands for "heard of
less than ten minutes ago" as well: the offline monitor acts after 45 seconds, the lease
looks back ten minutes. A row does not age while a handler works on it (`Quiet`): a
request takes seconds. `Partition` is separate from `MarkOffline` so that fairness does
not force faults. Log texts, artifacts and checksums are left out: an execution has an
outcome. Commands without a linked record or lease are in `RemoteCalls`, `restore_record`
commands with their row in `BackgroundJobs`, the artifacts in `AgentUploads`.

### 2.2 BackupRuns

One file task of the Master, full or differential, started through `RunTaskByID` (the
synchronous form is used by tests only).

| Variables | Code |
|---|---|
| `row` | `backup_records`: status, kind, base, target and copies, locked, completion order |
| `stored` | objects in the storage targets |
| `aged` | records completed before the `RetentionDays` cutoff |
| `replicas` | records a replication was started for |
| `lock`, `caller` | the per-task start lock and the calls of `startTask` |
| `exec`, `upload` | `executeTask` of a record and its upload goroutines, one per target |
| `op` | requests of operators: `DeleteRecord`, `SetLock` |
| `clock` | completions so far; orders records as `CompletedAt` does |

`StartCheck`, `StartCreate`, `StartLaunch` and `StartAborted` are `startTask` under its
lock. `Resolve` is the run up to the uploads, with the base it depends on; `Send`,
`CleanList`, `CleanObject` and `CleanRow` are one goroutine of the upload loop, which
ends in `retention.Cleanup` on its own target; `Collect` and `Hooks` follow, and
`FinalRead` and `FinalSave` are `finalizeRecord`, which saves the whole row it read.
`Expired`, `Protected` and `Candidates` are the retention policy with
`protectDifferentialBases`. The delete and lock requests take a step per access.

Abstractions. Runner, compression and encryption have one outcome. Whether the base is
too old or has no manifest is left to chance. Waiting for a semaphore may end in
cancellation, which is a failed run. `Reach` says which records operators touch and
when; it is an assumption on people, not on the code, and the runs say what follows from
it. An object that is deleted twice is no error, as in the rclone provider. The
quota of a target is left out. Repository runs are in `ChunkRepository`, the selection
by generations in `GFSRetention`, dependents in `TaskCatalog`, notification in `Alerts`.

### 2.3 LogHub

| Variables | Code |
|---|---|
| `run` | where the run of a record stands: running, stored by `finalizeRecord`, completed |
| `events`, `done` | length of a stream; number of its completion event |
| `mutex` | the viewer inside `Subscribe`, the only call that can wait while it holds the mutex |
| `viewer`, `chan` | the handler `StreamLogs`, what it has written to its client, and its channel |

`Append`, `AppendProgress` and `Complete` hold the mutex and never wait, so each is one
step (`WriteLine`, `Complete`), which sends to every subscriber with room. `Subscribe`
takes the mutex, sends the past one event at a time (`Replay`) and returns (`Return`). The
handler reads the events once before that (`Snapshot`), writes them to its client after it
(`Show`), and then follows the channel (`Receive`): a client gets the events of the
snapshot twice. An event is its number. Throttling is a choice of when to write. The
streams of restore and verification records live in hubs of their own with the same code.

### 2.4 ChunkRepository and SnapshotSets

| Variables | Code |
|---|---|
| `pack`, `index`, `snap` | the objects under `packs/`, `indexes/`, `snapshots/` of each target |
| `recipe` | the chunks a snapshot names |
| `row` | `backup_records`: status and the targets that hold a copy |
| `lock` | `repositoryLocks`: one mutex per target |
| `job` | runs and removals in progress, with what they have listed |
| `reader` | restores, verifications and downloads in progress |

A run (`executeRepositoryTask` with `Upload`) locks one target at a time, loads its index
(`LoadIndex`), stores new packs (`PutPack`), the segment of each (`PutIndex`) and its
snapshot last (`PutSnapshot`); its retention, `DeleteRecord` and the deletion of a task
remove snapshots and rows and then prune (`PruneMark`, `PruneScan`, `SweepIndex`,
`SweepPack`, `SweepOrphan`). Retention and `DeleteRecord` take the locks of all their
targets in the order of ids (`LockAll`), the deletion of a task takes none, readers take
none. Any access may fail, with its effect or without: what was stored, or removed, may be
reported as failed. The Master may restart between any two accesses. One such outcome is a
hazard of its own, "segment": an index segment that is stored although its upload is
reported as failed, whose pack `uploadPack` then deletes. The run and the theorems leave
it out (section 5). A snapshot that is stored on a target whose upload is reported as
failed is an orphan that no record names. Objects that are torn half-way are not modelled.
A pack is named by its digest: it is its set of chunks. `TaskDeletion` "alone" is an
assumption on people: tasks are deleted while nothing else changes the repository.

### 2.5 BackgroundJobs

| Variables | Code |
|---|---|
| `record`, `object`, `copied` | backups, their artifacts, replicated artifacts |
| `kind`, `source`, `row`, `job` | the rows of restores, verifications and replications and the goroutines that work on them |
| `applied` | what a job has restored, checked or copied, in order (history) |
| `command`, `agent`, `handler` | a restore on another node: its command, its Agent, the report being saved |
| `app`, `cancelled`, `stopping`, `drained`, `late` | `Application.Shutdown`, the Supervisor's context and state, the deadline |

A job's row is created running (`StartRestore`, `StartVerification`, `StartByTask`,
`StartReplication`), handed to the Supervisor (`Go`) or to an Agent (`Dispatch`), waits
for a slot (`TakeSlot`, `Abandon`), resolves its chain (`Resolve`), works through it, base
first (`Work`), and closes its row (`Finalize`) in a context that outlives cancellation.

A restore on another node: its Agent claims the command (`Claim`, `ClaimLost`), may send
lines of its log (`AgentLog`), restores (`AgentRestore`), reports (`AgentReport`) and
delivers the result of the command (`AgentResult`). Both log lines and reports are read
and saved as whole rows in two steps (`Update`, `ReportSave`); the Agent may give a request
up while the Master works on it (`RequestLost`), and then the save may be late or not come
at all (`ReportDropped`). The attempts to deliver a result are bounded, so a lost one is
given up. The Agent dies and starts again (`AgentDies`, `AgentStarts`); the heartbeats of a
node renew the lease of its commands, whether the Agent still knows them or not
(`Overdue`), unless the node is cut off for longer than a lease (`CutOff`). What a
backup takes (`Needs`) and what a job goes through (`Chain`) differ in one case: the
specification an Agent gets names one artifact, so a differential backup is restored
there without its base.

The shutdown stops the scheduler, the server and the Supervisor in this order
(`StopScheduler`, `StopServer`, `Drain`) unless the deadline passes (`Expired`), and
closes the database (`Exit`); the process may die at any time (`Crash`), and `StartUp` is
`reconcileInterruptedOperations`, which spares what an active command works for. The
content of an archive and the integrity check are one outcome.

### 2.6 TaskCatalog

`row` holds the tasks, `entries` and `verifies` what the scheduler has in memory, `jobs`,
`pc` and `item` the request in hand: a list of single operations (one for `Create`,
`Update`, `Toggle`, `Delete`; several for batches, templates and imports), each of which
reads, saves and tells the scheduler in steps of its own. `run`, `hooks` and `due` are
runs that keep the task row they read and save it at their end, and the dependents they
trigger. `torn` collects the tasks on which a call reported an error after it had stored
something: of those the properties say nothing, and a restart clears it. `ImportJobs` is
the two loops of `Import` over the file; a name that exists is skipped by the first, a
task without dependencies or one that could not be created by the second (`Pointless`).

Abstractions. A row keeps what some property reads. One request runs at a time, and with
`Overlap` FALSE none works on a task that runs; what overlapping does is told in section
5. The dependency search gives up at depth 32, deeper than the instance. The names in a file
are distinct, as they are in every file a Master writes (`RowsAssumption`).

### 2.7 Requests, NodeRegistry, StorageTargets, Accounts

`Requests` is what the three have in common: a client's request reads, decides and
writes later, and `req` carries what it knows from one step to the next. `Abandon` is an
error or a cancellation at any of them.

`NodeRegistry`: `nodes` and `installs` are the rows; `beaten` and `served` record accepted
heartbeats and installations handed out. Heartbeat, edits and rotations save whole rows;
`Script`, `Compose`, `ConsumeCompose` and `HandOut` are the two public downloads, with
`ConsumeByToken`'s conditional update. The spans of time (45 s, 24 h, 7 days) keep their
order and not their ratio.

`StorageTargets`: a configuration is its secret, which the backend accepts or does not
(`working`, which changes). Requests and the monitor (`MonitorList`, `Probe`, `Report`)
save whole rows; `sessions` are OAuth sessions, as `storage_target_service.go` keeps them
(`google_drive_oauth_service.go` does the same and is not used).

`Accounts`: a request carries the rows it is going to save, one after the other. A
request whose proof is wrong changes nothing and is left out. API keys, sessions,
passwords and the rate limit of logins are not modelled.

### 2.8 Chunker, GFSRetention, FileArchives

Three algorithms with the events that meet them. `Chunker` is `Split` with reads of every
length, and errors; its reference cuts the whole content at once. `GFSRetention` runs
`selectGFSToDelete` after each backup on what earlier cleanups, failed deletions and locks
have left; the clock may go back. `FileArchives` is the walk of `FileRunner`, entry by
entry, with writes in between, refusals and exclusions, the differential with its
deletions and the restore of one over the other. A file is looked up, with its manifest
entry and header (`Visit`), and its bytes are copied later (`Copy`): in between it may be
written to, and what is archived is torn (`torn`); when it has become shorter, the archive
waits for bytes that do not come, so that the next header fails, or, after the last file,
the archive ends too early (`short`). Bytes, modes, links and several source
paths are left out.

### 2.9 Backint, VdiTransfer, AgentUploads, RemoteCalls, Alerts

`Backint`: `call` is a process with its batch of requests and the parameter file as it was
when the process started, `catalog` and `objects` what the processes share, `answers` the
lines of all output files. A process may die between two steps.

`VdiTransfer`: `transfer` is the runner's select loop, `helper` the native process, `sql`
the statement's goroutine, `ctx` the two contexts. Each party may fail or hang.

`AgentUploads`: `exec` is the Agent's execution with the specification it was given,
`relay` the Master's handler of an uploaded artifact, `stored` the objects; `wanted` and
`modeOf` are the rows, which are edited, and a day may begin (a name holds the date).

`RemoteCalls`: `caller` is a handler that asked and looks at its command's row, `node` the
command in the Agent's hands, `place` the version of what there is on the node.

`Alerts`: `records` are a task's runs, `reporting` those that have stored their result and
not yet told; each monitor has what it looks at (`watched`), what its scan has read
(`seen`) and what it remembers (`remembered`).

## 3. Runs

Twelve runs, bounded by constants and by the counters named below. Deadlock is not
checked anywhere (`CHECK_DEADLOCK FALSE`): each system really may stop, when the jobs of
the instance are done and no request is in progress. That nobody waits for ever is
stated by properties (`NoCircularWait`, `EveryRowCloses`, `PeersRelease`, ...).

| Run | What it checks | Instance |
|---|---|---|
| `agent_safety` | `OneExecutor`, `SuccessIsStored`, `ActiveRecordIsOpen`, `ImplementsJobQueue` | one node, two Agent processes with its token, one command, two slots, all faults, two of them |
| `agent_liveness` | `QueuedCommandSettles`, `RecordClosesOrIsLeased` | one Agent, one log line; two faults of any kind but a database error |
| `agent_report_retry` | `FailedCommandClosesRecord` | one Agent; two database errors or abandoned requests, three attempts |
| `runs_safety` | `Restorable`, `NoOrphans`, `ImplementsCatalog`, `LockedIsKept` | four runs, differential, one target, `MaxBackups` 1, two callers, operators between the runs |
| `runs_one` | `OneRun` | three runs, two callers, operators on finished records at any time, all faults, two of them |
| `runs_liveness` | `NamesACopy`, `RunCloses` | two runs, two targets, storage failures and restarts |
| `runs_replicated` | `SuccessIsReplicated` is violated | two runs, no faults |
| `repository` | `SnapshotsComplete`, `ReadersFinish`, `NoCircularWait`, `PruneReclaims`, `ImplementsSnapshotSets` | two runs of a task over two targets, two chunks, one deletion, one reader, `MaxBackups` 1, one fault with its effect or without, or a restart (no "segment") |
| `jobs` | `Drained`, `CleanExit`, `Honest`, `EveryRowCloses` | two jobs of every kind the Master does itself, one slot, a differential and its base, one fault of storage, database, deadline or crash; or one restore on another node, of the full or the differential backup, with three faults of seven kinds |
| `tasks` | `ScheduleFollowsRows`, `ImportLinks`, `CascadeEnds` | three task ids, three requests of any kind, batches of two, an import of two, one run by hand or by cron with its cascade, one fault |
| `services` | `OneInstall`, `HonestStatus`, `FactorsConsistent`, `SplitIsOfContent`, `GenerationsKept`, `DifferentialRestores`, `HealthSettles` | two requests at once, three (accounts: four) in a behaviour; contents of up to seven bytes with chunks of two to six; four backups over four days; three paths and three writes |
| `peers` | `NoGap`, `BackintKeepsWord`, `TransferHonest`, `SuccessLeadsToCopies`, `AnswerIsCurrent`, `AlertsAreDue`, `PeersRelease` | one run of two lines with two viewers and channels for two events; two backint processes, three requests, one fault; one transfer; two targets and two edits; two callers and two commands; three runs, two channels, four hours |

Why the bounds are enough to meet the interesting cases.

- *Command queue.* Two Agents and two slots are the least with which two polls race, and
  a third poll meets nothing new; commands of one node interact only through the order
  of the queue, which `Oldest` takes from `ClaimPending`. Two faults allow a fault while
  another is being repaired. `MaxTries` is three in the code; runs where the last
  attempt does not matter use two. `MaxLogs` bounds the lines an execution sends: one is
  enough to let a stale save meet a report.
- *Runs.* Four runs with `MaxBackups` 1 are full backup, differential, a run that expires
  the first and one more after an operator's deletion.
- *Repository.* Two runs share chunks or not, the second expires the first, and two
  targets are the least with which locks could form a circle; the reader overlaps both.
- *Jobs.* Two jobs are the least that compete for one slot, and one may be cancelled or
  refused while the other works; a chain has at most two backups in the code. A remote
  restore competes for nothing on the Master, so that it is alone in its behaviours
  (`Apart`); it takes three faults for an Agent to lose a request, die, and meet a Master
  that stops.
- *Tasks.* Three tasks hold a cycle of two that a third one feeds. The second request
  meets what the first left, the third what a fault left of the second.
- *Services.* Lost updates need two requests; a third finds the row they left.
  `HashBits` 3 makes the rolling hash forget a byte within a chunk, as 64 bits do; seven
  bytes hold two full chunks of three. Four backups over days, weeks, months and years that
  end at different times are what two policies tell apart. Three paths are a directory,
  a file in it and one beside it.
- *Peers.* A channel of two for a stream of at most three events stands for 64: the
  behaviours have streams that fit and streams that do not. Two
  backint calls overlap; the second finds the object the first stored. Two failures in a
  row reach the threshold of two and a third run overtakes the decision. Each monitor
  has behaviours of its own, since they share nothing but the clock.

**Fairness.** `AgentCommands`: every goroutine with a step to take takes it, every live
Agent goes on, heartbeats arrive, the monitor's ticker fires, and time passes (an
unanswered row becomes old in the end: strong fairness, as a refresh may come in
between). Faults, log lines and new runs are never forced. `BackupRuns`: a started call,
a run and its uploads go on, since every I/O call of theirs returns or fails in the end.
`BackgroundJobs`: goroutines, a live Agent and the monitor go on, the shutdown goes on
once it has begun, and a Master that is down is started again; strong fairness, since a
Master that is restarted again and again is up long enough for an Agent, which polls for
ever, and for the monitor. Nothing is assumed of the attempts to deliver a result, which
are bounded.
`TaskCatalog`: handlers, runs and hooks are goroutines that nothing holds up.
`StorageTargets`: the monitor's goroutine goes on; requests may stop at any statement.
`LogHub`: a run ends and completes; a handler takes its next step; both wait for a mutex
that others take and release in between, hence strong fairness, which Go's mutex gives
(a waiter that starves is handed the mutex). That a handler goes on receiving assumes a
client that reads or goes away. `VdiTransfer`: the runner's own steps, its timer, and
that a process that was killed and a statement whose context was cancelled stop; nothing
is assumed of a helper or a server that just hangs.

## 4. Properties

**Command queue.**
`OneExecutor`: although all processes with one token poll one queue and the claim is a
read and an update, a command is in the hands of one process at most.
`SuccessIsStored`: neither record nor command says success unless the execution
succeeded, whatever was lost, repeated or late. `ActiveRecordIsOpen`: while a command is
active only its execution's report settles its record. `ImplementsJobQueue`: a job is
taken once, executed once and given one final verdict. The liveness of commands and
records: `QueuedCommandSettles`, a pending command is taken or times out;
`RecordClosesOrIsLeased`, a record ends, unless its command stays leased for ever to a
node where no process executes it; `FailedCommandClosesRecord`, a failed command does not
leave its record running, which depends on the Agent repeating its failure report, as
long as an attempt is left in the time they share. `RecordCloses` (without the exception)
and `FinalIsFinal` (a finished record keeps its status) are what comments and a test say;
the code does not keep them (section 5).

**Runs.**
`OneRun`: at most one execution from its start to the end of its finalisation.
`Restorable`: the artifact of a successful record, and of its base, is on the target the
record names, except in the middle of its own removal. `NoOrphans`: every stored object
belongs to a run in progress or is listed by a successful record. `LockedIsKept`: a
locked record is not removed. `NamesACopy`: a successful record names a target its run
reached, although the loop that chooses it runs over the results of parallel uploads.
`RunCloses`: a running record ends, by its run or at the next start of the Master.
`ImplementsCatalog`: one backup at a time, completed only on a base that is complete, and
what others build on stays.

**Repository.** `SnapshotsComplete`: every chunk of a stored snapshot is in the index, and
every segment has its pack, in the middle of uploads, removals and crashes.
`ReadersFinish`: a reader, which takes no lock, misses a chunk or a pack only if its
record is being removed. Both hold unless a segment is stored that was reported as failed
(section 5). `PruneReclaims`: an undisturbed prune leaves nothing that no
snapshot names, orphans of crashes included. `NoCircularWait`: runs and removals never
wait for each other's locks in a circle. `ImplementsSnapshotSets`: snapshots come and go
one at a time and as a whole.

**Jobs.** `Drained`: nothing the Supervisor accepted works after its `Shutdown` returned.
`CleanExit`: a shutdown without deadline and fault leaves no running row (verifications of
a cron entry excepted, see section 5). `Honest`: a successful row did its whole work on
every backup of its chain, base first, whatever was deleted meanwhile; of a differential
that an Agent restored it says that the increment was applied, and no more. `WholeChain`
asks for the base there too, and is violated. `EveryRowCloses`: each row ends, by its job,
an Agent, the monitor or the next start, unless the database fails, a lease that nobody
holds is renewed for ever (`Leased`), or a log line that arrives late opens a closed row
again (`Reopened`).

**Tasks.** `ScheduleFollowsRows`: outside the request in hand, the scheduler runs what the
rows say and a deleted task leaves neither entries nor backups. `ImportLinks`: an imported
task that is not reported as flawed depends on the tasks its file names. `CascadeEnds`: a
start never triggers dependents for ever.

**Services.** `OneInstall`: a token serves one installation, before it expires.
`HonestStatus`: a node shown online has sent a heartbeat within the grace period, although
old statuses are saved over new ones. `FactorsConsistent`: the factors of a user fit
together, however requests undo each other. `HealthSettles`: a target that stays reachable
is shown as tested with success in the end, one that does not as failed, with an
announcement that stands. `SplitIsOfContent`: chunks depend on the content and not on the
reads. `GenerationsKept`: of all backups ever made, the newest of each of the last days,
weeks, months and years survives every sequence of cleanups, and a complete cleanup keeps
no more than the policy counts. `DifferentialRestores`: a full backup with its differential
brings back each selected path as the walk saw it, and no other, also when the full backup
holds files that were written to while they were copied. A file written to while the
differential copied it comes back as it was archived, which is neither version; a full
archive that ends with a file that shrank is excluded, since it cannot be read (section 5).

**Peers.** `NoGap`: of a stream that fits into its channel, a follower's client has, or
will get from the channel, the events of the snapshot and then the whole stream once, in
its order; only those of the snapshot come twice. `PeersRelease`: as long as no stream
outgrows a channel, no viewer holds a run up and a follower learns of the end (with longer
streams neither is so, see section 5); and a transfer one of whose parties failed, or
whose run is cancelled, ends although the other party hangs. `BackintKeepsWord`: what HANA
was told is saved can be restored until it asks to delete it, a restore gives what was
saved, what was deleted is not offered any more. `TransferHonest`: success means that both
parties succeeded and the file holds the data; neither is left at work.
`SuccessLeadsToCopies`: a record that an Agent closed as successful names copies that
exist. `AnswerIsCurrent`: an answer is about what was asked, and was read after it was
asked. `AlertsAreDue`: a run that ends a series of failures is told to every channel that
wants it, and a condition that lasts is not announced again before its time.

## 5. What the code does otherwise

One run expects a violation of what comments state; the quotes are in `PROJECT.json`
("findings").

- **Replication that never starts** (`runs_replicated`). The hook runs while the record
  is still running, and `Start` accepts successful records only: no automatic replication
  is ever made.

### Known behaviours, with a configuration that shows them

Each of these configurations violates its property by what the code does. They are kept
for the reader: `tlc -config <cfg> <module>`.

1. **A lease nobody holds** (`AgentLease.cfg`, `MCAgentCommands`, `RecordCloses`). An
   Agent crashes with a command in hand and comes back: its heartbeats renew the lease of
   a command that no process executes (`service/agent_service.go:774`). The record stays
   in running and the task cannot be started again, although the comment at line 656
   says the monitor exists to prevent that. The same happens when an Agent has used up its
   attempts to deliver a result.
2. **Attempts that share five seconds** (`AgentDeadline.cfg`, `MCAgentCommands`,
   `FailedCommandClosesRecord`). The loop of `submitCommandResult` ends with its context
   (`agent/agent.go:298`). When the database refused the convergence of a failed command's
   record and no attempt is left in that time, nobody looks at the record again.
3. **A finished record written over** (`AgentOverwrite.cfg`, `MCAgentCommands`,
   `FinalIsFinal`). `UpdateRecord` and `failLinkedRecord` test that the record is running
   and save the whole row in a second access, against the comment at
   `service/agent_service.go:806`: a line of the log makes a finished record running again,
   a failure replaces a success that was stored in between.
4. **An increment restored alone** (`JobsIncrement.cfg`, `MCBackgroundJobs`, `WholeChain`). A
   differential made on the Master, whose task has moved to a node since, is restored
   there without its base, and the row says success (`service/restore_service.go:241`,
   against the comment at line 393).
5. **A segment without its pack** (`RepositorySegment.cfg`, `MCChunkRepository`,
   `ReadersFinish`). When the upload of an index segment is reported as failed although it
   was stored, its pack is deleted under it (`backup/repository.go:899`); later runs take
   its chunks for stored, and their backups are successful and cannot be restored.
6. **Copies left behind** (`RunsTwoTargets.cfg`, `MCBackupRuns`, `NoOrphans`). With two
   targets, the first cleanup deletes the shared record and its own copy; the copy on the
   other target stays. `CleanupProviders`, whose comment describes this, is called for
   repository records only.
7. **A viewer that stops every run** (`LogHubBlocked.cfg`, `LogHub`, `RunEnds`).
   `Subscribe` sends the past into a channel nobody reads yet, with the hub's mutex held
   (`backup/log_hub.go:67`): with more than 64 events it waits for ever, and so does every
   run that wants to write a line.
8. **A prune without a lock** (`RepositoryTaskDeleted.cfg`, `MCChunkRepository`,
   `SnapshotsComplete`). The deletion of a task prunes without `repositoryLocks`
   (`service/backup_task_service.go:473`): the packs of an upload to the same target are
   collected before its snapshot names them, and the record is successful all the same.

Three more are shown by a change of a configuration:

9. **A base deleted by its own differential** (`RunsSafety.cfg` with `Hazards = {"age"}` and
   `INVARIANT ChainIntact` alone). Retention runs before the record of the run is
   successful and protects the bases of successful records only: a base past
   `RetentionDays` is deleted by the run that has just built on it
   (`service/backup_execution_service.go:1146`).
10. **A base released for a deletion that fails** (`RunsSafety.cfg` with
   `Hazards = {"storage"}`, `MaxFaults = 1` and `INVARIANT ChainIntact` alone). Retention
   deletes a base together with its differentials. When the object of a differential
   cannot be deleted, its record stays, the loop goes on, and the base is deleted all the
   same (`backup/retention/service.go:122`, against the comment at line 203).
11. **A Master that does not start again** (`Tasks.cfg` with `INVARIANT StartsAgain` alone).
   `validateInput` only counts the fields of a cron expression; one that does not parse is
   stored, and at the next start `Reload` fails and the Master shuts down
   (`scheduler/service.go:123`).

### Known behaviours no run is about

They follow from the code; the properties' exceptions and the assumptions of the runs
(`Reach`, `TaskDeletion`, `Overlap`) stand where they bite.

*Commands and remote runs.*
- The monitor decides on the status it listed: a command claimed in between is timed out
  although its Agent has just begun; the Agent's own report then changes nothing although
  an artifact may have been stored. If the record's update fails after the command was
  marked timeout, nobody looks at the pair again before the Master restarts.
- Relayed uploads are refused when the command executes on another UTC day than its record
  began. Rejected reports, timeouts and lost replies leave orphan objects, as does a delete
  command that times out. Reports without a transfer mode, as older Agents send them, are
  accepted.

*Runs, retention, locks.*
- `DeleteRecord` does not look at the status: after a running record was deleted by hand
  the task can be started beside the first run (`Reach` "any" breaks `OneRun`).
- The base of a differential is read before the upload; an operator may delete it during
  the run.
- `SetLock` and `finalizeRecord` save whole rows: one undoes the other. A lock request that
  read a running row and saves it after the run makes the record running again.
- A Master that dies after an upload leaves an object no record names.
- `finalizeRecord` saves the task row the run read at its start (`UpdateRecord` likewise):
  edits made meanwhile are undone, a deleted task comes back, and a dependency cycle an
  edit has broken may be closed again, with a cascade that does not end.

*Repository.* A reader fails when a prune deletes an index segment between its listing and
its reading; trying again helps. Snapshots of crashed runs keep their chunks for ever.
Dependents are triggered before the record is final.

*Jobs.* A verification of a cron entry that is refused at a shutdown is finalised with the
cancelled context: its row stays running until the next start
(`service/verification_service.go:240`). A slot is released before the row is closed. When
`Run` returns an error, `os.Exit(1)` skips `Close`. The verification of a differential
looks at its own artifact only. Retention never deletes replicas.

*Tasks.* Two concurrent edits of one task may reach the scheduler in the other order than
the database; edits of two tasks can close a cycle neither of them saw. Importing a
database task always fails, since the export leaves out its password, which `Create`
requires; the export also leaves out the backup mode, the differential interval, the
generations and the node pool. Backups are cleaned up before a task's row is deleted, and
stay deleted if that fails. A task that an import created and could not schedule is
reported as failed and skipped as a duplicate by the next import. A file edited by hand that
lists a name twice links its task by the last of the two.

*Nodes and accounts.* A heartbeat or an edit that read a node before a token rotation undoes
it; a save brings a deleted node back; concurrent creations exceed the rate of install
tokens. `UpdateUser` may demote or disable the last administrator, and two deletions may
remove the last two. Whole-row saves undo a password change, bring back a consumed
recovery code, or restore a deleted user.

The script a compose file carries (`service/install_token_service.go:179`) is
not counted as an installation of its own.

*Storage targets.* An edit drops the star; testing unsaved edits saves them; the monitor
undoes edits made while it tested, a disabling included; two concurrent completions of one
OAuth session both succeed, although a comment says otherwise; deleting a target checks for
tasks and then deletes. The health monitor skips a target whose configuration it cannot
decrypt (`service/storage_target_service.go:391`), so that its health keeps what it was. An
edit of a target's location is not refused while backups name objects at the old one.

*Archives.* A file that shrinks while it is copied leaves its entry short: `io.EOF` is
ignored (`backup/file_runner.go:138`), and when it is the last entry of a full archive the
error of the deferred `Close` is lost (line 53), so that the run succeeds with an archive
that cannot be restored. A file that is written to while it is copied is archived torn,
without a warning. A path that changes between file and directory, two sources with one base
name, several sources restored below the parent of the first, an unreadable entry that
a differential takes for a deletion, and a change that keeps size and time are not handled.

*Notifications.* Runs that an Agent or the Master's restart closes notify nobody. A failure
whose successor started before it was told is not told itself; the next one is. A
notification that cannot be sent counts as made. The channels of one record share a context
of five seconds (`service/backup_execution_service.go:861`, 912): one that hangs uses it
up, and the later ones fail. Monitors forget what they announced at a
restart.

*Backint and SQL Server.* An error of closing a restored file is swallowed; a line that
cannot be written is not noticed; a deletion that fails in the storage is answered
`DELETED` and leaves an orphan; a pipe that HANA closes early reads as its end;
`PARALLEL_FACTOR` is read and never used. A helper that exits while the statement hangs, or
the converse without an error, is waited for until the run is cancelled.
*Log viewers.* Runs executed by an Agent and starts that were aborted never complete
their stream on the Master, so their viewers wait until they go away. A viewer slower than
a long stream loses events, the completion among them. Streams stay in the hub's map for
the life of the process. A viewer of a running record gets past events twice, from the
snapshot and from the channel; the console drops the second ones by their sequence
(`web/src/components/backup-records/BackupRecordLogDrawer.tsx:112`).

*Maintenance windows.* An example in the documentation, `days=sat,sun;time=...`, parses as
two windows; unknown names of days mean every day; a window over midnight tests the
weekday of the instant.

## 6. Proofs

TLAPS checks every leaf of eight modules. The theorems hold for all values of the
constants that satisfy the named assumption of the module (`AgentCommandsAssumption`,
`BackupRunsAssumption`, `RepositoryAssumption`, `JobsAssumption`, `NodesAssumption`,
`RetentionAssumption`, `ArchivesAssumption`, `ChunkerAssumption`, `AccountsAssumption`,
`RequestsAssumption`, `BackintAssumption`, `LogHubAssumption`, `UploadsAssumption`,
`RemoteCallsAssumption`, `AlertsAssumption`, `TasksAssumption`, `RowsAssumption`): any
number of nodes, processes, records, targets, chunks, readers, jobs, tasks, users and
clients, any sizes and masks, and any bound on faults, times and requests. What a theorem
assumes beyond that stands in its statement and below.

| Module | Theorem | Shows |
|---|---|---|
| `AgentCommandsProofs` | `TypeCorrect`, `OneExecutorHolds`, `SuccessIsStoredHolds`, `ActiveRecordIsOpenHolds` | `TypeOK` and the invariants of `agent_safety` |
| `AgentCommandsProofs` | `Implementation` | `Spec => ImplementsJobQueue` |
| `BackupRunsProofs` | `TypeCorrect`, `NamesACopyHolds` | `TypeOK`, `NamesACopy` |
| `BackupRunsProofs` | `OneRunHolds` | `OneRun`, operators on finished records |
| `BackupRunsProofs` | `LockedIsKeptHolds` | `LockedIsKept`, one operator between the runs |
| `BackupRunsProofs` | `ChainIntactHolds`, `Implementation` | `ChainIntact`, `ImplementsCatalog`, also without ageing, storage and database errors |
| `BackupRunsProofs` | `RestorableHolds`, `NoOrphansHolds` | `Restorable`, `NoOrphans`, also with one target and no restarts |
| `ChunkRepositoryProofs` | `RepoTyped`, `SnapshotsCompleteHolds`, `ReadersFinishHolds`, `NoCircularWaitHolds`, `PruneReclaimsHolds` | `RepoTypeOK` and the properties of `repository`, tasks deleted alone and without "segment" |
| `ChunkRepositoryProofs` | `Implementation` | `RepoSpec => ImplementsSnapshotSets`, tasks deleted alone and without "segment" |
| `BackgroundJobsProofs` | `JobsTyped`, `DrainedHolds`, `CleanExitHolds`, `HonestHolds` | `JobsTypeOK` and the invariants of `jobs` |
| `TaskCatalogProofs` | `TasksTyped` | `TasksTypeOK` and the strengthening, no overlap |
| `TaskCatalogProofs` | `ScheduleFollowsRowsHolds`, `ImportLinksHolds` | `ScheduleFollowsRows`, `ImportLinks`, no overlap |
| `ServicesProofs` | `NodesTyped`, `OneInstallHolds`, `HonestStatusHolds` | `NodesTypeOK`, `OneInstall`, `HonestStatus` |
| `ServicesProofs` | `FactorsConsistentHolds` | `FactorsConsistent` |
| `ServicesProofs` | `GenerationsKeptHolds` | `GenerationsKept` |
| `ServicesProofs` | `DifferentialRestoresHolds` | `DifferentialRestores` |
| `ServicesProofs` | `SplitIsOfContentHolds` | `SplitIsOfContent` |
| `BackintProofs` | `BackintInv`, `KeepsWordHolds` | the strengthening, `BackintKeepsWord` |
| `PeersProofs` | `TypeCorrect`, `NoGapHolds` | `TypeOK` of `LogHub`, `NoGap` |
| `PeersProofs` | `UploadsTyped`, `SuccessLeadsToCopiesHolds` | `UploadsTypeOK`, `SuccessLeadsToCopies` |
| `PeersProofs` | `RemoteTyped`, `AnswersAreCurrent` | `RemoteTypeOK`, `AnswerIsCurrent` |
| `PeersProofs` | `TransferHonestHolds` | `TransferHonest` |
| `PeersProofs` | `AlertsAreDueHolds` | `AlertsAreDue` |

**AgentCommands.** None of the invariants is inductive alone: that a report is true
depends on what every other party may still do. `IInv` adds, part by part, what each
party knows: `StartInv` (a run not yet routed has no command), `AgentInv` (a process that
holds a command took it, and its report is its outcome), `WaitInv` and `HandlerInv` (a
request in progress carries what its sender knew; a handler that converges works on a
failed command), `MonInv` (the monitor converges only commands that timed out). One
lemma for each part shows that a step keeps it. `Implementation` maps each step under
`IInv` to a step of `JobQueue` or a stutter.

**BackupRuns.** The invariants grow with what is claimed, and so do the hypotheses, each
of which leaves out a behaviour that breaks the claim.

- `RunInv` ties the two guards of `startTask` together: while a call is between its test
  and its launch it holds the lock (`CallerInv`), and a record that is executed is running
  and is the only running one (`RecordInv`). `CleanInv` and `OpInv` say that retention and
  operators hold settled records only, so that no save of theirs brings a running row back.
  This last part is where `Reach # "any"` is needed: with operators that touch running
  records `OneRun` does not hold. `NamesACopy` needs no such assumption. Since whole rows
  are saved from copies, `CopyInv` says it of the copies too.
- `HoldInv` adds that a request and a run exclude each other and that a request's row is
  the one it read (`HandsInv`); what retention is about to delete is then still unlocked
  (`UnlockedInv`), which gives `LockedIsKept` under every fault and for any targets. It
  needs `Reach` "idle", since retention may have listed a record that is locked during the
  run, and one operator, since two requests undo each other's rows.
- `KeptInv` adds the order of the chain: a differential is based on what was the newest
  full backup when it was made (`ChainInv`), the base of the run in progress is still the
  newest (`BaseInv`), and what retention has listed is closed under dependence and worked
  through from the newest on (`TodoInv`). The heart is `BaseSpared`: of the records
  beyond `MaxBackups` the newest full backup is one only if a differential of it stays,
  and then `protectDifferentialBases` keeps it. This gives `ChainIntact` and, step by step,
  `ImplementsCatalog`. `Undisturbed` leaves out ageing, with which the base of the run in
  progress is deleted, and storage and database errors, with which a differential outlives
  the deletion of its base (section 5, 9 and 10). Restarts may happen at any point.
- `ObjectsInv` adds that the target holds exactly the artifact of the run in progress, once
  it is sent, and those of the successful records that are not being removed. Here
  there is one target, since with two copies are left behind (`RunsTwoTargets.cfg`), and no
  restart, since one between an upload and its record leaves an object nobody names.

TLC checked each of these invariants on three and four records before it was proved.

**ChunkRepository.** The mutex of a target keeps a prune and an upload apart. `LockInv` says
which mutexes a job holds from the state of that job alone, `KnowInv` what a job that
holds one knows of its target: the index an upload has loaded and the live chunks a prune
has marked are those of the store. Readers hold no mutex; `ReaderInv` says that the
segments they have listed stay as long as the snapshot they read for. A step is looked at
twice: `Frame` is what it may do to others (nothing outside the targets whose mutex it
holds, and no segment goes that a snapshot needs), which is enough for all of them
(`OthersKeep`, `ReadersKeep`); `Own` is what is left to show of the job itself, one lemma
for each step. `NoCircularWait` follows from the order in which mutexes are taken: the
job of a circle that waits for the greatest id would have to hold a greater one; this is
where `Targets` is finite. All of it assumes `TaskDeletion` "alone": the deletion of a task
takes no mutex, and next to an upload the snapshots are not safe
(`RepositoryTaskDeleted.cfg`). The second assumption, that "segment" is not among the
`Hazards`, leaves out the one failed access after which the index names a pack that is gone;
with it snapshots are incomplete and readers fail (`RepositorySegment.cfg`).

**BackgroundJobs.** Two arguments. Whoever may still report a success has done the whole
chain (`Truthful`), which for an Agent is the artifact its specification names: it is kept
by jobs, by an Agent through lost requests, crashes and restarts, and by each of its
requests that is still to be saved, and gives `Honest`. In a behaviour without faults the
owner of a running row is still at work until the exit (`Manned`, `Closing`), which gives
`CleanExit`; `Drained` follows from the Supervisor's exclusion of `Add` and `Wait`.

**NodeRegistry.** `Once`: a request that is about to hand out an installation is the only
one for its token, which is spent and has served nobody. `Current`: a row that says
online, in the table or in the hands of a request, carries the time of an accepted
heartbeat. The second is what makes stale saves harmless to `HonestStatus`.

**Accounts.** Requests save whole rows and undo each other; what each of them carries is
consistent by itself (`AccountsTypeOK`), so that whatever is saved last is consistent. The
work is in the operators that make a row from a row: each is shown to repair what the
loss of a factor leaves. `filterActiveTrustedDevices` is a recursion over a list; that it is
defined for every list (`RecursionExists`) and shortens it (`ActiveIsShorter`) is proved by
the well-founded order of the natural numbers.

**GFSRetention.** The selection sees what earlier cleanups have left, the property speaks of
all backups there ever were. `NewestLeft`: the newest backup of a period the policy
counts is left. It is therefore the first of its period in the walk, and every backup that
opens a period before it does so for a later period of its own (`LeadsDiffer`); of those
there are fewer than the policy counts, so the cleanup keeps it. `FewLeft`: a tier keeps
ranks below its number, and the union over the tiers no more than the sum
(`UnionWithinSum`, an induction over finite sets). A backup that appears later with an
older time can only move periods out of what is counted.

**FileArchives.** Of a walk, `WalkInv` says that whatever it has seen, and whatever it has
still to look up, is in a directory it has seen (`Rooted`, `Ready`), that a name is looked
up once, and that what must be archived of what it has seen is (`Stored`); of the backups,
`BackupsInv` says the same without the walk. The source itself does not occur: it may
change at any point. Extraction is a fold over the archive, and the argument about one
entry is `ExtractIs`: over a tree that agrees with the manifest on what is a directory, an
entry is extracted without an error and changes only itself and the directories above it,
which the manifest lists. The property's exception, a path that changed its kind, is what
the agreement needs (`DiffRestores`). A file that a walk copies is torn only if it was
written to since it was looked up, so the manifest's version is older than the source's
(versions are numbers of writes). What the full backup holds torn is therefore another
version for the differential, or gone, and is replaced or deleted (`Replaced`). An archive
that ends short is never a differential, whose last entry is the list of deletions. Paths
form a forest given by `ParentOf`, with `Order` a walk of it; that `AboveOf` is defined
and what it holds follows from that order (`FromAbove`, `AboveOfIs`).

**Chunker.** The rolling hash remembers every byte of the chunk, modulo `2 ^ HashBits`; the
reference looks at one window. `RolledSince` splits the hash at the beginning of the window:
what came before has been multiplied by `2 ^ HashBits`, which both masks divide
(`PowersDivide`), and the rest is a sum that may be taken in any order (`SumTakesAny`,
`WindowSum`), hence `WindowIs`. A cut point found in what was read is then the first in all
that is left of the content (`CutIsFirst`), also when the end has not been read, because
`findCutPoint` answers 0 as long as more bytes could matter. `ChunkerInv`: what was emitted,
followed by the split of what was not, is the split of the content. The recursions over
positions are shown to be defined by the well-founded order of the natural numbers
(`RecursionExists`).

**Backint.** `Good` and `Listed`: a key is written once and names one object, and an entry
of the catalog leads to it; `Told` ties the answers to the catalog, `CallOK` and `Working`
say how far each process may be. Ids are never used twice, which is where two processes
and edits of the parameter file could otherwise meet.

**LogHub.** `NoGap` speaks of followers and is not inductive: a viewer starts to follow
where its replay ended. `HubInv` adds that a viewer that replays holds the mutex
(`HubHeld`), so that the stream stands still, and says for each place of the handler what
its client has and what its channel holds (`Placed`): nothing before it has subscribed
(`FreshViewer`), the beginning of the stream while it replays (`Replayed`), the whole of it
when the snapshot is shown (`Showing`), and then what `NoGap` says (`Following`). The steps
between them are facts about sequences: the head of a channel goes to the end of what the
client has.

**AgentUploads.** The argument follows one target. An Agent sends it at most one artifact:
what the Agent has counted is stored where the Master will look for it (`Counted`), and a
target a relay handler still works for has not been counted (`Alone`), so that a handler
that deletes what it stored never deletes a copy the record names.

**RemoteCalls.** The argument follows a question through its command, which is its own:
as long as its caller waits, what the Agent holds for the command (`HeldFresh`) and what
its row says (`StoredFresh`) is no older than the question.

**TaskCatalog.** Both theorems assume that no run and no request on one task overlap
(`Overlap = FALSE`), because with an overlap `finalizeRecord` undoes an edit and neither
property holds. The properties speak of the time between requests; `CatalogInv` says what
holds inside one. `RequestInv`: the row in hand is the row that is stored, from the moment
it is saved until the scheduler has been told, and the row of a deletion until it is gone.
`RunsInv`: a run holds the row of its task but for the outcome of the last run, and nobody
works on that task, which is why writing the row back whole changes nothing the scheduler
looks at. `IdsInv`: ids and names are given once, so a new row has neither a run nor an
entry. `CronInv` then lets exactly one task differ from the scheduler, the one whose row
has been saved or whose deletion has begun (`Behind`), and one on which a call failed
half-way. For an import, `ImportInv` keeps what is left of `ImportJobs`: the number of jobs
left says which tasks are linked already (`LinkedBy`), a linked task depends on what its
file names, one that is not depends on nothing, and `known` does not change any more once
linking has begun. That a linked row is not touched by the links that follow needs that no
two names were given the same id.

**VdiTransfer.** `PartiesFollow` says how far helper and statement may be at each step of
the select loop, `FileFollows` what the file holds when the helper says it is done, and
that the result is a success only when both ended well.

**Alerts.** The decision is taken when the result is stored already, so `AlertsAreDue` alone
says nothing of the steps between. `Decided` says what the decision about the last run came
to: it was told, nobody could know whom to tell, or one of the last `Threshold` runs has not
failed and never will have, whatever is deleted or reported later. The step that matters is
the decision itself: when those runs are all recorded as failed, they are the newest
records (`FailuresAreSeen`, by counting), hence the ones `shouldNotify` looks at. `Spared`
says for each monitor that what it has announced it still remembers, until it has read that
the condition is over.

**Only model-checked:** all liveness properties (fairness and `ENABLED` are outside the
prover's reach), with the safety of `StorageTargets`, whose property is one.

## 7. Not modelled

`PROJECT.json` gives the reason for each component. In short:

- *Node semaphores, the choice of a node from a pool, quotas, the audit's limit of 64
  webhooks in flight.* Waiting for a semaphore is a run that may be cancelled; the capacity
  of a node is taken at its first use. A node is chosen before a record is created.
- *Maintenance windows.* A function of a text and a clock; a tick outside the window starts
  nothing.
- *Storage providers, compression, encryption, the dump runners other than those above.*
  Sequential I/O, which appears as a choice of outcomes.
- *HTTP handlers, audit, reports, dashboards, metrics, search, settings, API keys.* They
  decode, authorise and present; the state the models keep is not changed by them.
- *Migrations, pragmas, backups of the database file; web console, documentation, native
  helper, deployment.* I/O or other languages.

## 8. Plan

What would add most, in order:

1. Several requests at a time in `TaskCatalog`, once its edits are made conditional.
2. The quota and the semaphores of `executeTask`, with runs of several tasks.
3. For each liveness property, a theorem about its safety part: what an invariant can say of
   the states in which nothing more will happen, for any number of actors (for instance
   that every target's stored health is the outcome of its last test that was not undone).
