------------------------------ MODULE TaskCatalog ------------------------------
(* The backup tasks of a Master: their rows, the cron entries the scheduler    *)
(* holds for them in memory, the graph of their dependencies, and the runs     *)
(* that write a task's row back.                                               *)
(*                                                                             *)
(* An administrator's request is a list of jobs, one for Create, Update,       *)
(* Toggle and Delete, several for the batch calls, for a template and for an   *)
(* import.  A job reads rows, saves one, and then tells the scheduler: three   *)
(* steps between which runs end, dependents start, a statement fails or the    *)
(* Master dies.  A run keeps the row it read at its start and saves it whole   *)
(* at its end.                                                                 *)
(*                                                                             *)
(* Left out of a row: what no property reads (paths, retention, tags, names of *)
(* targets).  SQLite numbers rows with AUTOINCREMENT: an id is never used      *)
(* twice.  The dependency search gives up at depth 32, deeper than any         *)
(* instance checked here.                                                      *)
EXTENDS Naturals, Sequences, FiniteSets

CONSTANTS
    Tasks,          \* the ids of tasks, 1 .. n
    Names,          \* names of tasks
    Inputs,         \* inputs of Create and Update
    Batches,        \* lists of ids for the batch calls
    NameLists,      \* lists of names a template is applied for
    Exports,        \* export files of other Masters, lists of exported tasks
    First,          \* the row of task 1, which exists at the beginning
    Overlap,        \* may a run of a task and a request on it overlap?
    FaultKinds,     \* "db", "assoc", "storage", "crash"
    MaxFaults,      \* bound: faults in a behaviour
    MaxEdits,       \* bound: requests in a behaviour
    MaxRuns,        \* bound: runs started by cron or by hand
    None

ASSUME TasksAssumption == /\ Tasks \subseteq Nat
                          /\ 1 \in Tasks
                          /\ MaxFaults \in Nat
                          /\ MaxEdits \in Nat
                          /\ MaxRuns \in Nat
                          /\ Overlap \in BOOLEAN
                          /\ None \notin Nat

VARIABLES
    row,            \* backup_tasks
    nextId,         \* the id the next INSERT gets
    entries,        \* scheduler.entries: the expression a task is scheduled with
    verifies,       \* scheduler.verifyEntries
    jobs,           \* what the request still has to do
    pc,             \* the step of its first job
    item,           \* the row that job read or built
    file,           \* the export file at hand
    known,          \* Import: tasksByName
    made,           \* Import: created
    flawed,         \* Import: names whose result carries an error
    run,            \* the run of a task: the row it holds, and its outcome
    hooks,          \* tasks whose success still has to trigger their dependents
    due,            \* dependents a hook has listed and not started yet
    stored,         \* tasks with backups their records name
    torn,           \* tasks on which a call failed after it had changed something
    server,         \* "serving", "down", "refused"
    faults, edits, runs

request == <<jobs, pc, item, file, known, made, flawed>>
cron    == <<entries, verifies>>
cascade == <<run, hooks, due>>
budget  == <<faults, edits, runs>>
vars    == <<row, nextId, cron, request, cascade, stored, torn, server, budget>>

Crons == {"", "daily", "hourly", "broken"}
Rows  == [name : Names, kind : {"file", "db"}, secret : BOOLEAN, mode : {"full", "repository"},
          place : {"master", "remote", "pool"}, encrypt : BOOLEAN, cron : Crons,
          enabled : BOOLEAN, verify : {"", "weekly"}, deps : SUBSET Tasks,
          last : {"idle", "running", "success", "failed"}]

\* What an export file says of a task.
Exported == [name : Names, kind : {"file", "db"}, place : {"master", "remote"}, encrypt : BOOLEAN,
             cron : Crons, enabled : BOOLEAN, verify : {"", "weekly"}, ups : SUBSET Names]

\* Names are unique in a database, hence in what it exports; the Master would not
\* have started with a first task it cannot schedule.
ASSUME RowsAssumption ==
    /\ First \in Rows /\ First.cron # "broken" /\ Inputs \subseteq Rows /\ None \notin Rows
    /\ Batches \subseteq Seq(Tasks) /\ NameLists \subseteq Seq(Names)
    /\ \A f \in Exports : /\ f \in Seq(Exported)
                         /\ \A i, j \in DOMAIN f : f[i].name = f[j].name => i = j

TasksInit ==
    /\ row = [t \in Tasks |-> IF t = 1 THEN First ELSE None]
    /\ nextId = 2
    /\ entries = [t \in Tasks |-> IF t = 1 /\ First.enabled /\ First.cron # "" THEN First.cron ELSE None]
    /\ verifies = [t \in Tasks |-> IF t = 1 /\ First.enabled /\ First.verify # "" THEN First.verify ELSE None]
    /\ jobs = <<>> /\ pc = "idle" /\ item = None
    /\ file \in Exports
    /\ known = [n \in Names |-> None] /\ made = [n \in Names |-> None] /\ flawed = {}
    /\ run = [t \in Tasks |-> None] /\ hooks = {} /\ due = {}
    /\ stored = {} /\ torn = {} /\ server = "serving"
    /\ faults = MaxFaults /\ edits = MaxEdits /\ runs = MaxRuns

--------------------------------------------------------------------------------
(* Validation.                                                                *)

Existing == {t \in Tasks : row[t] # None}

\* Mutant: the search looks at the direct dependencies only.
DirectUpstream(ups) == ups

\* The tasks reached from ups by following dependencies, ups included.
Upstream(ups) ==
    LET step(S) == S \cup UNION {row[t].deps : t \in S \cap Existing}
        reach[n \in 0..Cardinality(Tasks)] ==
            IF n = 0 THEN ups ELSE LET before == reach[n - 1] IN step(before)
    IN  reach[Cardinality(Tasks)]

hasCyclicDependency(t, ups) == t \in Upstream(ups)

\* A database needs a password, in the input or in the row that is edited.
validateTaskTypeSpecificFields(existing, in) ==
    in.kind = "db" => in.secret \/ (existing # None /\ existing.secret)

\* existing is the row that is edited, or None; id is its id.  An expression of
\* five fields passes, whether the scheduler can parse it or not.
validateInput(id, existing, in) ==
    /\ in.place # "master" => ~in.encrypt /\ in.mode # "repository"
    /\ in.mode = "repository" => in.kind = "file"
    /\ in.deps \subseteq Existing
    /\ existing # None => id \notin in.deps /\ ~hasCyclicDependency(id, in.deps)
    /\ validateTaskTypeSpecificFields(existing, in)

normalizeBackupMode(mode, kind) == IF kind = "file" THEN mode ELSE "full"

buildTask(existing, in) ==
    [in EXCEPT !.mode   = normalizeBackupMode(in.mode, in.kind),
               !.secret = in.secret \/ (existing # None /\ existing.secret),
               !.last   = IF existing = None THEN "idle" ELSE existing.last]

Taken(name, id) == \E t \in Existing \ {id} : row[t].name = name

--------------------------------------------------------------------------------
(* The scheduler.                                                             *)

Schedulable(r)       == r # None /\ r.enabled /\ r.cron # ""
VerifySchedulable(r) == r # None /\ r.enabled /\ r.verify # ""

\* syncTaskLocked drops the entry it finds and adds the new one; AddFunc refuses
\* an expression it cannot parse, and then the verification is not synced.
SyncTask(t, r) ==
    IF Schedulable(r) /\ r.cron = "broken"
    THEN /\ entries' = [entries EXCEPT ![t] = None]
         /\ UNCHANGED verifies
         /\ torn' = torn \cup {t}
    ELSE /\ entries' = [entries EXCEPT ![t] = IF Schedulable(r) THEN r.cron ELSE None]
         /\ verifies' = [verifies EXCEPT ![t] = IF VerifySchedulable(r) THEN r.verify ELSE None]
         /\ torn' = torn \ {t}

\* Mutant: a task that cannot be deleted is not scheduled again.
SyncNothing(t, r) == UNCHANGED cron /\ torn' = torn \ {t}

RescheduleTask(t, r) == SyncTask(t, r)

RemoveTask(t) ==
    /\ entries' = [entries EXCEPT ![t] = None]
    /\ verifies' = [verifies EXCEPT ![t] = None]

--------------------------------------------------------------------------------
(* The administrator's requests.                                              *)

Job      == Head(jobs)
Creating == {"create", "import"}
Upsert   == Creating \cup {"update", "link"}

\* The task a job is about, when it has one already.
Subject(j) == CASE j.op \in Creating -> None
                [] j.op = "link"   -> made[j.from.name]
                [] OTHER           -> j.id

\* Tasks the current request is working on or will come to.
InHand == {Subject(jobs[i]) : i \in DOMAIN jobs}
          \cup {made[n] : n \in IF jobs = <<>> THEN {} ELSE Names}
          \cup (IF pc = "sync" /\ Job.op \in Creating THEN {nextId - 1} ELSE {})

Fault(kind) == /\ kind \in FaultKinds
               /\ faults > 0
               /\ faults' = faults - 1
               /\ UNCHANGED <<edits, runs>>

\* A request arrives.  Where Overlap is FALSE nobody edits a task that runs.
Ask(js) ==
    /\ server = "serving" /\ pc = "idle" /\ edits > 0 /\ js # <<>>
    /\ ~Overlap => \A i \in DOMAIN js : js[i].op \in {"update", "toggle", "delete"} => run[js[i].id] = None
    /\ jobs' = js /\ pc' = "check" /\ item' = None
    /\ edits' = edits - 1
    /\ UNCHANGED <<row, nextId, cron, file, cascade, stored, torn, server, faults, runs>>

Fresh == /\ known' = [n \in Names |-> None]
         /\ made' = [n \in Names |-> None]
         /\ flawed' = {}

Create(in)     == Fresh /\ Ask(<<[op |-> "create", input |-> in]>>)
Update(t, in)  == Fresh /\ Ask(<<[op |-> "update", id |-> t, input |-> in]>>)
BatchToggle(ids, on) ==
    Fresh /\ Ask([i \in DOMAIN ids |-> [op |-> "toggle", id |-> ids[i], on |-> on]])
BatchDeleteTasks(ids) ==
    Fresh /\ Ask([i \in DOMAIN ids |-> [op |-> "delete", id |-> ids[i]]])

\* A template is applied for several names.
Apply(in, names) ==
    Fresh /\ Ask([i \in DOMAIN names |-> [op |-> "create", input |-> [in EXCEPT !.name = names[i]]]])

\* What an export keeps of a row: no password, no mode, no node pool, and the
\* names of the dependencies instead of their ids.
toExported(r) ==
    [name |-> r.name, kind |-> r.kind, place |-> IF r.place = "pool" THEN "master" ELSE r.place,
     encrypt |-> r.encrypt, cron |-> r.cron, enabled |-> r.enabled, verify |-> r.verify,
     ups |-> {row[t].name : t \in r.deps \cap Existing}]

toUpsertInput(p, ups) ==
    [name |-> p.name, kind |-> p.kind, secret |-> FALSE, mode |-> "full", place |-> p.place,
     encrypt |-> p.encrypt, cron |-> p.cron, enabled |-> p.enabled, verify |-> p.verify,
     deps |-> ups, last |-> "idle"]

\* The file lists every task of this Master, in whatever order.
Export ==
    /\ server = "serving" /\ pc = "idle" /\ edits > 0
    /\ LET n     == Cardinality(Existing)
           order == CHOOSE f \in [1..n -> Existing] : \A i, j \in 1..n : i # j => f[i] # f[j]
       IN  file' = [i \in 1..n |-> toExported(row[order[i]])]
    /\ Fresh
    /\ edits' = edits - 1
    /\ UNCHANGED <<row, nextId, cron, jobs, pc, item, cascade, stored, torn, server, faults, runs>>

\* Import goes through the file twice: it creates the tasks whose names are new,
\* then links those it has created and that depend on others.
ImportJobs(f) ==
    LET n == Len(f)
    IN  [i \in 1 .. n + n |-> IF i <= n THEN [op |-> "import", from |-> f[i]]
                                        ELSE [op |-> "link", from |-> f[i - n]]]

Import ==
    LET old(n) == {t \in Existing : row[t].name = n}
    IN  /\ known' = [n \in Names |-> IF old(n) = {} THEN None ELSE CHOOSE t \in old(n) : TRUE]
        /\ made' = [n \in Names |-> None]
        /\ flawed' = {}
        /\ Ask(ImportJobs(file))

\* The first job is over; the next one begins whatever came of it.
Over == /\ jobs' = Tail(jobs)
        /\ pc' = IF Len(jobs) = 1 THEN "idle" ELSE "check"
        /\ item' = None
        /\ UNCHANGED <<file, known>>

\* Import marks the result of a task whose dependencies could not be stored.
Flaw == flawed' = IF Job.op = "link" THEN flawed \cup {Job.from.name} ELSE flawed

\* Mutant: the error of the second phase is dropped.
FlawLost == UNCHANGED flawed

Marked == Flaw

Refused == Over /\ Marked /\ UNCHANGED made

\* The names of a link, resolved with what exists or has been created meanwhile.
Linked(p) == {known[n] : n \in {m \in p.ups : known[m] # None}} \ {made[p.name]}

\* A job that has nothing to do ends without a change: a name that exists is not
\* created, a task that was not created, or has no dependencies that are known, is
\* not linked.
Pointless == \/ Job.op = "import" /\ known[Job.from.name] # None
             \/ Job.op = "link" /\ (made[Job.from.name] = None \/ Linked(Job.from) = {})

InputOf(j) == CASE j.op = "import" -> toUpsertInput(j.from, {})
                [] j.op = "link"   -> toUpsertInput(j.from, Linked(j.from))
                [] OTHER           -> j.input

\* Find, validate and build: the reads before anything is stored.
Acceptable ==
    LET t == Subject(Job) IN
    CASE Job.op \in Creating          -> /\ validateInput(None, None, InputOf(Job))
                                         /\ ~Taken(InputOf(Job).name, None)
      [] Job.op \in {"update", "link"} -> /\ row[t] # None
                                         /\ validateInput(t, row[t], InputOf(Job))
                                         /\ ~Taken(InputOf(Job).name, t)
      [] OTHER                        -> row[t] # None

Check ==
    /\ pc = "check" /\ ~Pointless /\ Acceptable
    /\ pc' = IF Job.op = "delete" THEN "unschedule" ELSE "save"
    /\ item' = CASE Job.op \in Upsert  -> buildTask(IF Job.op \in Creating THEN None ELSE row[Subject(Job)],
                                                    InputOf(Job))
                 [] Job.op = "toggle" -> [row[Job.id] EXCEPT !.enabled = Job.on]
                 [] OTHER             -> row[Job.id]
    /\ UNCHANGED <<row, nextId, cron, jobs, file, known, made, flawed, cascade, stored, torn, server, budget>>

Reject ==
    /\ pc = "check"
    /\ \/ Pointless /\ Over /\ UNCHANGED <<made, flawed>>
       \/ ~Pointless /\ ~Acceptable /\ Refused
    /\ UNCHANGED <<row, nextId, cron, cascade, stored, torn, server, budget>>

\* tasks.Create and tasks.Update: the row, then its join rows.
Save ==
    /\ pc = "save"
    /\ IF Job.op \in Creating
       THEN /\ nextId \in Tasks
            /\ row' = [row EXCEPT ![nextId] = item]
            /\ nextId' = nextId + 1
       ELSE /\ row' = [row EXCEPT ![Subject(Job)] = item]
            /\ UNCHANGED nextId
    /\ pc' = "sync"
    /\ UNCHANGED <<cron, jobs, item, file, known, made, flawed, cascade, stored, torn, server, budget>>

SaveFails ==
    /\ pc = "save" /\ Fault("db")
    /\ Refused
    /\ UNCHANGED <<row, nextId, cron, cascade, stored, torn, server>>

\* The row is stored and the join rows are not: the scheduler is not told.
AssocFails ==
    /\ pc = "sync" /\ Fault("assoc")
    /\ Refused
    /\ torn' = torn \cup {IF Job.op \in Creating THEN nextId - 1 ELSE Subject(Job)}
    /\ UNCHANGED <<row, nextId, cron, cascade, stored, server>>

\* SyncTask, and the answer.  Import notes what it has created.
Sync ==
    /\ pc = "sync"
    /\ LET t  == IF Job.op \in Creating THEN nextId - 1 ELSE Subject(Job)
           ok == ~(Schedulable(item) /\ item.cron = "broken")
       IN  /\ SyncTask(t, item)
           /\ jobs' = Tail(jobs)
           /\ pc' = IF Len(jobs) = 1 THEN "idle" ELSE "check"
           /\ item' = None
           /\ IF Job.op = "import" /\ ok
              THEN /\ made' = [made EXCEPT ![Job.from.name] = t]
                   /\ known' = [known EXCEPT ![Job.from.name] = t]
              ELSE UNCHANGED <<made, known>>
           /\ IF ok THEN UNCHANGED flawed ELSE Marked
    /\ UNCHANGED <<row, nextId, file, cascade, stored, server, budget>>

Unschedule ==
    /\ pc = "unschedule"
    /\ RemoveTask(Job.id)
    /\ pc' = "clean"
    /\ UNCHANGED <<row, nextId, jobs, item, file, known, made, flawed, cascade, stored, torn, server, budget>>

\* cleanupRemoteFiles does its best and stops nothing.
Clean ==
    /\ pc = "clean"
    /\ \/ stored' = stored \ {Job.id} /\ UNCHANGED <<torn, budget>>
       \/ Fault("storage") /\ torn' = torn \cup {Job.id} /\ UNCHANGED stored
    /\ pc' = "remove"
    /\ UNCHANGED <<row, nextId, cron, jobs, item, file, known, made, flawed, cascade, server>>

Remove ==
    /\ pc = "remove"
    /\ row' = [row EXCEPT ![Job.id] = None]
    /\ Over
    /\ UNCHANGED <<nextId, cron, made, flawed, cascade, stored, torn, server, budget>>

\* The row cannot be deleted: the schedule is put back from the row that was read.
RemoveFails ==
    /\ pc = "remove" /\ Fault("db")
    /\ RescheduleTask(Job.id, item)
    /\ Refused
    /\ UNCHANGED <<row, nextId, cascade, stored, server>>

RequestStep == Check \/ Reject \/ Save \/ Sync \/ Unschedule \/ Clean \/ Remove
RequestFails == SaveFails \/ AssocFails \/ RemoveFails

--------------------------------------------------------------------------------
(* Runs, and the dependents they trigger.                                     *)

Startable(t) == row[t] # None /\ run[t] = None /\ (~Overlap => t \notin InHand)

\* startTask saves the row with its new status and keeps a copy for the end.
Start(t) ==
    /\ server = "serving" /\ Startable(t)
    /\ row' = [row EXCEPT ![t].last = "running"]
    /\ run' = [run EXCEPT ![t] = [seen |-> row[t], outcome |-> "running"]]
    /\ UNCHANGED <<nextId, cron, request, hooks, stored, torn, server, faults, edits>>

\* The cron entry of a task fires.
Tick(t) == entries[t] # None /\ runs > 0 /\ runs' = runs - 1 /\ Start(t) /\ UNCHANGED due

\* Somebody starts a task by hand.
RunTaskByID(t) == runs > 0 /\ runs' = runs - 1 /\ Start(t) /\ UNCHANGED due

\* The artifact is uploaded: the dependents are triggered before the record and
\* the task are stored as successful.
Upload(t) ==
    /\ run[t] # None /\ run[t].outcome = "running"
    /\ run' = [run EXCEPT ![t].outcome = "success"]
    /\ hooks' = hooks \cup {t}
    /\ UNCHANGED <<row, nextId, cron, request, due, stored, torn, server, budget>>

UploadFails(t) ==
    /\ run[t] # None /\ run[t].outcome = "running"
    /\ run' = [run EXCEPT ![t].outcome = "failed"]
    /\ UNCHANGED <<row, nextId, cron, request, hooks, due, stored, torn, server, budget>>

\* finalizeRecord saves the whole row as it was read when the run started.
finalizeRecord(t) ==
    /\ run[t] # None /\ run[t].outcome # "running"
    /\ row' = [row EXCEPT ![t] = [run[t].seen EXCEPT !.last = run[t].outcome]]
    /\ run' = [run EXCEPT ![t] = None]
    /\ stored' = IF run[t].outcome = "success" THEN stored \cup {t} ELSE stored
    /\ UNCHANGED <<nextId, cron, request, hooks, due, torn, server, budget>>

TriggerDependents(t) ==
    /\ t \in hooks
    /\ hooks' = hooks \ {t}
    /\ due' = due \cup {d \in Existing : row[d].enabled /\ t \in row[d].deps}
    /\ UNCHANGED <<row, nextId, cron, request, run, stored, torn, server, budget>>

\* RunTaskByID of a dependent: it starts, or is refused because it is gone or runs.
StartDependent(d) ==
    /\ d \in due
    /\ due' = due \ {d}
    /\ Start(d)
    /\ UNCHANGED runs

SkipDependent(d) ==
    /\ d \in due /\ (row[d] = None \/ run[d] # None)
    /\ due' = due \ {d}
    /\ UNCHANGED <<row, nextId, cron, request, run, hooks, stored, torn, server, budget>>

RunStep(t) == \/ Upload(t) \/ UploadFails(t) \/ finalizeRecord(t)
              \/ TriggerDependents(t) \/ StartDependent(t) \/ SkipDependent(t)

--------------------------------------------------------------------------------
(* The Master dies and starts again.                                          *)

Crash ==
    /\ server = "serving" /\ Fault("crash")
    /\ server' = "down"
    /\ entries' = [t \in Tasks |-> None] /\ verifies' = [t \in Tasks |-> None]
    /\ jobs' = <<>> /\ pc' = "idle" /\ item' = None /\ Fresh
    /\ run' = [t \in Tasks |-> None] /\ hooks' = {} /\ due' = {}
    /\ UNCHANGED <<row, nextId, file, stored, torn>>

\* reconcileInterruptedOperations closes what ran; Reload schedules every row and
\* gives up at the first expression that does not parse: Run returns the error.
Startup ==
    /\ server = "down"
    /\ row' = [t \in Tasks |-> IF row[t] # None /\ row[t].last = "running"
                               THEN [row[t] EXCEPT !.last = "failed"] ELSE row[t]]
    /\ IF \E t \in Tasks : Schedulable(row[t]) /\ row[t].cron = "broken"
       THEN /\ server' = "refused"
            /\ UNCHANGED <<cron, torn>>
       ELSE /\ server' = "serving"
            /\ entries' = [t \in Tasks |-> IF Schedulable(row[t]) THEN row[t].cron ELSE None]
            /\ verifies' = [t \in Tasks |-> IF VerifySchedulable(row[t]) THEN row[t].verify ELSE None]
            /\ torn' = torn \cap {t \in Tasks : row[t] = None}
    /\ UNCHANGED <<nextId, request, cascade, stored, budget>>

TasksNext ==
    \/ \E in \in Inputs : Create(in) \/ \E t \in Tasks : Update(t, in)
    \/ \E ids \in Batches : BatchDeleteTasks(ids) \/ \E on \in BOOLEAN : BatchToggle(ids, on)
    \/ \E in \in Inputs, names \in NameLists : Apply(in, names)
    \/ Export \/ Import
    \/ RequestStep \/ RequestFails
    \/ \E t \in Tasks : Tick(t) \/ RunTaskByID(t) \/ RunStep(t)
    \/ Crash \/ Startup

TasksSpec == TasksInit /\ [][TasksNext]_vars

\* Handlers, runs and their hooks are goroutines that nothing holds up for ever.
FairTasksSpec ==
    /\ TasksSpec
    /\ WF_vars(RequestStep)
    /\ \A t \in Tasks : /\ WF_vars(Upload(t) \/ UploadFails(t) \/ finalizeRecord(t))
                        /\ WF_vars(TriggerDependents(t))
                        /\ WF_vars(StartDependent(t) \/ SkipDependent(t))

--------------------------------------------------------------------------------
(* Properties.                                                                *)

\* What the scheduler runs is what the rows say: outside the requests in hand, and
\* but for tasks on which a call reported an error after it had stored something,
\* a task has the entries of its row, a deleted one has none, and none of the
\* backups its records named (SyncTask, RemoveTask and Reload against the rows).
ScheduleFollowsRows ==
    server = "serving" =>
        \A t \in Tasks \ (torn \cup InHand) :
            /\ entries[t] = IF Schedulable(row[t]) THEN row[t].cron ELSE None
            /\ verifies[t] = IF VerifySchedulable(row[t]) THEN row[t].verify ELSE None
            /\ row[t] = None => t \notin stored

\* An imported task that is not reported as flawed depends on the tasks its file
\* names, those created by the same import included (the two phases of Import).
ImportLinks ==
    pc = "idle" =>
        \A i \in DOMAIN file :
            LET p == file[i] IN
            made[p.name] # None /\ p.name \notin flawed => row[made[p.name]].deps = Linked(p)

\* One start never triggers runs for ever: the dependencies have no cycle a
\* cascade could follow, whatever is edited while it goes on (hasCyclicDependency
\* against TriggerDependents).
CascadeEnds == []<>(due = {} /\ hooks = {} /\ \A t \in Tasks : run[t] = None)

\* The Master starts again with whatever rows its own calls have stored.
StartsAgain == server # "refused"
================================================================================
