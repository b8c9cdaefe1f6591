--------------------------- MODULE TaskCatalogProofs ---------------------------
(* The scheduler follows the rows, and an import links what it has created,   *)
(* for any tasks, requests, batches, files, runs and faults, where no run and *)
(* no request on one task overlap (Overlap = FALSE: with an overlap the row   *)
(* that finalizeRecord writes back undoes an edit, and neither holds).  The   *)
(* invariant says what the request in hand has done and has still to do: the  *)
(* row it holds is the row that is stored, and only its task may differ from  *)
(* what the scheduler has (Behind); a run holds the row of a task nobody      *)
(* works on (RunsInv); the jobs of an import that are left say which of its   *)
(* tasks are linked (LinkedBy).                                               *)
EXTENDS TaskCatalog, FiniteSetTheorems, SequenceTheorems, TLAPS

(* No id and no row is None.                                                  *)
LEMMA Apart == None \notin Rows /\ None \notin Tasks /\ Tasks \subseteq Nat /\ 1 \in Tasks
  BY TasksAssumption, RowsAssumption

--------------------------------------------------------------------------------
(* Types.                                                                     *)
JobRecords ==
    UNION {[op : {"create"}, input : Rows],
           [op : {"update"}, id : Tasks, input : Rows],
           [op : {"toggle"}, id : Tasks, on : BOOLEAN],
           [op : {"delete"}, id : Tasks],
           [op : {"import", "link"}, from : Exported]}
RunRecords == [seen : Rows, outcome : {"running", "success", "failed"}]

TasksTypeOK ==
    /\ row \in [Tasks -> Rows \cup {None}]
    /\ nextId \in Nat \ {0, 1}
    /\ entries \in [Tasks -> Crons \cup {None}]
    /\ verifies \in [Tasks -> {"", "weekly", None}]
    /\ jobs \in Seq(JobRecords)
    /\ pc \in {"idle", "check", "save", "sync", "unschedule", "clean", "remove"}
    /\ item \in Rows \cup {None}
    /\ file \in Seq(Exported)
    /\ known \in [Names -> Tasks \cup {None}]
    /\ made \in [Names -> Tasks \cup {None}]
    /\ flawed \subseteq Names
    /\ run \in [Tasks -> RunRecords \cup {None}]
    /\ hooks \subseteq Tasks /\ due \subseteq Tasks
    /\ stored \subseteq Tasks /\ torn \subseteq Tasks
    /\ server \in {"serving", "down", "refused"}

(* The request in hand: the task of its first job, what it read of it and     *)
(* what it has done to it.                                                    *)
Target == IF Job.op \in Creating THEN nextId - 1 ELSE Subject(Job)

RequestInv ==
    /\ pc = "idle" <=> jobs = <<>>
    /\ pc \in {"unschedule", "clean", "remove"} => Job.op = "delete" /\ row[Job.id] = item /\ item # None
    /\ pc \in {"save", "sync"} =>
         /\ Job.op # "delete" /\ item # None
         /\ Job.op \notin Creating => Target \in Tasks /\ row[Target] # None
    /\ pc = "sync" => Target \in Tasks /\ row[Target] = item

(* A Master that is down does nothing.                                        *)
DownInv == server # "serving" => pc = "idle" /\ \A t \in Tasks : run[t] = None

(* Ids are given once, names as well.                                         *)
IdsInv ==
    /\ \A t \in Tasks : t >= nextId => row[t] = None
    /\ \A n \in Names : made[n] # None => made[n] < IF pc = "sync" /\ Job.op \in Creating THEN nextId - 1 ELSE nextId
    /\ \A t, u \in Existing : row[t].name = row[u].name => t = u
    /\ pc = "save" => \A t \in Existing : row[t].name = item.name => Job.op \notin Creating /\ t = Target

(* A run holds the row of its task, but for the outcome of the last run, and  *)
(* nobody works on the task.                                                  *)
Like(r, s) == r = [s EXCEPT !.last = r.last]
RunsInv == \A t \in Tasks : run[t] # None => t \notin InHand /\ row[t] # None /\ Like(row[t], run[t].seen)

(* The scheduler follows the rows but for the task whose row has just been    *)
(* saved, and the one that is about to be deleted.                            *)
Follows(t) ==
    /\ entries[t] = IF Schedulable(row[t]) THEN row[t].cron ELSE None
    /\ verifies[t] = IF VerifySchedulable(row[t]) THEN row[t].verify ELSE None
Behind == IF pc \in {"sync", "clean", "remove"} THEN {Target} ELSE {}
CronInv ==
    /\ server = "serving" => \A t \in Tasks \ (torn \cup Behind) : Follows(t)
    /\ pc \in {"clean", "remove"} => entries[Job.id] = None /\ verifies[Job.id] = None
    /\ pc = "remove" => Job.id \in torn \/ Job.id \notin stored
    /\ \A t \in Tasks \ torn : row[t] = None => t \notin stored

CatalogInv == TasksTypeOK /\ RequestInv /\ DownInv /\ IdsInv /\ RunsInv /\ CronInv

(* How far an import is: its jobs are the end of the list it began with, and  *)
(* the task made for the i-th name is linked when only n - i jobs are left.   *)
Importing == jobs # <<>> /\ Job.op \in {"import", "link"}
LinkedBy(i) == Len(jobs) <= Len(file) - i \/ (pc = "sync" /\ Len(jobs) = Len(file) - i + 1)
Depends(i) ==
    LET p == file[i] IN
    made[p.name] # None /\ p.name \notin flawed =>
       /\ row[made[p.name]] # None
       /\ row[made[p.name]].deps = IF LinkedBy(i) THEN Linked(p) ELSE {}
ImportInv ==
    /\ \A i, j \in DOMAIN file : file[i].name = file[j].name => i = j
    /\ Importing => /\ Len(jobs) <= Len(file) + Len(file)
                    /\ \A i \in DOMAIN jobs : jobs[i] = ImportJobs(file)[Len(file) + Len(file) - Len(jobs) + i]
    /\ jobs # <<>> /\ ~Importing =>
         /\ \A i \in DOMAIN jobs : jobs[i].op \notin {"import", "link"}
         /\ \A n \in Names : made[n] = None
    /\ \A m, n \in Names : made[m] = made[n] /\ made[m] # None => m = n
    /\ pc \in {"save", "sync"} =>
         /\ Job.op = "import" => item.deps = {}
         /\ Job.op = "link" => item.deps = Linked(Job.from)
    /\ \A i \in DOMAIN file : Depends(i)
LEMMA JobShape ==
    ASSUME NEW j \in JobRecords
    PROVE  /\ j.op \in {"create", "import", "update", "link", "toggle", "delete"}
           /\ j.op = "create" => j = [op |-> "create", input |-> j.input] /\ j.input \in Rows
           /\ j.op = "update" => j.id \in Tasks /\ j.input \in Rows
           /\ j.op = "toggle" => j.id \in Tasks /\ j.on \in BOOLEAN
           /\ j.op = "delete" => j.id \in Tasks
           /\ j.op \in {"import", "link"} => j = [op |-> j.op, from |-> j.from] /\ j.from \in Exported
  BY DEF JobRecords

LEMMA JobInHand ==
    ASSUME TasksTypeOK, jobs # <<>>
    PROVE  /\ Job \in JobRecords /\ Job = jobs[1] /\ 1 \in DOMAIN jobs
           /\ Tail(jobs) \in Seq(JobRecords) /\ Len(Tail(jobs)) = Len(jobs) - 1 /\ Len(jobs) \in Nat \ {0}
           /\ \A i \in DOMAIN Tail(jobs) : Tail(jobs)[i] = jobs[i + 1] /\ i + 1 \in DOMAIN jobs
           /\ Len(jobs) = 1 <=> Tail(jobs) = <<>>
<1>0. jobs \in Seq(JobRecords)
  BY DEF TasksTypeOK
<1>1. Len(jobs) \in Nat \ {0} /\ DOMAIN jobs = 1 .. Len(jobs)
  BY <1>0, EmptySeq, LenProperties
<1>2. Job = jobs[1] /\ Job \in JobRecords /\ 1 \in DOMAIN jobs
  BY <1>0, <1>1 DEF Job
<1>3. Tail(jobs) \in Seq(JobRecords) /\ Len(Tail(jobs)) = Len(jobs) - 1
  BY <1>0, HeadTailProperties
<1>4. ASSUME NEW i \in DOMAIN Tail(jobs) PROVE Tail(jobs)[i] = jobs[i + 1] /\ i + 1 \in DOMAIN jobs
  BY <1>0, <1>1, <1>3
<1>5. Len(jobs) = 1 <=> Tail(jobs) = <<>>
  <2>1. Tail(jobs) # <<>> => Len(Tail(jobs)) \in Nat \ {0}
    BY <1>3, EmptySeq
  <2>2. Tail(jobs) = <<>> => Len(Tail(jobs)) = 0
    BY EmptySeq
  <2> QED BY <1>1, <1>3, <2>1, <2>2
<1> QED BY <1>0, <1>1, <1>2, <1>3, <1>4, <1>5

LEMMA UpsertTyped ==
    ASSUME NEW p \in Exported, NEW ups \in SUBSET Tasks
    PROVE  /\ toUpsertInput(p, ups) \in Rows
           /\ toUpsertInput(p, ups).deps = ups /\ toUpsertInput(p, ups).name = p.name
           /\ toUpsertInput(p, ups).cron = p.cron /\ toUpsertInput(p, ups).enabled = p.enabled
  BY DEF toUpsertInput, Exported, Rows

LEMMA LinkedTyped ==
    ASSUME TasksTypeOK, NEW p \in Exported
    PROVE  Linked(p) \in SUBSET Tasks
<1>1. \A n \in p.ups : known[n] \in Tasks \cup {None}
  BY DEF TasksTypeOK, Exported
<1>2. ASSUME NEW n \in {m \in p.ups : known[m] # None} PROVE known[n] \in Tasks
  BY <1>1
<1> QED BY <1>2 DEF Linked

LEMMA InputTyped ==
    ASSUME TasksTypeOK, NEW j \in JobRecords, j.op \in Upsert
    PROVE  InputOf(j) \in Rows
<1>1. CASE j.op \in {"create", "update"}
  BY <1>1, JobShape DEF InputOf
<1>2. CASE j.op = "import"
  <2>1. j.from \in Exported
    BY <1>2, JobShape
  <2>2. InputOf(j) = toUpsertInput(j.from, {})
    BY <1>2 DEF InputOf
  <2> QED BY <2>1, <2>2, UpsertTyped
<1>3. CASE j.op = "link"
  <2>1. j.from \in Exported
    BY <1>3, JobShape
  <2>2. InputOf(j) = toUpsertInput(j.from, Linked(j.from))
    BY <1>3 DEF InputOf
  <2> QED BY <2>1, <2>2, UpsertTyped, LinkedTyped
<1> QED BY <1>1, <1>2, <1>3 DEF Upsert, Creating

LEMMA BuiltTyped ==
    ASSUME NEW existing \in Rows \cup {None}, NEW in \in Rows
    PROVE  /\ buildTask(existing, in) \in Rows
           /\ buildTask(existing, in).deps = in.deps
           /\ buildTask(existing, in).name = in.name
           /\ buildTask(existing, in).cron = in.cron
           /\ buildTask(existing, in).enabled = in.enabled
<1>1. normalizeBackupMode(in.mode, in.kind) \in {"full", "repository"}
  BY DEF normalizeBackupMode, Rows
<1>2. (in.secret \/ (existing # None /\ existing.secret)) \in BOOLEAN
  BY DEF Rows
<1>3. (IF existing = None THEN "idle" ELSE existing.last) \in {"idle", "running", "success", "failed"}
  BY DEF Rows
<1> QED BY <1>1, <1>2, <1>3 DEF buildTask, Rows

(* The task of a job, when it has one.                                        *)
LEMMA SubjectTyped ==
    ASSUME TasksTypeOK, NEW j \in JobRecords
    PROVE  /\ Subject(j) \in Tasks \cup {None}
           /\ j.op \in {"update", "toggle", "delete"} => Subject(j) = j.id /\ j.id \in Tasks
           /\ j.op \in Creating => Subject(j) = None
           /\ j.op = "link" => Subject(j) = made[j.from.name] /\ j.from.name \in Names
<1>1. CASE j.op \in {"update", "toggle", "delete"}
  BY <1>1, JobShape DEF Subject, Creating
<1>2. CASE j.op \in Creating
  BY <1>2 DEF Subject, Creating
<1>3. CASE j.op = "link"
  <2>1. j.from.name \in Names
    BY <1>3, JobShape DEF Exported
  <2> QED BY <1>3, <2>1 DEF Subject, Creating, TasksTypeOK
<1> QED BY <1>1, <1>2, <1>3, JobShape DEF Creating

LEMMA TargetHand ==
    ASSUME TasksTypeOK, RequestInv, pc \in {"save", "sync", "unschedule", "clean", "remove"}
    PROVE  /\ jobs # <<>> /\ Job \in JobRecords
           /\ Job.op \notin Creating => Target = Subject(Job) /\ Target \in Tasks /\ row[Target] # None /\ Target \in InHand
           /\ pc # "save" => Target \in Tasks /\ row[Target] = item /\ item \in Rows /\ Target \in InHand
           /\ Job.op = "delete" => Target = Job.id
           /\ item \in Rows
<1>1. jobs # <<>> /\ Job \in JobRecords /\ Job = jobs[1] /\ 1 \in DOMAIN jobs
  BY JobInHand DEF RequestInv
<1>2. item \in Rows
  BY DEF RequestInv, TasksTypeOK
<1>3. Job.op \notin Creating => Target = Subject(Job) /\ Target \in InHand
  BY <1>1 DEF Target, InHand
<1>4. pc = "sync" /\ Job.op \in Creating => Target \in InHand
  BY DEF Target, InHand
<1>5. pc \in {"unschedule", "clean", "remove"} => Job.op = "delete"
  BY DEF RequestInv
<1>6. Job.op = "delete" => Target = Job.id /\ Job.id \in Tasks /\ Job.op \notin Creating
  BY <1>1, SubjectTyped DEF Target, Creating
<1>7. Job.op \notin Creating => Target \in Tasks /\ row[Target] # None
  BY <1>2, <1>5, <1>6 DEF RequestInv
<1>8. pc # "save" => Target \in Tasks /\ row[Target] = item
  BY <1>5, <1>6 DEF RequestInv
<1>9. pc # "save" => Target \in InHand
  BY <1>3, <1>4, <1>5, <1>6
<1> QED BY <1>1, <1>2, <1>3, <1>6, <1>7, <1>8, <1>9

--------------------------------------------------------------------------------
(* Runs change nothing of a row that the others look at, and no row that a    *)
(* request works on.                                                          *)
LEMMA LikeFields ==
    ASSUME NEW r \in Rows, NEW s \in Rows, Like(r, s)
    PROVE  /\ r.name = s.name /\ r.enabled = s.enabled /\ r.cron = s.cron /\ r.verify = s.verify
           /\ r.deps = s.deps
           /\ Schedulable(r) <=> Schedulable(s)
           /\ VerifySchedulable(r) <=> VerifySchedulable(s)
  BY Apart DEF Like, Rows, Schedulable, VerifySchedulable

LEMMA SameTarget ==
    ASSUME UNCHANGED <<request, nextId>>
    PROVE  /\ Job' = Job /\ Target' = Target /\ InHand' = InHand /\ Behind' = Behind
           /\ jobs' = jobs /\ pc' = pc /\ item' = item /\ made' = made
<1>1. jobs' = jobs /\ pc' = pc /\ item' = item /\ made' = made /\ nextId' = nextId
  BY DEF request
<1>2. Job' = Job
  BY <1>1 DEF Job
<1>3. Target' = Target
  BY <1>1, <1>2 DEF Target, Subject
<1>4. InHand' = InHand
  BY <1>1, <1>2 DEF InHand, Subject
<1> QED BY <1>1, <1>2, <1>3, <1>4 DEF Behind

LEMMA RowTouched ==
    ASSUME CatalogInv, NEW t \in Tasks, t \notin InHand, row[t] # None,
           NEW r \in Rows, Like(r, row[t]), row' = [row EXCEPT ![t] = r],
           UNCHANGED <<request, nextId, cron, torn, server>>,
           stored' \in {stored, stored \cup {t}}
    PROVE  /\ RequestInv' /\ IdsInv' /\ CronInv'
           /\ row' \in [Tasks -> Rows \cup {None}]
           /\ \A u \in Tasks : u # t => row'[u] = row[u]
           /\ row'[t] = r /\ r # None
           /\ InHand' = InHand
<1>1. /\ row \in [Tasks -> Rows \cup {None}] /\ row[t] \in Rows
      /\ row' \in [Tasks -> Rows \cup {None}]
      /\ row'[t] = r /\ r # None
      /\ \A u \in Tasks : u # t => row'[u] = row[u]
  <2>1. row \in [Tasks -> Rows \cup {None}]
    BY DEF CatalogInv, TasksTypeOK
  <2> QED BY <2>1, Apart
<1>2. /\ Job' = Job /\ Target' = Target /\ InHand' = InHand /\ Behind' = Behind
      /\ jobs' = jobs /\ pc' = pc /\ item' = item /\ made' = made /\ nextId' = nextId
      /\ entries' = entries /\ verifies' = verifies /\ torn' = torn /\ server' = server
  BY SameTarget DEF cron
<1>3. /\ r.name = row[t].name /\ r.cron = row[t].cron /\ r.verify = row[t].verify
      /\ Schedulable(r) <=> Schedulable(row[t])
      /\ VerifySchedulable(r) <=> VerifySchedulable(row[t])
  BY <1>1, LikeFields
<1>4. ASSUME pc \in {"save", "sync", "unschedule", "clean", "remove"}
      PROVE  /\ Job.op \notin Creating \/ pc # "save" => Target # t
             /\ Job.op = "delete" => Job.id # t /\ Job.id \in Tasks
             /\ Job.op \notin Creating => Target \in Tasks
  <2>1. TasksTypeOK /\ RequestInv
    BY DEF CatalogInv
  <2>2. Job.op = "delete" => Target \in InHand /\ Target = Job.id /\ Target \in Tasks
    BY <1>4, <2>1, TargetHand DEF Creating
  <2>3. Job.op \notin Creating \/ pc # "save" => Target \in InHand
    BY <1>4, <2>1, TargetHand
  <2>4. Job.op \notin Creating => Target \in Tasks
    BY <1>4, <2>1, TargetHand
  <2> QED BY <2>2, <2>3, <2>4
<1>5. RequestInv'
  <2>1. pc \in {"unschedule", "clean", "remove"} => Job.op = "delete" /\ row'[Job.id] = item /\ item # None
    BY <1>1, <1>4 DEF CatalogInv, RequestInv
  <2>2. pc \in {"save", "sync"} =>
         /\ Job.op # "delete" /\ item # None
         /\ Job.op \notin Creating => Target \in Tasks /\ row'[Target] # None
    BY <1>1, <1>4 DEF CatalogInv, RequestInv
  <2>3. pc = "sync" => Target \in Tasks /\ row'[Target] = item
    BY <1>1, <1>4 DEF CatalogInv, RequestInv
  <2> QED BY <1>2, <2>1, <2>2, <2>3 DEF CatalogInv, RequestInv
<1>6. Existing' = Existing /\ \A u \in Existing : row'[u].name = row[u].name
  BY <1>1, <1>3 DEF Existing
<1>7. IdsInv'
  <2>1. \A u \in Tasks : u >= nextId => row'[u] = None
    BY <1>1 DEF CatalogInv, IdsInv
  <2>2. \A u, v \in Existing : row'[u].name = row'[v].name => u = v
    BY <1>6 DEF CatalogInv, IdsInv
  <2>3. pc = "save" => \A u \in Existing : row'[u].name = item.name => Job.op \notin Creating /\ u = Target
    BY <1>6 DEF CatalogInv, IdsInv
  <2> QED BY <1>2, <1>6, <2>1, <2>2, <2>3 DEF CatalogInv, IdsInv
<1>8. CronInv'
  <2>1. \A u \in Tasks : Follows(u) => Follows(u)'
    BY <1>1, <1>2, <1>3 DEF Follows
  <2>2. ASSUME NEW u \in Tasks \ torn, row'[u] = None PROVE u \notin stored'
    BY <1>1, <2>2 DEF CatalogInv, CronInv
  <2>3. pc = "remove" => Job.id \in torn \/ Job.id \notin stored'
    BY <1>4 DEF CatalogInv, CronInv, RequestInv
  <2> QED BY <1>2, <2>1, <2>2, <2>3 DEF CatalogInv, CronInv
<1> QED BY <1>1, <1>2, <1>5, <1>7, <1>8

(* Steps that touch neither rows nor the request.                             *)
LEMMA RowsKept ==
    ASSUME CatalogInv, UNCHANGED <<row, request, nextId, cron, torn, stored, server>>
    PROVE  RequestInv' /\ IdsInv' /\ CronInv' /\ InHand' = InHand
<1>1. /\ Job' = Job /\ Target' = Target /\ InHand' = InHand /\ Behind' = Behind
      /\ jobs' = jobs /\ pc' = pc /\ item' = item /\ made' = made /\ nextId' = nextId
      /\ entries' = entries /\ verifies' = verifies /\ torn' = torn /\ server' = server
      /\ row' = row /\ stored' = stored
  BY SameTarget DEF cron
<1>2. RequestInv'
  BY <1>1 DEF CatalogInv, RequestInv
<1>3. IdsInv'
  BY <1>1 DEF CatalogInv, IdsInv, Existing
<1>4. CronInv'
  BY <1>1 DEF CatalogInv, CronInv, Follows
<1> QED BY <1>1, <1>2, <1>3, <1>4

(* Types that a step of a run leaves alone.                                   *)
LEMMA RunTypes ==
    ASSUME CatalogInv, UNCHANGED <<request, nextId, cron, torn, server>>,
           row' \in [Tasks -> Rows \cup {None}],
           run' \in [Tasks -> RunRecords \cup {None}],
           hooks' \subseteq Tasks, due' \subseteq Tasks, stored' \subseteq Tasks
    PROVE  TasksTypeOK'
  BY DEF CatalogInv, TasksTypeOK, request, cron

LEMMA StartKeeps ==
    ASSUME CatalogInv, Overlap = FALSE, NEW t \in Tasks, Start(t), due' \subseteq Tasks
    PROVE  CatalogInv'
<1>1. /\ server = "serving" /\ row[t] # None /\ run[t] = None /\ t \notin InHand
      /\ row' = [row EXCEPT ![t].last = "running"]
      /\ run' = [run EXCEPT ![t] = [seen |-> row[t], outcome |-> "running"]]
      /\ UNCHANGED <<nextId, cron, request, hooks, stored, torn, server>>
  BY DEF Start, Startable
<1> DEFINE r == [row[t] EXCEPT !.last = "running"]
<1>2. /\ row \in [Tasks -> Rows \cup {None}] /\ row[t] \in Rows
      /\ run \in [Tasks -> RunRecords \cup {None}] /\ hooks \subseteq Tasks /\ stored \subseteq Tasks
  BY <1>1, Apart DEF CatalogInv, TasksTypeOK
<1>3. r \in Rows /\ Like(r, row[t]) /\ row' = [row EXCEPT ![t] = r]
  BY <1>1, <1>2 DEF Rows, Like
<1>4. run'[t].seen = row[t] /\ run' \in [Tasks -> RunRecords \cup {None}]
      /\ \A u \in Tasks : u # t => run'[u] = run[u]
  BY <1>1, <1>2 DEF RunRecords
<1> HIDE DEF r
<1>5. /\ RequestInv' /\ IdsInv' /\ CronInv'
      /\ row' \in [Tasks -> Rows \cup {None}]
      /\ \A u \in Tasks : u # t => row'[u] = row[u]
      /\ row'[t] = r /\ r # None
      /\ InHand' = InHand
  BY <1>1, <1>3, RowTouched
<1>6. RunsInv'
  BY <1>1, <1>3, <1>4, <1>5 DEF CatalogInv, RunsInv
<1>7. TasksTypeOK'
  BY <1>1, <1>2, <1>4, <1>5, RunTypes
<1>8. DownInv'
  BY <1>1 DEF DownInv
<1> QED BY <1>5, <1>6, <1>7, <1>8 DEF CatalogInv

LEMMA FinalizeKeeps ==
    ASSUME CatalogInv, NEW t \in Tasks, finalizeRecord(t)
    PROVE  CatalogInv'
<1>1. /\ run[t] # None
      /\ row' = [row EXCEPT ![t] = [run[t].seen EXCEPT !.last = run[t].outcome]]
      /\ run' = [run EXCEPT ![t] = None]
      /\ stored' = IF run[t].outcome = "success" THEN stored \cup {t} ELSE stored
      /\ UNCHANGED <<nextId, cron, request, hooks, due, torn, server>>
  BY DEF finalizeRecord
<1> DEFINE r == [run[t].seen EXCEPT !.last = run[t].outcome]
<1>2. /\ row \in [Tasks -> Rows \cup {None}]
      /\ run \in [Tasks -> RunRecords \cup {None}] /\ hooks \subseteq Tasks /\ due \subseteq Tasks /\ stored \subseteq Tasks
      /\ run[t] \in RunRecords
  BY <1>1 DEF CatalogInv, TasksTypeOK
<1>3. t \notin InHand /\ row[t] # None /\ Like(row[t], run[t].seen) /\ row[t] \in Rows
  BY <1>1, <1>2 DEF CatalogInv, RunsInv
<1>4. run[t].seen \in Rows /\ run[t].outcome \in {"idle", "running", "success", "failed"}
  BY <1>2 DEF RunRecords
<1>5. r \in Rows
  BY <1>4 DEF Rows
<1>6. Like(r, row[t])
  <2>1. row[t] = [run[t].seen EXCEPT !.last = row[t].last]
    BY <1>3 DEF Like
  <2>2. r = [row[t] EXCEPT !.last = run[t].outcome] /\ r.last = run[t].outcome
    BY <1>3, <1>4, <2>1 DEF Rows
  <2> QED BY <2>2 DEF Like
<1>7. run' \in [Tasks -> RunRecords \cup {None}] /\ run'[t] = None
      /\ \A u \in Tasks : u # t => run'[u] = run[u]
  BY <1>1, <1>2
<1>8. row' = [row EXCEPT ![t] = r] /\ stored' \in {stored, stored \cup {t}}
  BY <1>1
<1> HIDE DEF r
<1>9. /\ RequestInv' /\ IdsInv' /\ CronInv'
      /\ row' \in [Tasks -> Rows \cup {None}]
      /\ \A u \in Tasks : u # t => row'[u] = row[u]
      /\ row'[t] = r /\ r # None
      /\ InHand' = InHand
  BY <1>1, <1>3, <1>5, <1>6, <1>8, RowTouched
<1>10. RunsInv'
  BY <1>7, <1>9 DEF CatalogInv, RunsInv
<1>11. TasksTypeOK'
  BY <1>1, <1>2, <1>7, <1>8, <1>9, RunTypes
<1>12. DownInv'
  BY <1>1, <1>7 DEF DownInv, CatalogInv, request
<1> QED BY <1>9, <1>10, <1>11, <1>12 DEF CatalogInv

LEMMA RunMoves ==
    ASSUME CatalogInv, UNCHANGED <<row, request, nextId, cron, torn, stored, server>>,
           hooks' \subseteq Tasks, due' \subseteq Tasks,
           \/ run' = run
           \/ \E t \in Tasks, o \in {"success", "failed"} : run[t] # None /\ run' = [run EXCEPT ![t].outcome = o]
    PROVE  CatalogInv'
<1>1. RequestInv' /\ IdsInv' /\ CronInv' /\ InHand' = InHand
  BY RowsKept
<1>2. /\ run' \in [Tasks -> RunRecords \cup {None}]
      /\ \A t \in Tasks : run'[t] # None => run[t] # None /\ run'[t].seen = run[t].seen
  <2>1. run \in [Tasks -> RunRecords \cup {None}] /\ row \in [Tasks -> Rows \cup {None}]
    BY DEF CatalogInv, TasksTypeOK
  <2>2. CASE run' = run
    BY <2>1, <2>2
  <2>3. ASSUME NEW t \in Tasks, NEW o \in {"success", "failed"}, run[t] # None, run' = [run EXCEPT ![t].outcome = o]
        PROVE  <1>2!:
    <3>1. run[t] \in RunRecords
      BY <2>1, <2>3
    <3>2. [run[t] EXCEPT !.outcome = o] \in RunRecords /\ [run[t] EXCEPT !.outcome = o].seen = run[t].seen
      BY <3>1 DEF RunRecords
    <3> QED BY <2>1, <2>3, <3>1, <3>2
  <2> QED BY <2>2, <2>3
<1>3. RunsInv'
  BY <1>1, <1>2 DEF CatalogInv, RunsInv
<1>4. TasksTypeOK'
  <2>1. row' \in [Tasks -> Rows \cup {None}] /\ stored' \subseteq Tasks
    BY DEF CatalogInv, TasksTypeOK
  <2> QED BY <1>2, <2>1, RunTypes
<1>5. DownInv'
  BY <1>2 DEF DownInv, CatalogInv, request
<1> QED BY <1>1, <1>3, <1>4, <1>5 DEF CatalogInv

LEMMA RunStepKeeps ==
    ASSUME CatalogInv, Overlap = FALSE, NEW t \in Tasks, Tick(t) \/ RunTaskByID(t) \/ RunStep(t)
    PROVE  CatalogInv'
<1>1. hooks \subseteq Tasks /\ due \subseteq Tasks
  BY DEF CatalogInv, TasksTypeOK
<1>2. CASE Tick(t) \/ RunTaskByID(t)
  <2>1. Start(t) /\ due' = due
    BY <1>2 DEF Tick, RunTaskByID
  <2> QED BY <1>1, <2>1, StartKeeps
<1>3. CASE StartDependent(t)
  <2>1. Start(t) /\ due' = due \ {t}
    BY <1>3 DEF StartDependent
  <2>2. due' \subseteq Tasks
    BY <1>1, <2>1
  <2> QED BY <2>1, <2>2, StartKeeps
<1>4. CASE finalizeRecord(t)
  BY <1>4, FinalizeKeeps
<1>5. CASE Upload(t) \/ UploadFails(t)
  <2>1. /\ UNCHANGED <<row, request, nextId, cron, torn, stored, server>>
        /\ hooks' \subseteq Tasks /\ due' = due
        /\ \E o \in {"success", "failed"} : run[t] # None /\ run' = [run EXCEPT ![t].outcome = o]
    BY <1>1, <1>5 DEF Upload, UploadFails
  <2>2. due' \subseteq Tasks
    BY <1>1, <2>1
  <2> QED BY <2>1, <2>2, RunMoves
<1>6. CASE TriggerDependents(t) \/ SkipDependent(t)
  <2>1. /\ UNCHANGED <<row, request, nextId, cron, torn, stored, server>>
        /\ hooks' \subseteq Tasks /\ due' \subseteq Tasks /\ run' = run
    BY <1>1, <1>6 DEF TriggerDependents, SkipDependent, Existing
  <2> QED BY <2>1, RunMoves
<1> QED BY <1>2, <1>3, <1>4, <1>5, <1>6 DEF RunStep

--------------------------------------------------------------------------------
(* A request arrives: it has tasks in hand that do not run.                   *)
LEMMA SeqOfFunction ==
    ASSUME NEW S, NEW n \in Nat, NEW f \in [1 .. n -> S]
    PROVE  f \in Seq(S) /\ Len(f) = n /\ DOMAIN f = 1 .. n
  OBVIOUS

LEMMA AskKeeps ==
    ASSUME CatalogInv, Overlap = FALSE, NEW js \in Seq(JobRecords), Ask(js),
           made' = [n \in Names |-> None], known' \in [Names -> Tasks \cup {None}], flawed' = {}
    PROVE  CatalogInv'
<1>1. /\ server = "serving" /\ pc = "idle" /\ js # <<>>
      /\ \A i \in DOMAIN js : js[i].op \in {"update", "toggle", "delete"} => run[js[i].id] = None
      /\ jobs' = js /\ pc' = "check" /\ item' = None
      /\ row' = row /\ nextId' = nextId /\ entries' = entries /\ verifies' = verifies /\ file' = file
      /\ run' = run /\ hooks' = hooks /\ due' = due /\ stored' = stored /\ torn' = torn /\ server' = server
  BY DEF Ask, cron, cascade
<1>2. TasksTypeOK'
  BY <1>1 DEF CatalogInv, TasksTypeOK
<1>3. RequestInv' /\ DownInv'
  BY <1>1 DEF CatalogInv, RequestInv, DownInv
<1>4. IdsInv'
  BY <1>1 DEF CatalogInv, IdsInv, Existing
<1>5. CronInv'
  <2>1. Behind = {} /\ Behind' = {}
    BY <1>1 DEF Behind
  <2>2. \A t \in Tasks : Follows(t)' <=> Follows(t)
    BY <1>1 DEF Follows
  <2>3. \A t \in Tasks \ torn : Follows(t)
    BY <1>1, <2>1 DEF CatalogInv, CronInv
  <2>4. \A t \in Tasks \ torn : row[t] = None => t \notin stored
    BY DEF CatalogInv, CronInv
  <2> QED BY <1>1, <2>1, <2>2, <2>3, <2>4 DEF CronInv
<1>6. \A i \in DOMAIN js : Subject(js[i])' = None \/ (Subject(js[i])' = js[i].id /\ run[js[i].id] = None)
  <2> SUFFICES ASSUME NEW i \in DOMAIN js
               PROVE  Subject(js[i])' = None \/ (Subject(js[i])' = js[i].id /\ run[js[i].id] = None)
    OBVIOUS
  <2>1. js[i] \in JobRecords
    OBVIOUS
  <2>2. CASE js[i].op \in Creating
    BY <2>2 DEF Subject, Creating
  <2>3. CASE js[i].op = "link"
    <3>1. js[i].from.name \in Names
      BY <2>1, <2>3, JobShape DEF Exported
    <3> QED BY <2>3, <3>1 DEF Subject, Creating
  <2>4. CASE js[i].op \in {"update", "toggle", "delete"}
    BY <1>1, <2>4 DEF Subject, Creating
  <2> QED BY <2>1, <2>2, <2>3, <2>4, JobShape DEF Creating
<1>7. \A t \in Tasks : t \in InHand' => run[t] = None
  <2> SUFFICES ASSUME NEW t \in Tasks, t \in InHand' PROVE run[t] = None
    OBVIOUS
  <2>1. t # None
    BY Apart
  <2>2. PICK i \in DOMAIN js : t = Subject(js[i])'
    BY <1>1, <2>1 DEF InHand
  <2> QED BY <1>6, <2>1, <2>2
<1>8. RunsInv'
  BY <1>1, <1>7 DEF CatalogInv, RunsInv
<1> QED BY <1>2, <1>3, <1>4, <1>5, <1>8 DEF CatalogInv

(* Each kind of request is a list of jobs.                                    *)
LEMMA ImportJobsTyped ==
    ASSUME NEW f \in Seq(Exported)
    PROVE  ImportJobs(f) \in Seq(JobRecords) /\ Len(ImportJobs(f)) = Len(f) + Len(f)
<1>1. Len(f) \in Nat
  OBVIOUS
<1>2. ASSUME NEW i \in 1 .. Len(f) + Len(f)
      PROVE  (IF i <= Len(f) THEN [op |-> "import", from |-> f[i]]
                             ELSE [op |-> "link", from |-> f[i - Len(f)]]) \in JobRecords
  <2>1. CASE i <= Len(f)
    <3>1. f[i] \in Exported
      BY <1>1, <1>2, <2>1
    <3> QED BY <2>1, <3>1 DEF JobRecords
  <2>2. CASE ~(i <= Len(f))
    <3>1. f[i - Len(f)] \in Exported
      BY <1>1, <1>2, <2>2
    <3> QED BY <2>2, <3>1 DEF JobRecords
  <2> QED BY <2>1, <2>2
<1>3. ImportJobs(f) \in [1 .. Len(f) + Len(f) -> JobRecords]
  BY <1>2 DEF ImportJobs
<1> QED BY <1>1, <1>3, SeqOfFunction

LEMMA ExportedTyped ==
    ASSUME CatalogInv, NEW t \in Existing
    PROVE  toExported(row[t]) \in Exported /\ toExported(row[t]).name = row[t].name
<1>1. row \in [Tasks -> Rows \cup {None}]
  BY DEF CatalogInv, TasksTypeOK
<1>2. \A u \in Existing : row[u] \in Rows
  BY <1>1 DEF Existing
<1>3. {row[u].name : u \in row[t].deps \cap Existing} \subseteq Names
  BY <1>2 DEF Rows
<1>4. row[t] \in Rows
  BY <1>2
<1> QED BY <1>3, <1>4 DEF toExported, Exported, Rows

(* Export lists each task once.                                               *)
LEMMA ExportListed ==
    ASSUME CatalogInv, Export
    PROVE  /\ file' \in Seq(Exported)
           /\ \A i, j \in DOMAIN file' : file'[i].name = file'[j].name => i = j
<1> DEFINE n == Cardinality(Existing)
<1> DEFINE Lists(f) == f \in [1 .. n -> Existing] /\ \A i, j \in 1 .. n : i # j => f[i] # f[j]
<1> DEFINE order == CHOOSE f \in [1 .. n -> Existing] : \A i, j \in 1 .. n : i # j => f[i] # f[j]
<1>1. IsFiniteSet(Existing)
  <2>1. nextId \in Nat
    BY DEF CatalogInv, TasksTypeOK
  <2>2. Existing \subseteq 0 .. nextId
    <3> SUFFICES ASSUME NEW t \in Existing PROVE t \in 0 .. nextId
      OBVIOUS
    <3>1. t \in Nat /\ t \in Tasks /\ row[t] # None
      BY Apart DEF Existing
    <3>2. ~(t >= nextId)
      BY <3>1 DEF CatalogInv, IdsInv
    <3> QED BY <2>1, <3>1, <3>2
  <2>3. IsFiniteSet(0 .. nextId)
    BY <2>1, FS_Interval
  <2> QED BY <2>2, <2>3, FS_Subset
<1>2. n \in Nat /\ \E f : Lists(f)
  <2>1. n \in Nat /\ ExistsBijection(1 .. n, Existing)
    BY <1>1, FS_CardinalityType
  <2>2. PICK f \in Bijection(1 .. n, Existing) : TRUE
    BY <2>1 DEF ExistsBijection
  <2>3. f \in [1 .. n -> Existing] /\ IsInjective(f)
    BY <2>2 DEF Bijection, Injection, Surjection
  <2>4. \A i, j \in 1 .. n : f[i] = f[j] => i = j
    BY <2>3 DEF IsInjective
  <2>5. Lists(f)
    BY <2>3, <2>4
  <2> QED BY <2>1, <2>5
<1>3. Lists(order)
  BY <1>2
<1>4. file' = [i \in 1 .. n |-> toExported(row[order[i]])]
  BY DEF Export
<1> HIDE DEF order, n
<1>5. \A i \in 1 .. n : toExported(row[order[i]]) \in Exported /\ toExported(row[order[i]]).name = row[order[i]].name
  BY <1>3, ExportedTyped
<1>6. file' \in [1 .. n -> Exported]
  BY <1>4, <1>5
<1>7. file' \in Seq(Exported) /\ DOMAIN file' = 1 .. n
  BY <1>2, <1>6, SeqOfFunction
<1>8. ASSUME NEW i \in 1 .. n, NEW j \in 1 .. n, file'[i].name = file'[j].name PROVE i = j
  <2>1. row[order[i]].name = row[order[j]].name
    BY <1>4, <1>5, <1>8
  <2>2. order[i] = order[j]
    BY <1>3, <2>1 DEF CatalogInv, IdsInv
  <2> QED BY <1>3, <2>2
<1> QED BY <1>7, <1>8

LEMMA ExportKeeps ==
    ASSUME CatalogInv, Export
    PROVE  CatalogInv'
<1>1. /\ pc = "idle" /\ pc' = pc /\ jobs' = jobs /\ item' = item /\ row' = row /\ nextId' = nextId
      /\ entries' = entries /\ verifies' = verifies
      /\ run' = run /\ hooks' = hooks /\ due' = due /\ stored' = stored /\ torn' = torn /\ server' = server
      /\ made' = [n \in Names |-> None] /\ known' = [n \in Names |-> None] /\ flawed' = {}
  BY DEF Export, Fresh, cron, cascade
<1>2. jobs = <<>>
  BY <1>1 DEF CatalogInv, RequestInv
<1>3. TasksTypeOK'
  BY <1>1, ExportListed DEF CatalogInv, TasksTypeOK
<1>4. RequestInv' /\ DownInv'
  BY <1>1, <1>2 DEF CatalogInv, RequestInv, DownInv
<1>5. IdsInv'
  BY <1>1 DEF CatalogInv, IdsInv, Existing
<1>6. Behind = {} /\ Behind' = {}
  BY <1>1 DEF Behind
<1>7. CronInv'
  BY <1>1, <1>6 DEF CatalogInv, CronInv, Follows
<1>8. InHand' = {}
  BY <1>1, <1>2 DEF InHand
<1>9. RunsInv'
  BY <1>1, <1>8 DEF CatalogInv, RunsInv
<1> QED BY <1>3, <1>4, <1>5, <1>7, <1>9 DEF CatalogInv

(* A request that imports nothing is a list of other jobs.                    *)
LEMMA RequestShape ==
    ASSUME \/ \E in \in Inputs : Create(in) \/ \E t \in Tasks : Update(t, in)
           \/ \E ids \in Batches : BatchDeleteTasks(ids) \/ \E on \in BOOLEAN : BatchToggle(ids, on)
           \/ \E in \in Inputs, names \in NameLists : Apply(in, names)
    PROVE  \E js \in Seq(JobRecords) :
              Fresh /\ Ask(js) /\ \A i \in DOMAIN js : js[i].op \notin {"import", "link"}
<1>0. /\ \A in \in Inputs : in \in Rows
      /\ \A ids \in Batches : ids \in Seq(Tasks)
      /\ \A names \in NameLists : names \in Seq(Names)
  BY RowsAssumption
<1>1. SUFFICES ASSUME \A js \in Seq(JobRecords) :
                         ~(Fresh /\ Ask(js) /\ \A i \in DOMAIN js : js[i].op \notin {"import", "link"})
               PROVE  FALSE
  OBVIOUS
<1>2. ASSUME NEW in \in Inputs, Create(in) PROVE FALSE
  <2>1. [op |-> "create", input |-> in] \in JobRecords
    BY <1>0 DEF JobRecords
  <2>2. <<[op |-> "create", input |-> in]>> \in Seq(JobRecords)
    BY <2>1
  <2> QED BY <1>1, <1>2, <2>2 DEF Create
<1>3. ASSUME NEW in \in Inputs, NEW t \in Tasks, Update(t, in) PROVE FALSE
  <2>1. [op |-> "update", id |-> t, input |-> in] \in JobRecords
    BY <1>0 DEF JobRecords
  <2>2. PICK j \in JobRecords : j = [op |-> "update", id |-> t, input |-> in] /\ j.op = "update"
    BY <2>1
  <2>3. <<j>> \in Seq(JobRecords) /\ \A i \in DOMAIN <<j>> : <<j>>[i].op \notin {"import", "link"}
    BY <2>2
  <2>4. Fresh /\ Ask(<<j>>)
    BY <1>3, <2>2 DEF Update
  <2> QED BY <1>1, <2>3, <2>4
<1>4. ASSUME NEW ids \in Batches, BatchDeleteTasks(ids) PROVE FALSE
  <2>1. ids \in Seq(Tasks) /\ Len(ids) \in Nat /\ DOMAIN ids = 1 .. Len(ids)
    BY <1>0
  <2>2. \A i \in DOMAIN ids : [op |-> "delete", id |-> ids[i]] \in JobRecords
    BY <2>1 DEF JobRecords
  <2>3. [i \in DOMAIN ids |-> [op |-> "delete", id |-> ids[i]]] \in [1 .. Len(ids) -> JobRecords]
    BY <2>1, <2>2
  <2>4. [i \in DOMAIN ids |-> [op |-> "delete", id |-> ids[i]]] \in Seq(JobRecords)
    BY <2>1, <2>3, SeqOfFunction
  <2> QED BY <1>1, <1>4, <2>4 DEF BatchDeleteTasks
<1>5. ASSUME NEW ids \in Batches, NEW on \in BOOLEAN, BatchToggle(ids, on) PROVE FALSE
  <2>1. ids \in Seq(Tasks) /\ Len(ids) \in Nat /\ DOMAIN ids = 1 .. Len(ids)
    BY <1>0
  <2>2. \A i \in DOMAIN ids : [op |-> "toggle", id |-> ids[i], on |-> on] \in JobRecords
    BY <2>1 DEF JobRecords
  <2>3. [i \in DOMAIN ids |-> [op |-> "toggle", id |-> ids[i], on |-> on]] \in [1 .. Len(ids) -> JobRecords]
    BY <2>1, <2>2
  <2>4. [i \in DOMAIN ids |-> [op |-> "toggle", id |-> ids[i], on |-> on]] \in Seq(JobRecords)
    BY <2>1, <2>3, SeqOfFunction
  <2> QED BY <1>1, <1>5, <2>4 DEF BatchToggle
<1>6. ASSUME NEW in \in Inputs, NEW names \in NameLists, Apply(in, names) PROVE FALSE
  <2>1. names \in Seq(Names) /\ Len(names) \in Nat /\ DOMAIN names = 1 .. Len(names) /\ in \in Rows
    BY <1>0
  <2>2. ASSUME NEW i \in DOMAIN names
        PROVE  [op |-> "create", input |-> [in EXCEPT !.name = names[i]]] \in JobRecords
    <3>1. names[i] \in Names
      BY <2>1
    <3>2. [in EXCEPT !.name = names[i]] \in Rows
      BY <2>1, <3>1 DEF Rows
    <3> QED BY <3>2 DEF JobRecords
  <2>3. [i \in DOMAIN names |-> [op |-> "create", input |-> [in EXCEPT !.name = names[i]]]]
           \in [1 .. Len(names) -> JobRecords]
    BY <2>1, <2>2
  <2>4. [i \in DOMAIN names |-> [op |-> "create", input |-> [in EXCEPT !.name = names[i]]]] \in Seq(JobRecords)
    BY <2>1, <2>3, SeqOfFunction
  <2> QED BY <1>1, <1>6, <2>4 DEF Apply
<1> QED BY <1>2, <1>3, <1>4, <1>5, <1>6

LEMMA RequestsKeep ==
    ASSUME CatalogInv, Overlap = FALSE,
           \/ \E in \in Inputs : Create(in) \/ \E t \in Tasks : Update(t, in)
           \/ \E ids \in Batches : BatchDeleteTasks(ids) \/ \E on \in BOOLEAN : BatchToggle(ids, on)
           \/ \E in \in Inputs, names \in NameLists : Apply(in, names)
           \/ Import
    PROVE  CatalogInv'
<1>1. CASE \/ \E in \in Inputs : Create(in) \/ \E t \in Tasks : Update(t, in)
           \/ \E ids \in Batches : BatchDeleteTasks(ids) \/ \E on \in BOOLEAN : BatchToggle(ids, on)
           \/ \E in \in Inputs, names \in NameLists : Apply(in, names)
  <2>1. PICK js \in Seq(JobRecords) : Fresh /\ Ask(js)
    BY <1>1, RequestShape
  <2>2. known' \in [Names -> Tasks \cup {None}] /\ made' = [n \in Names |-> None] /\ flawed' = {}
    BY <2>1 DEF Fresh
  <2> QED BY <2>1, <2>2, AskKeeps
<1>2. CASE Import
  <2>1. ImportJobs(file) \in Seq(JobRecords)
    BY ImportJobsTyped DEF CatalogInv, TasksTypeOK
  <2>2. \A n \in Names : {t \in Existing : row[t].name = n} # {}
                           => (CHOOSE t \in {t \in Existing : row[t].name = n} : TRUE) \in Tasks
    BY DEF Existing
  <2>3. known' \in [Names -> Tasks \cup {None}]
    BY <1>2, <2>2 DEF Import
  <2> QED BY <1>2, <2>1, <2>3, AskKeeps DEF Import
<1> QED BY <1>1, <1>2

--------------------------------------------------------------------------------
(* The first job ends: nothing comes to hand that was not.                    *)
LEMMA SubjectMoves ==
    ASSUME NEW j \in JobRecords, NEW H, \A n \in Names : made'[n] \in H, None \in H, Subject(j) \in H
    PROVE  Subject(j)' \in H
<1>1. CASE j.op \in {"update", "toggle", "delete"}
  BY <1>1 DEF Subject, Creating
<1>2. CASE j.op \in Creating
  BY <1>2 DEF Subject, Creating
<1>3. CASE j.op = "link"
  <2>1. j.from.name \in Names
    BY <1>3, JobShape DEF Exported
  <2> QED BY <1>3, <2>1 DEF Subject, Creating
<1> QED BY <1>1, <1>2, <1>3, JobShape DEF Creating

LEMMA OverHand ==
    ASSUME TasksTypeOK, jobs # <<>>, jobs' = Tail(jobs), pc' # "sync",
           \A n \in Names : made'[n] \in InHand \cup {None}
    PROVE  InHand' \subseteq InHand \cup {None}
<1>1. PICK H : H = InHand \cup {None}
  OBVIOUS
<1>2. \A i \in DOMAIN Tail(jobs) : Tail(jobs)[i] = jobs[i + 1] /\ i + 1 \in DOMAIN jobs /\ jobs[i + 1] \in JobRecords
  <2>1. jobs \in Seq(JobRecords)
    BY DEF TasksTypeOK
  <2> QED BY <2>1, JobInHand
<1>3. ASSUME NEW i \in DOMAIN jobs' PROVE Subject(jobs[i])' \in H
  <2>1. PICK j \in JobRecords : j = jobs'[i] /\ j = jobs[i + 1] /\ i + 1 \in DOMAIN jobs
    BY <1>2
  <2>2. Subject(j) \in H
    BY <1>1, <2>1 DEF InHand
  <2>3. Subject(j)' \in H
    BY <1>1, <2>2, SubjectMoves
  <2>4. Subject(jobs[i])' = Subject(j)'
    BY <2>1 DEF Subject, Creating
  <2> QED BY <2>3, <2>4
<1>4. \A n \in Names : made'[n] \in H
  BY <1>1
<1> QED BY <1>1, <1>3, <1>4 DEF InHand

LEMMA OverKeeps ==
    ASSUME CatalogInv, pc # "idle", jobs' = Tail(jobs),
           pc' = (IF Len(jobs) = 1 THEN "idle" ELSE "check"), item' = None,
           UNCHANGED <<nextId, run, hooks, due, server, file>>,
           known' \in [Names -> Tasks \cup {None}], made' \in [Names -> Tasks \cup {None}], flawed' \subseteq Names,
           \A n \in Names : made'[n] \in InHand \cup {None},
           \A n \in Names : made'[n] # None => made'[n] < nextId,
           row' \in [Tasks -> Rows \cup {None}],
           \A t \in Tasks : row'[t] = row[t] \/ (row'[t] = None /\ run[t] = None),
           entries' \in [Tasks -> Crons \cup {None}], verifies' \in [Tasks -> {"", "weekly", None}],
           torn' \subseteq Tasks, stored' \subseteq Tasks,
           \A t \in Tasks \ torn' : Follows(t)',
           \A t \in Tasks \ torn' : row'[t] = None => t \notin stored'
    PROVE  CatalogInv'
<1>1. TasksTypeOK /\ RequestInv /\ DownInv /\ IdsInv /\ RunsInv
  BY DEF CatalogInv
<1>2. jobs # <<>>
  BY <1>1 DEF RequestInv
<1>3. Tail(jobs) \in Seq(JobRecords) /\ (Len(jobs) = 1 <=> Tail(jobs) = <<>>)
  BY <1>1, <1>2, JobInHand
<1>4. pc' \in {"idle", "check"} /\ (pc' = "idle" <=> jobs' = <<>>)
  BY <1>3
<1>5. TasksTypeOK'
  BY <1>1, <1>3, <1>4 DEF TasksTypeOK
<1>6. RequestInv'
  BY <1>4 DEF RequestInv
<1>7. DownInv'
  BY <1>1 DEF DownInv
<1>8. IdsInv'
  <2>1. \A t \in Tasks : t >= nextId => row'[t] = None
    BY <1>1 DEF IdsInv
  <2>2. \A t, u \in Existing' : row'[t].name = row'[u].name => t = u
    BY <1>1 DEF IdsInv, Existing
  <2> QED BY <1>4, <2>1, <2>2 DEF IdsInv
<1>9. InHand' \subseteq InHand \cup {None}
  BY <1>1, <1>2, <1>4, OverHand
<1>10. RunsInv'
  BY <1>1, <1>9, Apart DEF RunsInv
<1>11. CronInv'
  <2>1. Behind' = {}
    BY <1>4 DEF Behind
  <2> QED BY <1>4, <2>1 DEF CronInv
<1> QED BY <1>5, <1>6, <1>7, <1>8, <1>10, <1>11 DEF CatalogInv

(* What a refused or finished job leaves of made and flawed.                  *)
LEMMA Marks ==
    ASSUME CatalogInv, pc # "idle"
    PROVE  /\ jobs # <<>> /\ server = "serving"
           /\ known \in [Names -> Tasks \cup {None}] /\ made \in [Names -> Tasks \cup {None}]
           /\ flawed \subseteq Names /\ (Marked => flawed' \subseteq Names)
           /\ \A n \in Names : made[n] \in InHand
           /\ pc # "sync" => \A n \in Names : made[n] # None => made[n] < nextId
           /\ \A n \in Names : made[n] # None => made[n] < nextId
<1>1. TasksTypeOK /\ RequestInv /\ DownInv /\ IdsInv
  BY DEF CatalogInv
<1>2. jobs # <<>> /\ server = "serving"
  BY <1>1 DEF RequestInv, DownInv
<1>3. Job.op = "link" => Job.from.name \in Names
  BY <1>1, <1>2, JobInHand, SubjectTyped
<1>4. Marked => flawed' \subseteq Names
  BY <1>1, <1>3 DEF Marked, Flaw, TasksTypeOK
<1>5. \A n \in Names : made[n] \in InHand
  BY <1>2 DEF InHand
<1>6. nextId \in Nat /\ \A n \in Names : made[n] # None => made[n] \in Nat
  BY <1>1, Apart DEF TasksTypeOK
<1>7. \A n \in Names : made[n] # None => made[n] < nextId
  BY <1>1, <1>6 DEF IdsInv
<1> QED BY <1>1, <1>2, <1>4, <1>5, <1>7 DEF TasksTypeOK

(* The types of what a job changes.                                           *)
LEMMA CatalogTypes ==
    ASSUME CatalogInv
    PROVE  /\ row \in [Tasks -> Rows \cup {None}]
           /\ entries \in [Tasks -> Crons \cup {None}] /\ verifies \in [Tasks -> {"", "weekly", None}]
           /\ torn \subseteq Tasks /\ stored \subseteq Tasks
           /\ \A t \in Tasks \ torn : row[t] = None => t \notin stored
  BY DEF CatalogInv, TasksTypeOK, CronInv

(* SyncTask makes the scheduler follow the row it is given, or tears it.      *)
LEMMA SyncTaskFollows ==
    ASSUME CatalogInv, NEW t \in Tasks, NEW r \in Rows, row[t] = r, SyncTask(t, r), row' = row,
           \A u \in Tasks \ (torn \cup {t}) : Follows(u)
    PROVE  /\ entries' \in [Tasks -> Crons \cup {None}] /\ verifies' \in [Tasks -> {"", "weekly", None}]
           /\ torn' \subseteq Tasks
           /\ \A u \in Tasks \ torn' : Follows(u)'
           /\ \A u \in Tasks \ torn' : row'[u] = None => u \notin stored
<1>1. /\ row \in [Tasks -> Rows \cup {None}]
      /\ entries \in [Tasks -> Crons \cup {None}] /\ verifies \in [Tasks -> {"", "weekly", None}]
      /\ torn \subseteq Tasks
      /\ \A u \in Tasks \ torn : row[u] = None => u \notin stored
  BY CatalogTypes
<1>2. r # None /\ r.cron \in Crons /\ r.verify \in {"", "weekly"}
  BY Apart DEF Rows
<1>3. CASE Schedulable(r) /\ r.cron = "broken"
  <2>1. entries' = [entries EXCEPT ![t] = None] /\ verifies' = verifies /\ torn' = torn \cup {t}
    BY <1>3 DEF SyncTask
  <2>2. \A u \in Tasks \ torn' : Follows(u)'
    BY <1>1, <2>1 DEF Follows
  <2>3. entries' \in [Tasks -> Crons \cup {None}]
    BY <1>1, <2>1
  <2> QED BY <1>1, <2>1, <2>2, <2>3
<1>4. CASE ~(Schedulable(r) /\ r.cron = "broken")
  <2>1. /\ entries' = [entries EXCEPT ![t] = IF Schedulable(r) THEN r.cron ELSE None]
        /\ verifies' = [verifies EXCEPT ![t] = IF VerifySchedulable(r) THEN r.verify ELSE None]
        /\ torn' = torn \ {t}
    BY <1>4 DEF SyncTask
  <2>2. ASSUME NEW u \in Tasks \ torn' PROVE Follows(u)'
    <3>1. CASE u = t
      BY <1>1, <2>1, <3>1 DEF Follows
    <3>2. CASE u # t
      BY <1>1, <2>1, <2>2, <3>2 DEF Follows
    <3> QED BY <3>1, <3>2
  <2>3. entries' \in [Tasks -> Crons \cup {None}]
    BY <1>1, <1>2, <2>1
  <2>4. verifies' \in [Tasks -> {"", "weekly", None}]
    BY <1>1, <1>2, <2>1
  <2>5. \A u \in Tasks \ torn' : row'[u] = None => u \notin stored
    BY <1>1, <1>2, <2>1
  <2> QED BY <1>1, <2>1, <2>2, <2>3, <2>4, <2>5
<1> QED BY <1>3, <1>4

LEMMA RejectKeeps ==
    ASSUME CatalogInv, Reject \/ SaveFails \/ AssocFails
    PROVE  CatalogInv'
<1>1. /\ pc \in {"check", "save", "sync"}
      /\ jobs' = Tail(jobs) /\ pc' = (IF Len(jobs) = 1 THEN "idle" ELSE "check") /\ item' = None
      /\ UNCHANGED <<nextId, run, hooks, due, server, file>>
      /\ known' = known /\ made' = made /\ (flawed' = flawed \/ Marked)
      /\ row' = row /\ entries' = entries /\ verifies' = verifies /\ stored' = stored
      /\ pc # "sync" => torn' = torn
      /\ pc = "sync" => torn' = torn \cup {Target}
  BY DEF Reject, SaveFails, AssocFails, Refused, Over, cron, cascade, Target
<1>2. pc # "idle"
  BY <1>1
<1>3. /\ jobs # <<>> /\ server = "serving"
      /\ known \in [Names -> Tasks \cup {None}] /\ made \in [Names -> Tasks \cup {None}]
      /\ flawed' \subseteq Names
      /\ \A n \in Names : made[n] \in InHand
      /\ \A n \in Names : made[n] # None => made[n] < nextId
  BY <1>1, <1>2, Marks
<1>4. pc = "sync" => Target \in Tasks
  BY DEF CatalogInv, RequestInv
<1>5. torn' \subseteq Tasks /\ torn \subseteq torn'
  BY <1>1, <1>4, CatalogTypes
<1>6. Behind \subseteq torn'
  BY <1>1 DEF Behind
<1>7. \A t \in Tasks \ torn' : Follows(t)'
  BY <1>1, <1>3, <1>5, <1>6 DEF CatalogInv, CronInv, Follows
<1>8. \A n \in Names : made'[n] \in InHand \cup {None}
  BY <1>1, <1>3
<1> QED BY <1>1, <1>2, <1>3, <1>5, <1>7, <1>8, CatalogTypes, OverKeeps

LEMMA SyncKeeps ==
    ASSUME CatalogInv, Sync
    PROVE  CatalogInv'
<1>1. /\ pc = "sync" /\ SyncTask(Target, item)
      /\ jobs' = Tail(jobs) /\ pc' = (IF Len(jobs) = 1 THEN "idle" ELSE "check") /\ item' = None
      /\ UNCHANGED <<nextId, run, hooks, due, server, file>>
      /\ row' = row /\ stored' = stored
      /\ flawed' = flawed \/ Marked
      /\ \/ made' = made /\ known' = known
         \/ /\ Job.op = "import"
            /\ made' = [made EXCEPT ![Job.from.name] = Target]
            /\ known' = [known EXCEPT ![Job.from.name] = Target]
  BY DEF Sync, cascade, Target, Creating
<1>2. /\ jobs # <<>> /\ server = "serving"
      /\ known \in [Names -> Tasks \cup {None}] /\ made \in [Names -> Tasks \cup {None}]
      /\ flawed' \subseteq Names
      /\ \A n \in Names : made[n] \in InHand
      /\ \A n \in Names : made[n] # None => made[n] < nextId
  BY <1>1, Marks
<1>3. Target \in Tasks /\ row[Target] = item /\ item \in Rows /\ Target \in InHand
  BY <1>1, TargetHand DEF CatalogInv
<1>4. Job.op = "import" => Target = nextId - 1 /\ nextId \in Nat /\ Target < nextId
  <2>1. nextId \in Nat
    BY DEF CatalogInv, TasksTypeOK
  <2>2. Job.op = "import" => Target = nextId - 1
    BY DEF Target, Creating
  <2> QED BY <2>1, <2>2
<1>5. \A t \in Tasks \ (torn \cup {Target}) : Follows(t)
  BY <1>1, <1>2 DEF CatalogInv, CronInv, Behind
<1>6. /\ entries' \in [Tasks -> Crons \cup {None}] /\ verifies' \in [Tasks -> {"", "weekly", None}]
      /\ torn' \subseteq Tasks
      /\ \A u \in Tasks \ torn' : Follows(u)'
      /\ \A u \in Tasks \ torn' : row'[u] = None => u \notin stored
  BY <1>1, <1>3, <1>5, SyncTaskFollows
<1>7. /\ made' \in [Names -> Tasks \cup {None}] /\ known' \in [Names -> Tasks \cup {None}]
      /\ \A n \in Names : made'[n] = made[n] \/ (Job.op = "import" /\ made'[n] = Target)
  BY <1>1, <1>2, <1>3
<1>8. \A n \in Names : made'[n] \in InHand \cup {None}
  BY <1>2, <1>3, <1>7
<1>9. \A n \in Names : made'[n] # None => made'[n] < nextId
  BY <1>2, <1>4, <1>7
<1>10. pc # "idle"
  BY <1>1
<1> QED BY <1>1, <1>2, <1>6, <1>7, <1>8, <1>9, <1>10, CatalogTypes, OverKeeps

LEMMA RemoveKeeps ==
    ASSUME CatalogInv, Remove
    PROVE  CatalogInv'
<1>1. /\ pc = "remove" /\ row' = [row EXCEPT ![Job.id] = None]
      /\ jobs' = Tail(jobs) /\ pc' = (IF Len(jobs) = 1 THEN "idle" ELSE "check") /\ item' = None
      /\ UNCHANGED <<nextId, run, hooks, due, server, file>>
      /\ known' = known /\ made' = made /\ flawed' = flawed
      /\ entries' = entries /\ verifies' = verifies /\ stored' = stored /\ torn' = torn
  BY DEF Remove, Over, cron, cascade
<1>2. /\ jobs # <<>> /\ server = "serving"
      /\ known \in [Names -> Tasks \cup {None}] /\ made \in [Names -> Tasks \cup {None}]
      /\ flawed \subseteq Names
      /\ \A n \in Names : made[n] \in InHand
      /\ \A n \in Names : made[n] # None => made[n] < nextId
  BY <1>1, Marks
<1>3. Job.op = "delete" /\ Target = Job.id /\ Target \in Tasks /\ Target \in InHand
  <2>1. Job.op = "delete"
    BY <1>1 DEF CatalogInv, RequestInv
  <2> QED BY <1>1, <2>1, TargetHand DEF CatalogInv
<1>4. run[Job.id] = None
  BY <1>3 DEF CatalogInv, RunsInv
<1>5. /\ row' \in [Tasks -> Rows \cup {None}]
      /\ row'[Job.id] = None /\ \A t \in Tasks : t # Job.id => row'[t] = row[t]
  BY <1>1, <1>3, CatalogTypes
<1>6. /\ \A t \in Tasks \ (torn \cup {Job.id}) : Follows(t)
      /\ entries[Job.id] = None /\ verifies[Job.id] = None
      /\ Job.id \in torn \/ Job.id \notin stored
  BY <1>1, <1>2, <1>3 DEF CatalogInv, CronInv, Behind
<1>7. ASSUME NEW t \in Tasks \ torn PROVE Follows(t)' /\ (row'[t] = None => t \notin stored)
  <2>1. CASE t = Job.id
    BY <1>1, <1>5, <1>6, <1>7, <2>1 DEF Follows, Schedulable, VerifySchedulable
  <2>2. CASE t # Job.id
    BY <1>1, <1>5, <1>6, <1>7, <2>2, CatalogTypes DEF Follows
  <2> QED BY <2>1, <2>2
<1>8. \A t \in Tasks : row'[t] = row[t] \/ (row'[t] = None /\ run[t] = None)
  BY <1>4, <1>5
<1>9. pc # "idle" /\ (\A n \in Names : made'[n] \in InHand \cup {None})
  BY <1>1, <1>2
<1> QED BY <1>1, <1>2, <1>5, <1>7, <1>8, <1>9, CatalogTypes, OverKeeps

LEMMA RemoveFailsKeeps ==
    ASSUME CatalogInv, RemoveFails
    PROVE  CatalogInv'
<1>1. /\ pc = "remove" /\ SyncTask(Job.id, item)
      /\ jobs' = Tail(jobs) /\ pc' = (IF Len(jobs) = 1 THEN "idle" ELSE "check") /\ item' = None
      /\ UNCHANGED <<nextId, run, hooks, due, server, file>>
      /\ known' = known /\ made' = made /\ Marked
      /\ row' = row /\ stored' = stored
  BY DEF RemoveFails, RescheduleTask, Refused, Over, cascade
<1>2. /\ jobs # <<>> /\ server = "serving"
      /\ known \in [Names -> Tasks \cup {None}] /\ made \in [Names -> Tasks \cup {None}]
      /\ flawed' \subseteq Names
      /\ \A n \in Names : made[n] \in InHand
      /\ \A n \in Names : made[n] # None => made[n] < nextId
  BY <1>1, Marks
<1>3. Target = Job.id /\ Target \in Tasks /\ row[Target] = item /\ item \in Rows
  <2>1. Job.op = "delete"
    BY <1>1 DEF CatalogInv, RequestInv
  <2> QED BY <1>1, <2>1, TargetHand DEF CatalogInv
<1>4. \A t \in Tasks \ (torn \cup {Job.id}) : Follows(t)
  BY <1>1, <1>2, <1>3 DEF CatalogInv, CronInv, Behind
<1>5. /\ entries' \in [Tasks -> Crons \cup {None}] /\ verifies' \in [Tasks -> {"", "weekly", None}]
      /\ torn' \subseteq Tasks
      /\ \A u \in Tasks \ torn' : Follows(u)'
      /\ \A u \in Tasks \ torn' : row'[u] = None => u \notin stored
  BY <1>1, <1>3, <1>4, SyncTaskFollows
<1>6. pc # "idle" /\ (\A n \in Names : made'[n] \in InHand \cup {None})
  BY <1>1, <1>2
<1> QED BY <1>1, <1>2, <1>5, <1>6, CatalogTypes, OverKeeps

(* A job that is begun.                                                       *)
LEMMA CheckShape ==
    ASSUME CatalogInv, Check
    PROVE  /\ item' \in Rows
           /\ Job.op \notin Creating => Subject(Job) \in Tasks /\ row[Subject(Job)] # None
           /\ Job.op = "delete" => item' = row[Job.id] /\ Subject(Job) = Job.id
           /\ \A t \in Existing : row[t].name = item'.name => Job.op \notin Creating /\ t = Subject(Job)
           /\ Job.op = "import" => item'.deps = {}
           /\ Job.op = "link" => item'.deps = Linked(Job.from)
<1>1. TasksTypeOK /\ RequestInv /\ IdsInv
  BY DEF CatalogInv
<1>2. jobs # <<>>
  BY <1>1 DEF RequestInv, Check
<1>3. Job \in JobRecords
  BY <1>1, <1>2, JobInHand
<1>4. row \in [Tasks -> Rows \cup {None}]
  BY <1>1 DEF TasksTypeOK
<1>5. CASE Job.op \in Creating
  <2>1. Job.op \in Upsert /\ Job.op \notin {"delete", "link", "toggle", "update"}
    BY <1>5 DEF Upsert, Creating
  <2>2. item' = buildTask(None, InputOf(Job))
    BY <1>5, <2>1 DEF Check
  <2>7. ~Taken(InputOf(Job).name, None)
    BY <1>5, <2>1 DEF Check, Acceptable
  <2>3. InputOf(Job) \in Rows
    BY <1>1, <1>3, <2>1, InputTyped
  <2>4. item' \in Rows /\ item'.name = InputOf(Job).name /\ item'.deps = InputOf(Job).deps
    BY <2>2, <2>3, BuiltTyped
  <2>5. \A t \in Existing : row[t].name # item'.name
    BY <2>4, <2>7, Apart DEF Taken, Existing
  <2>6. Job.op = "import" => item'.deps = {}
    <3>1. Job.op = "import" => InputOf(Job) = toUpsertInput(Job.from, {}) /\ Job.from \in Exported
      BY <1>3, JobShape DEF InputOf
    <3> QED BY <2>4, <3>1, UpsertTyped
  <2> QED BY <1>5, <2>1, <2>4, <2>5, <2>6
<1>6. CASE Job.op \in {"update", "link"}
  <2>1. Job.op \in Upsert /\ Job.op \notin Creating /\ Job.op \notin {"delete", "toggle", "import"}
    BY <1>6 DEF Upsert, Creating
  <2>2. /\ row[Subject(Job)] # None /\ ~Taken(InputOf(Job).name, Subject(Job)) /\ ~Pointless
        /\ item' = buildTask(row[Subject(Job)], InputOf(Job))
    BY <1>6, <2>1 DEF Check, Acceptable
  <2>3. InputOf(Job) \in Rows
    BY <1>1, <1>3, <2>1, InputTyped
  <2>4. Subject(Job) \in Tasks
    <3>1. CASE Job.op = "update"
      BY <1>1, <1>3, <3>1, SubjectTyped
    <3>2. CASE Job.op = "link"
      BY <1>1, <1>3, <2>2, <3>2, SubjectTyped DEF Pointless
    <3> QED BY <1>6, <3>1, <3>2
  <2>5. item' \in Rows /\ item'.name = InputOf(Job).name /\ item'.deps = InputOf(Job).deps
    BY <1>4, <2>2, <2>3, <2>4, BuiltTyped
  <2>6. \A t \in Existing : row[t].name = item'.name => t = Subject(Job)
    BY <2>2, <2>5 DEF Taken
  <2>7. Job.op = "link" => item'.deps = Linked(Job.from)
    <3>1. Job.op = "link" => InputOf(Job) = toUpsertInput(Job.from, Linked(Job.from)) /\ Job.from \in Exported
      BY <1>3, JobShape DEF InputOf
    <3> QED BY <1>1, <2>5, <3>1, UpsertTyped, LinkedTyped
  <2> QED BY <1>6, <2>1, <2>2, <2>4, <2>5, <2>6, <2>7
<1>7. CASE Job.op \in {"toggle", "delete"}
  <2>1. Job.op \notin Upsert /\ Job.op \notin Creating /\ Job.op \notin {"update", "link", "import"}
    BY <1>7 DEF Upsert, Creating
  <2>2. Subject(Job) = Job.id /\ Job.id \in Tasks
    BY <1>1, <1>3, <1>7, SubjectTyped
  <2>3. row[Job.id] # None
    BY <2>1, <2>2 DEF Check, Acceptable
  <2>4. row[Job.id] \in Rows
    BY <1>4, <2>2, <2>3
  <2>5. \A t \in Existing : row[t].name = row[Job.id].name => t = Job.id
    BY <1>1, <2>2, <2>3 DEF IdsInv, Existing
  <2>6. CASE Job.op = "delete"
    <3>1. item' = row[Job.id]
      BY <2>1, <2>6 DEF Check
    <3> QED BY <2>1, <2>2, <2>3, <2>4, <2>5, <3>1
  <2>7. CASE Job.op = "toggle"
    <3>1. item' = [row[Job.id] EXCEPT !.enabled = Job.on] /\ Job.on \in BOOLEAN
      BY <1>3, <2>1, <2>7, JobShape DEF Check
    <3>2. item' \in Rows /\ item'.name = row[Job.id].name
      BY <2>4, <3>1 DEF Rows
    <3> QED BY <2>1, <2>2, <2>3, <2>5, <2>7, <3>2
  <2> QED BY <1>7, <2>6, <2>7
<1> QED BY <1>3, <1>5, <1>6, <1>7, JobShape DEF Creating

(* A request that goes on with its job and touches neither names nor ids.     *)
LEMMA SameHand ==
    ASSUME UNCHANGED <<jobs, made, nextId>>, pc # "sync", pc' # "sync"
    PROVE  Job' = Job /\ InHand' = InHand /\ Target' = Target
<1>1. Job' = Job
  BY DEF Job
<1> QED BY <1>1 DEF InHand, Target, Subject, Creating

LEMMA CheckKeeps ==
    ASSUME CatalogInv, Check
    PROVE  CatalogInv'
<1>1. /\ pc = "check" /\ pc' = IF Job.op = "delete" THEN "unschedule" ELSE "save"
      /\ UNCHANGED <<row, nextId, entries, verifies, jobs, file, known, made, flawed, run, hooks, due, stored, torn, server>>
  BY DEF Check, cron, cascade
<1>2. /\ item' \in Rows
      /\ Job.op \notin Creating => Subject(Job) \in Tasks /\ row[Subject(Job)] # None
      /\ Job.op = "delete" => item' = row[Job.id] /\ Subject(Job) = Job.id
      /\ \A t \in Existing : row[t].name = item'.name => Job.op \notin Creating /\ t = Subject(Job)
  BY CheckShape
<1>3. Job' = Job /\ InHand' = InHand /\ Target' = Target
  BY <1>1, SameHand
<1>4. Job.op \notin Creating => Target = Subject(Job)
  BY DEF Target
<1>5. TasksTypeOK /\ RequestInv /\ DownInv /\ IdsInv /\ RunsInv /\ CronInv
  BY DEF CatalogInv
<1>6. item' # None
  BY <1>2, Apart
<1>7. TasksTypeOK'
  BY <1>1, <1>2, <1>5 DEF TasksTypeOK
<1>8. RequestInv'
  BY <1>1, <1>2, <1>3, <1>4, <1>5, <1>6 DEF RequestInv, Creating
<1>9. DownInv'
  BY <1>1, <1>5 DEF DownInv
<1>10. IdsInv'
  BY <1>1, <1>2, <1>3, <1>4, <1>5 DEF IdsInv, Existing
<1>11. RunsInv'
  BY <1>1, <1>3, <1>5 DEF RunsInv
<1>12. CronInv'
  <2>1. Behind = {} /\ Behind' = {}
    BY <1>1 DEF Behind
  <2> QED BY <1>1, <1>5, <2>1 DEF CronInv, Follows
<1> QED BY <1>7, <1>8, <1>9, <1>10, <1>11, <1>12 DEF CatalogInv

LEMMA SaveShape ==
    ASSUME CatalogInv, Save
    PROVE  /\ pc = "save" /\ pc' = "sync" /\ item \in Rows /\ item # None
           /\ Job' = Job /\ Target' \in Tasks
           /\ row' = [row EXCEPT ![Target'] = item]
           /\ UNCHANGED <<entries, verifies, jobs, item, file, known, made, flawed, run, hooks, due, stored, torn, server>>
           /\ Job.op \in Creating => Target' = nextId /\ nextId' = nextId + 1
           /\ Job.op \notin Creating => Target' = Target /\ nextId' = nextId
           /\ InHand' = InHand \cup {Target'}
           /\ run[Target'] = None
           /\ jobs # <<>> /\ Job \in JobRecords
<1>1. /\ pc = "save" /\ pc' = "sync"
      /\ UNCHANGED <<entries, verifies, jobs, item, file, known, made, flawed, run, hooks, due, stored, torn, server>>
  BY DEF Save, cron, cascade
<1>2. TasksTypeOK /\ RequestInv /\ IdsInv /\ RunsInv
  BY DEF CatalogInv
<1>3. /\ item \in Rows /\ jobs # <<>> /\ Job \in JobRecords
      /\ Job.op \notin Creating => Target = Subject(Job) /\ Target \in Tasks /\ Target \in InHand
  BY <1>1, <1>2, TargetHand
<1>4. nextId \in Nat
  BY <1>2 DEF TasksTypeOK
<1>5. Job' = Job
  BY <1>1 DEF Job
<1>6. CASE Job.op \in Creating
  <2>1. nextId \in Tasks /\ row' = [row EXCEPT ![nextId] = item] /\ nextId' = nextId + 1
    BY <1>6 DEF Save
  <2>2. Target' = nextId
    BY <1>4, <1>5, <1>6, <2>1 DEF Target, Creating
  <2>3. row[nextId] = None
    BY <1>2, <1>4, <2>1 DEF IdsInv
  <2>4. run[nextId] = None
    BY <1>2, <2>1, <2>3 DEF RunsInv
  <2>5. nextId' - 1 = nextId
    BY <1>4, <2>1
  <2>6. InHand' = InHand \cup {Target'}
    BY <1>1, <1>5, <1>6, <2>2, <2>5 DEF InHand, Subject, Creating
  <2> QED BY <1>1, <1>3, <1>5, <1>6, <2>1, <2>2, <2>4, <2>6, Apart
<1>7. CASE Job.op \notin Creating
  <2>1. row' = [row EXCEPT ![Target] = item] /\ nextId' = nextId
    BY <1>3, <1>7 DEF Save
  <2>2. Target' = Target
    BY <1>1, <1>5, <1>7, <2>1 DEF Target, Subject, Creating
  <2>3. InHand' = InHand
    BY <1>1, <1>5, <1>7, <2>1 DEF InHand, Subject, Creating
  <2>4. run[Target] = None
    BY <1>2, <1>3, <1>7 DEF RunsInv
  <2> QED BY <1>1, <1>3, <1>5, <1>7, <2>1, <2>2, <2>3, <2>4, Apart
<1> QED BY <1>6, <1>7

LEMMA SaveKeeps ==
    ASSUME CatalogInv, Save
    PROVE  CatalogInv'
<1>1. /\ pc = "save" /\ pc' = "sync" /\ item \in Rows /\ item # None
      /\ Job' = Job /\ Target' \in Tasks
      /\ row' = [row EXCEPT ![Target'] = item]
      /\ UNCHANGED <<entries, verifies, jobs, item, file, known, made, flawed, run, hooks, due, stored, torn, server>>
      /\ Job.op \in Creating => Target' = nextId /\ nextId' = nextId + 1
      /\ Job.op \notin Creating => Target' = Target /\ nextId' = nextId
      /\ InHand' = InHand \cup {Target'}
      /\ run[Target'] = None
  BY SaveShape
<1>2. TasksTypeOK /\ RequestInv /\ DownInv /\ IdsInv /\ RunsInv /\ CronInv
  BY DEF CatalogInv
<1>3. PICK t \in Tasks : t = Target'
  BY <1>1
<1>4. /\ row' \in [Tasks -> Rows \cup {None}]
      /\ row'[t] = item /\ \A u \in Tasks : u # t => row'[u] = row[u]
      /\ nextId \in Nat \ {0, 1} /\ nextId' \in Nat \ {0, 1}
  <2>1. row \in [Tasks -> Rows \cup {None}] /\ nextId \in Nat \ {0, 1}
    BY <1>2 DEF TasksTypeOK
  <2>2. row' = [row EXCEPT ![t] = item]
    BY <1>1, <1>3
  <2>3. row' \in [Tasks -> Rows \cup {None}] /\ row'[t] = item /\ \A u \in Tasks : u # t => row'[u] = row[u]
    BY <1>1, <2>1, <2>2
  <2>4. nextId' = nextId \/ nextId' = nextId + 1
    BY <1>1
  <2>5. nextId' \in Nat \ {0, 1}
    BY <2>1, <2>4
  <2> QED BY <2>1, <2>3, <2>5
<1>5. TasksTypeOK'
  BY <1>1, <1>2, <1>4 DEF TasksTypeOK
<1>6. RequestInv'
  <2>1. Job.op # "delete" /\ jobs # <<>>
    BY <1>1, <1>2 DEF RequestInv
  <2>2. row'[Target'] = item
    BY <1>3, <1>4
  <2> QED BY <1>1, <2>1, <2>2 DEF RequestInv
<1>7. DownInv'
  BY <1>1, <1>2 DEF DownInv
<1>8. IdsInv'
  <2>1. \A u \in Tasks : u >= nextId' => row'[u] = None
    <3> SUFFICES ASSUME NEW u \in Tasks, u >= nextId' PROVE row'[u] = None
      OBVIOUS
    <3>1. u \in Nat /\ t \in Nat
      BY Apart
    <3>2. u >= nextId /\ row[u] = None
      BY <1>1, <1>2, <1>4, <3>1 DEF IdsInv
    <3>3. u # t
      <4>1. CASE Job.op \in Creating
        BY <1>1, <1>3, <1>4, <3>1, <4>1
      <4>2. CASE Job.op \notin Creating
        BY <1>1, <1>2, <1>3, <3>2, <4>2 DEF RequestInv
      <4> QED BY <4>1, <4>2
    <3> QED BY <1>4, <3>2, <3>3
  <2>2. \A n \in Names : made[n] # None => made[n] < nextId
    BY <1>1, Marks
  <2>3. Job.op \in Creating => nextId' - 1 = nextId
    <3>1. nextId \in Nat
      BY <1>4
    <3> QED BY <1>1, <3>1
  <2>4. \A n \in Names : made'[n] # None => made'[n] < (IF pc' = "sync" /\ Job'.op \in Creating THEN nextId' - 1 ELSE nextId')
    BY <1>1, <2>2, <2>3
  <2>5. \A u \in Existing : row[u].name = item.name => u = t
    BY <1>1, <1>2, <1>3 DEF IdsInv
  <2>6. ASSUME NEW u \in Existing', NEW v \in Existing', row'[u].name = row'[v].name PROVE u = v
    <3>1. u \in Tasks /\ v \in Tasks /\ (u # t => u \in Existing) /\ (v # t => v \in Existing)
      BY <1>4 DEF Existing
    <3>2. CASE u = t
      BY <1>4, <2>5, <2>6, <3>1, <3>2
    <3>3. CASE v = t
      BY <1>4, <2>5, <2>6, <3>1, <3>3
    <3>4. CASE u # t /\ v # t
      BY <1>2, <1>4, <2>6, <3>1, <3>4 DEF IdsInv
    <3> QED BY <3>2, <3>3, <3>4
  <2> QED BY <1>1, <2>1, <2>4, <2>6 DEF IdsInv, Creating
<1>9. RunsInv'
  BY <1>1, <1>2, <1>3, <1>4 DEF RunsInv
<1>10. CronInv'
  <2>1. Behind = {} /\ Behind' = {t}
    BY <1>1, <1>3 DEF Behind
  <2>2. ASSUME server = "serving", NEW u \in Tasks \ (torn \cup {t}) PROVE Follows(u)'
    BY <1>1, <1>2, <1>4, <2>1, <2>2 DEF CronInv, Follows
  <2>3. \A u \in Tasks \ torn : row'[u] = None => u \notin stored
    BY <1>1, <1>2, <1>4 DEF CronInv
  <2> QED BY <1>1, <2>1, <2>2, <2>3 DEF CronInv
<1> QED BY <1>5, <1>6, <1>7, <1>8, <1>9, <1>10 DEF CatalogInv

LEMMA UnscheduleKeeps ==
    ASSUME CatalogInv, Unschedule \/ Clean
    PROVE  CatalogInv'
<1>1. /\ pc \in {"unschedule", "clean"} /\ pc' \in {"clean", "remove"}
      /\ UNCHANGED <<row, nextId, jobs, item, file, known, made, flawed, run, hooks, due, server>>
  BY DEF Unschedule, Clean, cron, cascade
<1>2. TasksTypeOK /\ RequestInv /\ DownInv /\ IdsInv /\ RunsInv /\ CronInv
  BY DEF CatalogInv
<1>3. Job.op = "delete" /\ Target = Job.id /\ Target \in Tasks /\ row[Job.id] = item /\ item # None
  <2>1. Job.op = "delete"
    BY <1>1, <1>2 DEF RequestInv
  <2> QED BY <1>1, <1>2, <2>1, TargetHand DEF RequestInv
<1>4. Job' = Job /\ InHand' = InHand /\ Target' = Target
  BY <1>1, SameHand
<1>5. Behind' = {Job.id} /\ (pc = "clean" => Behind = {Job.id}) /\ (pc = "unschedule" => Behind = {})
  BY <1>1, <1>3, <1>4 DEF Behind
<1>6. /\ entries \in [Tasks -> Crons \cup {None}] /\ verifies \in [Tasks -> {"", "weekly", None}]
      /\ torn \subseteq Tasks /\ stored \subseteq Tasks
      /\ \A t \in Tasks \ torn : row[t] = None => t \notin stored
  BY CatalogTypes
<1>7. /\ entries' \in [Tasks -> Crons \cup {None}] /\ verifies' \in [Tasks -> {"", "weekly", None}]
      /\ torn' \subseteq Tasks /\ stored' \subseteq stored /\ torn \subseteq torn'
      /\ entries'[Job.id] = None /\ verifies'[Job.id] = None
      /\ \A t \in Tasks : t # Job.id => entries'[t] = entries[t] /\ verifies'[t] = verifies[t]
      /\ pc' = "remove" => Job.id \in torn' \/ Job.id \notin stored'
  <2>1. CASE Unschedule
    BY <1>3, <1>6, <2>1 DEF Unschedule, RemoveTask
  <2>2. CASE Clean
    <3>1. entries' = entries /\ verifies' = verifies
      BY <2>2 DEF Clean, cron
    <3>2. entries[Job.id] = None /\ verifies[Job.id] = None
      BY <1>2, <2>2 DEF CronInv, Clean
    <3>3. \/ stored' = stored \ {Job.id} /\ torn' = torn
          \/ torn' = torn \cup {Job.id} /\ stored' = stored
      BY <2>2 DEF Clean
    <3> QED BY <1>3, <1>6, <3>1, <3>2, <3>3
  <2> QED BY <2>1, <2>2
<1>8. TasksTypeOK'
  BY <1>1, <1>2, <1>6, <1>7 DEF TasksTypeOK
<1>9. RequestInv'
  BY <1>1, <1>2, <1>3, <1>4 DEF RequestInv
<1>10. DownInv'
  BY <1>1, <1>2 DEF DownInv, RequestInv
<1>11. IdsInv'
  BY <1>1, <1>2, <1>4 DEF IdsInv, Existing
<1>12. RunsInv'
  BY <1>1, <1>2, <1>4 DEF RunsInv
<1>13. CronInv'
  <2>1. ASSUME server = "serving", NEW t \in Tasks \ (torn' \cup {Job.id}) PROVE Follows(t)'
    <3>1. Follows(t)
      BY <1>2, <1>5, <1>7, <1>1, <2>1 DEF CronInv
    <3> QED BY <1>1, <1>7, <2>1, <3>1 DEF Follows
  <2>2. \A t \in Tasks \ torn' : row[t] = None => t \notin stored'
    BY <1>6, <1>7
  <2> QED BY <1>1, <1>4, <1>5, <1>7, <2>1, <2>2 DEF CronInv
<1> QED BY <1>8, <1>9, <1>10, <1>11, <1>12, <1>13 DEF CatalogInv

--------------------------------------------------------------------------------
(* The Master dies and starts again.                                          *)
LEMMA CrashKeeps ==
    ASSUME CatalogInv, Crash
    PROVE  CatalogInv'
<1>1. /\ server' = "down" /\ jobs' = <<>> /\ pc' = "idle" /\ item' = None
      /\ entries' = [t \in Tasks |-> None] /\ verifies' = [t \in Tasks |-> None]
      /\ known' = [n \in Names |-> None] /\ made' = [n \in Names |-> None] /\ flawed' = {}
      /\ run' = [t \in Tasks |-> None] /\ hooks' = {} /\ due' = {}
      /\ UNCHANGED <<row, nextId, file, stored, torn>>
  BY DEF Crash, Fresh
<1>2. TasksTypeOK /\ IdsInv /\ CronInv
  BY DEF CatalogInv
<1>3. TasksTypeOK'
  <2>1. /\ entries' \in [Tasks -> Crons \cup {None}] /\ verifies' \in [Tasks -> {"", "weekly", None}]
        /\ known' \in [Names -> Tasks \cup {None}] /\ made' \in [Names -> Tasks \cup {None}]
        /\ run' \in [Tasks -> RunRecords \cup {None}] /\ jobs' \in Seq(JobRecords)
    BY <1>1
  <2> QED BY <1>1, <1>2, <2>1 DEF TasksTypeOK
<1>4. RequestInv' /\ DownInv' /\ RunsInv'
  BY <1>1 DEF RequestInv, DownInv, RunsInv
<1>5. IdsInv'
  BY <1>1, <1>2 DEF IdsInv, Existing
<1>6. CronInv'
  BY <1>1, <1>2 DEF CronInv
<1> QED BY <1>3, <1>4, <1>5, <1>6 DEF CatalogInv

LEMMA StartupKeeps ==
    ASSUME CatalogInv, Startup
    PROVE  CatalogInv'
<1>1. /\ server = "down"
      /\ row' = [t \in Tasks |-> IF row[t] # None /\ row[t].last = "running"
                                 THEN [row[t] EXCEPT !.last = "failed"] ELSE row[t]]
      /\ UNCHANGED <<nextId, jobs, pc, item, file, known, made, flawed, run, hooks, due, stored>>
  BY DEF Startup, request, cascade
<1>2. TasksTypeOK /\ RequestInv /\ DownInv /\ IdsInv /\ RunsInv /\ CronInv
  BY DEF CatalogInv
<1>3. pc = "idle" /\ jobs = <<>> /\ \A t \in Tasks : run[t] = None
  BY <1>1, <1>2 DEF DownInv, RequestInv
<1>4. ASSUME NEW t \in Tasks
      PROVE  /\ row'[t] \in Rows \cup {None} /\ (row'[t] = None <=> row[t] = None)
             /\ row[t] # None => /\ row'[t].name = row[t].name /\ row'[t].cron = row[t].cron
                                 /\ row'[t].verify = row[t].verify
             /\ Schedulable(row'[t]) <=> Schedulable(row[t])
             /\ VerifySchedulable(row'[t]) <=> VerifySchedulable(row[t])
  <2>1. row[t] \in Rows \cup {None}
    BY CatalogTypes
  <2>2. CASE row[t] # None /\ row[t].last = "running"
    <3>1. row[t] \in Rows /\ row'[t] = [row[t] EXCEPT !.last = "failed"]
      BY <1>1, <2>1, <2>2
    <3>2. row'[t] \in Rows /\ Like(row'[t], row[t])
      BY <3>1 DEF Rows, Like
    <3> QED BY <3>1, <3>2, LikeFields, Apart
  <2>3. CASE ~(row[t] # None /\ row[t].last = "running")
    <3>1. row'[t] = row[t]
      BY <1>1, <2>3
    <3> QED BY <2>1, <3>1
  <2> QED BY <2>2, <2>3
<1>5. row' \in [Tasks -> Rows \cup {None}]
  <2>1. row' = [t \in Tasks |-> row'[t]]
    BY <1>1
  <2> QED BY <1>4, <2>1
<1>6. RequestInv' /\ RunsInv' /\ DownInv'
  BY <1>1, <1>3 DEF RequestInv, RunsInv, DownInv
<1>7. IdsInv'
  <2>1. Existing' = Existing
    BY <1>4 DEF Existing
  <2>2. \A t \in Existing : row'[t].name = row[t].name
    BY <1>4 DEF Existing
  <2>3. \A t, u \in Existing : row'[t].name = row'[u].name => t = u
    BY <1>2, <2>2 DEF IdsInv
  <2>4. \A t \in Tasks : t >= nextId => row'[t] = None
    BY <1>2, <1>4 DEF IdsInv
  <2>5. \A n \in Names : made[n] # None => made[n] < nextId
    BY <1>2, <1>3 DEF IdsInv
  <2> QED BY <1>1, <1>3, <2>1, <2>3, <2>4, <2>5 DEF IdsInv
<1>8. Behind' = {}
  BY <1>1, <1>3 DEF Behind
<1>9. CASE \E t \in Tasks : Schedulable(row[t]) /\ row[t].cron = "broken"
  <2>1. server' = "refused" /\ entries' = entries /\ verifies' = verifies /\ torn' = torn
    BY <1>9 DEF Startup, cron
  <2>2. TasksTypeOK'
    BY <1>1, <1>2, <1>5, <2>1 DEF TasksTypeOK
  <2>3. CronInv'
    BY <1>1, <1>2, <1>3, <1>4, <2>1 DEF CronInv
  <2> QED BY <1>6, <1>7, <2>2, <2>3 DEF CatalogInv
<1>10. CASE ~(\E t \in Tasks : Schedulable(row[t]) /\ row[t].cron = "broken")
  <2>1. /\ server' = "serving"
        /\ entries' = [t \in Tasks |-> IF Schedulable(row[t]) THEN row[t].cron ELSE None]
        /\ verifies' = [t \in Tasks |-> IF VerifySchedulable(row[t]) THEN row[t].verify ELSE None]
        /\ torn' = torn \cap {t \in Tasks : row[t] = None}
    BY <1>10 DEF Startup
  <2>2. ASSUME NEW t \in Tasks PROVE entries'[t] \in Crons \cup {None} /\ verifies'[t] \in {"", "weekly", None}
    <3>1. row[t] \in Rows \cup {None}
      BY CatalogTypes
    <3>2. row[t] # None => row[t].cron \in Crons /\ row[t].verify \in {"", "weekly"}
      BY <3>1 DEF Rows
    <3> QED BY <2>1, <3>2 DEF Schedulable, VerifySchedulable
  <2>3. entries' \in [Tasks -> Crons \cup {None}] /\ verifies' \in [Tasks -> {"", "weekly", None}] /\ torn' \subseteq Tasks
    BY <2>1, <2>2
  <2>4. TasksTypeOK'
    BY <1>1, <1>2, <1>5, <2>1, <2>3 DEF TasksTypeOK
  <2>5. \A t \in Tasks : Follows(t)'
    BY <1>4, <2>1 DEF Follows, Schedulable, VerifySchedulable
  <2>6. \A t \in Tasks \ torn' : row'[t] = None => t \notin stored'
    BY <1>1, <1>4, <2>1, CatalogTypes
  <2> QED BY <1>1, <1>3, <1>6, <1>7, <2>1, <2>4, <2>5, <2>6 DEF CatalogInv, CronInv
<1> QED BY <1>9, <1>10

--------------------------------------------------------------------------------
(* The whole.                                                                 *)
LEMMA CatalogBegins == TasksInit => CatalogInv
<1> SUFFICES ASSUME TasksInit PROVE CatalogInv
  OBVIOUS
<1>1. /\ row = [t \in Tasks |-> IF t = 1 THEN First ELSE None] /\ nextId = 2
      /\ jobs = <<>> /\ pc = "idle" /\ item = None
      /\ known = [n \in Names |-> None] /\ made = [n \in Names |-> None] /\ flawed = {}
      /\ run = [t \in Tasks |-> None] /\ hooks = {} /\ due = {} /\ stored = {} /\ torn = {} /\ server = "serving"
      /\ entries = [t \in Tasks |-> IF t = 1 /\ First.enabled /\ First.cron # "" THEN First.cron ELSE None]
      /\ verifies = [t \in Tasks |-> IF t = 1 /\ First.enabled /\ First.verify # "" THEN First.verify ELSE None]
  BY DEF TasksInit
<1>2. First \in Rows /\ First # None /\ 1 \in Tasks /\ Tasks \subseteq Nat
  BY Apart, RowsAssumption
<1>3. First.cron \in Crons /\ First.verify \in {"", "weekly"}
  BY <1>2 DEF Rows
<1>4. file \in Seq(Exported)
  BY RowsAssumption DEF TasksInit
<1>5. /\ row \in [Tasks -> Rows \cup {None}]
      /\ entries \in [Tasks -> Crons \cup {None}] /\ verifies \in [Tasks -> {"", "weekly", None}]
  BY <1>1, <1>2, <1>3
<1>6. TasksTypeOK
  <2>1. known \in [Names -> Tasks \cup {None}] /\ made \in [Names -> Tasks \cup {None}]
    BY <1>1
  <2>2. run \in [Tasks -> RunRecords \cup {None}]
    BY <1>1
  <2>3. jobs = <<>> /\ <<>> \in Seq(JobRecords)
    BY <1>1, EmptySeq
  <2>4. nextId \in Nat \ {0, 1}
    <3>1. nextId = 2
      BY <1>1
    <3> QED BY <3>1
  <2> QED BY <1>1, <1>4, <1>5, <2>1, <2>2, <2>3, <2>4 DEF TasksTypeOK
<1>7. RequestInv /\ DownInv /\ RunsInv
  BY <1>1 DEF RequestInv, DownInv, RunsInv
<1>8. Existing = {1}
  BY <1>1, <1>2 DEF Existing
<1>9. IdsInv
  <2>1. \A t \in Tasks : t >= 2 => t # 1
    BY <1>2
  <2>2. \A t \in Tasks : t >= 2 => row[t] = None
    BY <1>1, <2>1
  <2> QED BY <1>1, <1>8, <2>2 DEF IdsInv
<1>10. \A t \in Tasks : Follows(t)
  BY <1>1, <1>2 DEF Follows, Schedulable, VerifySchedulable
<1>11. CronInv
  BY <1>1, <1>10 DEF CronInv
<1> QED BY <1>6, <1>7, <1>9, <1>11 DEF CatalogInv

LEMMA CatalogIdles == ASSUME CatalogInv, UNCHANGED vars PROVE CatalogInv'
<1>1. UNCHANGED <<row, request, nextId, cron, torn, stored, server>> /\ run' = run /\ hooks' = hooks /\ due' = due
  BY DEF vars, cascade
<1>2. hooks' \subseteq Tasks /\ due' \subseteq Tasks
  BY <1>1 DEF CatalogInv, TasksTypeOK
<1> QED BY <1>1, <1>2, RunMoves

LEMMA CatalogNext ==
    ASSUME CatalogInv, Overlap = FALSE, [TasksNext]_vars
    PROVE  CatalogInv'
<1>1. CASE \/ \E in \in Inputs : Create(in) \/ \E t \in Tasks : Update(t, in)
           \/ \E ids \in Batches : BatchDeleteTasks(ids) \/ \E on \in BOOLEAN : BatchToggle(ids, on)
           \/ \E in \in Inputs, names \in NameLists : Apply(in, names)
           \/ Import
  BY <1>1, RequestsKeep
<1>2. CASE Export
  BY <1>2, ExportKeeps
<1>3. CASE RequestStep \/ RequestFails
  BY <1>3, CheckKeeps, RejectKeeps, SaveKeeps, SyncKeeps, UnscheduleKeeps, RemoveKeeps, RemoveFailsKeeps
     DEF RequestStep, RequestFails
<1>4. CASE \E t \in Tasks : Tick(t) \/ RunTaskByID(t) \/ RunStep(t)
  BY <1>4, RunStepKeeps
<1>5. CASE Crash \/ Startup
  BY <1>5, CrashKeeps, StartupKeeps
<1>6. CASE UNCHANGED vars
  BY <1>6, CatalogIdles
<1> QED BY <1>1, <1>2, <1>3, <1>4, <1>5, <1>6 DEF TasksNext

(* Every state of the catalog stays within its types, and its requests, ids,  *)
(* runs and schedules agree, when no run and no request on a task overlap.    *)
THEOREM TasksTyped == Overlap = FALSE => (TasksSpec => []CatalogInv)
<1> SUFFICES ASSUME Overlap = FALSE PROVE TasksSpec => []CatalogInv
  OBVIOUS
<1>1. CatalogInv /\ [TasksNext]_vars => CatalogInv'
  BY CatalogNext
<1> QED BY <1>1, CatalogBegins, PTL DEF TasksSpec

(* What the scheduler runs is what the rows say, and no deleted task has an   *)
(* entry or a stored backup (SyncTask, RemoveTask, RescheduleTask and Reload):*)
(* only the task whose row the request in hand has just saved, or has begun   *)
(* to delete, may differ, and one on which a call failed half-way.            *)
THEOREM ScheduleFollowsRowsHolds == Overlap = FALSE => (TasksSpec => []ScheduleFollowsRows)
<1> SUFFICES ASSUME Overlap = FALSE PROVE TasksSpec => []ScheduleFollowsRows
  OBVIOUS
<1>1. CatalogInv => ScheduleFollowsRows
  <2> SUFFICES ASSUME CatalogInv, server = "serving", NEW t \in Tasks \ (torn \cup InHand)
               PROVE  Follows(t) /\ (row[t] = None => t \notin stored)
    BY DEF ScheduleFollowsRows, Follows
  <2>1. Behind \subseteq InHand
    BY TargetHand DEF CatalogInv, Behind
  <2> QED BY <2>1 DEF CatalogInv, CronInv
<1>2. TasksSpec => []CatalogInv
  BY TasksTyped
<1> QED BY <1>1, <1>2, PTL

--------------------------------------------------------------------------------
(* Imports.                                                                   *)
LEMMA ImportTypes ==
    ASSUME CatalogInv
    PROVE  /\ file \in Seq(Exported) /\ Len(file) \in Nat /\ DOMAIN file = 1 .. Len(file)
           /\ jobs \in Seq(JobRecords) /\ Len(jobs) \in Nat /\ DOMAIN jobs = 1 .. Len(jobs)
           /\ \A i \in DOMAIN file : file[i] \in Exported /\ file[i].name \in Names
           /\ made \in [Names -> Tasks \cup {None}] /\ nextId \in Nat
<1>1. /\ file \in Seq(Exported) /\ jobs \in Seq(JobRecords)
      /\ made \in [Names -> Tasks \cup {None}] /\ nextId \in Nat
  BY DEF CatalogInv, TasksTypeOK
<1>2. \A i \in DOMAIN file : file[i] \in Exported
  BY <1>1
<1>3. \A i \in DOMAIN file : file[i].name \in Names
  BY <1>2 DEF Exported
<1>4. Len(file) \in Nat /\ DOMAIN file = 1 .. Len(file) /\ Len(jobs) \in Nat /\ DOMAIN jobs = 1 .. Len(jobs)
  BY <1>1
<1> QED BY <1>1, <1>2, <1>3, <1>4

(* The name the job in hand is about, and what is left to do after it.        *)
LEMMA ImportPlace ==
    ASSUME CatalogInv, ImportInv, Importing
    PROVE  \E k \in 1 .. Len(file) :
              /\ Job.from = file[k]
              /\ \/ Job.op = "import" /\ Len(jobs) = Len(file) + Len(file) - k + 1
                 \/ Job.op = "link" /\ Len(jobs) = Len(file) - k + 1
<1> DEFINE n == Len(file)
<1>1. n \in Nat /\ Len(jobs) \in Nat /\ DOMAIN jobs = 1 .. Len(jobs)
  BY ImportTypes
<1>2. jobs # <<>> /\ Job = jobs[1] /\ Len(jobs) # 0
  <2>1. TasksTypeOK /\ jobs # <<>>
    BY DEF CatalogInv, Importing
  <2> QED BY <2>1, JobInHand
<1>3. Len(jobs) <= n + n /\ jobs[1] = ImportJobs(file)[n + n - Len(jobs) + 1]
  BY <1>1, <1>2 DEF ImportInv
<1> DEFINE m == n + n - Len(jobs) + 1
<1>4. m \in 1 .. n + n /\ Len(jobs) = n + n - m + 1
  BY <1>1, <1>2, <1>3
<1>5. Job = IF m <= n THEN [op |-> "import", from |-> file[m]] ELSE [op |-> "link", from |-> file[m - n]]
  BY <1>2, <1>3, <1>4 DEF ImportJobs
<1> HIDE DEF m
<1>6. CASE m <= n
  <2>1. Job.op = "import" /\ Job.from = file[m] /\ m \in 1 .. n
    BY <1>1, <1>4, <1>5, <1>6
  <2> QED BY <1>4, <2>1
<1>7. CASE ~(m <= n)
  <2>1. Job.op = "link" /\ Job.from = file[m - n] /\ m - n \in 1 .. n
    BY <1>1, <1>4, <1>5, <1>7
  <2>2. Len(jobs) = n - (m - n) + 1
    BY <1>1, <1>4
  <2> QED BY <2>1, <2>2
<1> QED BY <1>6, <1>7

(* A new request, or none.                                                    *)
LEMMA ImportFresh ==
    ASSUME made' = [n \in Names |-> None], pc' \notin {"save", "sync"},
           file' \in Seq(Exported),
           \A i, j \in DOMAIN file' : file'[i].name = file'[j].name => i = j,
           \/ jobs' = ImportJobs(file)' /\ Len(jobs') = Len(file') + Len(file')
           \/ jobs' = <<>>
           \/ /\ jobs' \in Seq(JobRecords)
              /\ \A i \in DOMAIN jobs' : jobs'[i].op \notin {"import", "link"}
    PROVE  ImportInv'
<1>1. \A i \in DOMAIN file' : file'[i].name \in Names
  <2>1. \A i \in DOMAIN file' : file'[i] \in Exported
    OBVIOUS
  <2> QED BY <2>1 DEF Exported
<1>2. \A i \in DOMAIN file' : made'[file'[i].name] = None
  BY <1>1
<1>3. (\A n \in Names : made'[n] = None) /\ (\A i \in DOMAIN file' : Depends(i)')
  BY <1>2 DEF Depends
<1>4. CASE jobs' = ImportJobs(file)' /\ Len(jobs') = Len(file') + Len(file')
  <2>1. Len(file') \in Nat /\ DOMAIN jobs' = 1 .. Len(file') + Len(file')
    BY <1>4 DEF ImportJobs
  <2>2. \A i \in DOMAIN jobs' : Len(file') + Len(file') - Len(jobs') + i = i
    BY <1>4, <2>1
  <2>3. jobs' # <<>> => Importing'
    <3>1. ASSUME jobs' # <<>> PROVE Len(jobs') # 0
      BY <1>4, <2>1, <3>1
    <3>2. ASSUME jobs' # <<>> PROVE jobs'[1].op \in {"import", "link"}
      <4>1. 1 \in 1 .. Len(file') + Len(file')
        BY <1>4, <2>1, <3>1, <3>2
      <4>2. jobs'[1] = IF 1 <= Len(file') THEN [op |-> "import", from |-> file'[1]]
                                          ELSE [op |-> "link", from |-> file'[1 - Len(file')]]
        BY <1>4, <4>1 DEF ImportJobs
      <4> QED BY <4>2
    <3> QED BY <3>2 DEF Importing, Job
  <2> QED BY <1>2, <1>3, <1>4, <2>1, <2>2, <2>3 DEF ImportInv
<1>5. CASE jobs' = <<>>
  BY <1>2, <1>3, <1>5 DEF ImportInv, Importing
<1>6. CASE /\ jobs' \in Seq(JobRecords)
           /\ \A i \in DOMAIN jobs' : jobs'[i].op \notin {"import", "link"}
  <2>1. ~Importing'
    <3>1. jobs' # <<>> => 1 \in DOMAIN jobs' /\ Job' = jobs'[1]
      BY <1>6 DEF Job
    <3> QED BY <1>6, <3>1 DEF Importing
  <2> QED BY <1>2, <1>3, <1>6, <2>1 DEF ImportInv
<1> QED BY <1>4, <1>5, <1>6

(* Steps that leave requests and dependencies alone.                          *)
LEMMA ImportFrame ==
    ASSUME CatalogInv, ImportInv, UNCHANGED <<request, nextId>>,
           \A t \in Tasks : row[t] # None => row'[t] # None /\ row'[t].deps = row[t].deps
    PROVE  ImportInv'
<1>1. /\ jobs' = jobs /\ pc' = pc /\ item' = item /\ file' = file /\ known' = known /\ made' = made
      /\ flawed' = flawed /\ Job' = Job
  BY SameTarget DEF request
<1>2. \A i \in DOMAIN file : made[file[i].name] \in Tasks \cup {None}
  BY ImportTypes
<1>3. Importing' = Importing /\ ImportJobs(file)' = ImportJobs(file)
  BY <1>1 DEF Importing, ImportJobs
<1>4. \A i \in DOMAIN file : (LinkedBy(i)' <=> LinkedBy(i)) /\ Linked(file[i])' = Linked(file[i])
  BY <1>1 DEF LinkedBy, Linked
<1>5. Linked(Job.from)' = Linked(Job.from)
  BY <1>1 DEF Linked
<1>6. ASSUME NEW i \in DOMAIN file PROVE Depends(i)'
  <2>1. Depends(i)
    BY DEF ImportInv
  <2>2. LinkedBy(i)' <=> LinkedBy(i)
    BY <1>4
  <2>3. Linked(file[i])' = Linked(file[i])
    BY <1>4
  <2> QED BY <1>1, <1>2, <2>1, <2>2, <2>3 DEF Depends
<1> QED BY <1>1, <1>3, <1>5, <1>6 DEF ImportInv

(* Requests that import nothing.                                              *)
LEMMA ImportAway ==
    ASSUME CatalogInv, CatalogInv', ImportInv, jobs # <<>>, ~Importing, jobs' \in {jobs, Tail(jobs)},
           made' = made, file' = file
    PROVE  ImportInv'
<1>1. /\ \A i \in DOMAIN jobs : jobs[i].op \notin {"import", "link"}
      /\ \A n \in Names : made[n] = None
  BY DEF ImportInv
<1>2. TasksTypeOK
  BY DEF CatalogInv
<1>3. jobs' \in Seq(JobRecords) /\ \A i \in DOMAIN jobs' : jobs'[i].op \notin {"import", "link"}
  <2>1. jobs \in Seq(JobRecords)
    BY <1>2 DEF TasksTypeOK
  <2>2. CASE jobs' = jobs
    BY <1>1, <2>1, <2>2
  <2>3. CASE jobs' = Tail(jobs)
    <3>1. Tail(jobs) \in Seq(JobRecords)
      BY <1>2, JobInHand
    <3>2. \A i \in DOMAIN Tail(jobs) : Tail(jobs)[i] = jobs[i + 1] /\ i + 1 \in DOMAIN jobs
      BY <1>2, JobInHand
    <3> QED BY <1>1, <2>3, <3>1, <3>2
  <2> QED BY <2>2, <2>3
<1>4. jobs' # <<>> => Job'.op \notin {"import", "link"}
  <2>1. jobs' # <<>> => 1 \in DOMAIN jobs' /\ Job' = jobs'[1]
    BY <1>3 DEF Job
  <2> QED BY <1>3, <2>1
<1>5. ~Importing'
  BY <1>4 DEF Importing
<1>6. \A i \in DOMAIN file : made[file[i].name] = None
  BY <1>1, ImportTypes
<1>7. \A i \in DOMAIN file' : Depends(i)'
  BY <1>6 DEF Depends
<1>8. \A i, j \in DOMAIN file' : file'[i].name = file'[j].name => i = j
  BY DEF ImportInv
<1>9. \A n \in Names : made'[n] = None
  BY <1>1
<1>10. pc' \in {"save", "sync"} => (Job'.op = "import" => item'.deps = {}) /\ (Job'.op = "link" => item'.deps = Linked(Job.from)')
  <2>1. CASE jobs' # <<>>
    BY <1>4, <2>1
  <2>2. CASE jobs' = <<>>
    <3>1. pc' \notin {"save", "sync"}
      BY <2>2 DEF CatalogInv, RequestInv
    <3> QED BY <3>1
  <2> QED BY <2>1, <2>2
<1> QED BY <1>3, <1>5, <1>7, <1>8, <1>9, <1>10 DEF ImportInv

(* A job of an import that is begun, and one whose row is saved.              *)
LEMMA ImportSame ==
    ASSUME Importing, jobs' = jobs, made' = made, known' = known, file' = file
    PROVE  /\ Job' = Job /\ Importing' /\ ImportJobs(file)' = ImportJobs(file)
           /\ Linked(Job.from)' = Linked(Job.from)
           /\ \A i : Linked(file[i])' = Linked(file[i])
<1>1. Job' = Job
  BY DEF Job
<1> QED BY <1>1 DEF Importing, ImportJobs, Linked

LEMMA ImportCheck ==
    ASSUME CatalogInv, ImportInv, Importing, Check
    PROVE  ImportInv'
<1>1. /\ pc = "check" /\ pc' # "sync"
      /\ UNCHANGED <<row, jobs, file, known, made, flawed>>
  BY DEF Check
<1>2. Job.op = "import" => item'.deps = {}
  BY CheckShape
<1>3. Job.op = "link" => item'.deps = Linked(Job.from)
  BY CheckShape
<1>4. /\ Job' = Job /\ Importing' /\ ImportJobs(file)' = ImportJobs(file)
      /\ Linked(Job.from)' = Linked(Job.from)
      /\ \A i : Linked(file[i])' = Linked(file[i])
  BY <1>1, ImportSame
<1>5. ASSUME NEW i \in DOMAIN file PROVE Depends(i)'
  <2>1. Depends(i)
    BY DEF ImportInv
  <2>2. LinkedBy(i)' <=> LinkedBy(i)
    BY <1>1 DEF LinkedBy
  <2> QED BY <1>1, <1>4, <2>1, <2>2 DEF Depends
<1> QED BY <1>1, <1>2, <1>3, <1>4, <1>5 DEF ImportInv

LEMMA ImportSave ==
    ASSUME CatalogInv, ImportInv, Importing, Save
    PROVE  ImportInv'
<1>1. /\ pc = "save" /\ pc' = "sync" /\ item # None
      /\ Job' = Job /\ Target' \in Tasks
      /\ row' = [row EXCEPT ![Target'] = item]
      /\ UNCHANGED <<jobs, item, file, known, made, flawed>>
      /\ Job.op \in Creating => Target' = nextId
      /\ Job.op \notin Creating => Target' = Target
      /\ jobs # <<>> /\ Job \in JobRecords
  BY SaveShape
<1>2. /\ Importing' /\ ImportJobs(file)' = ImportJobs(file)
      /\ Linked(Job.from)' = Linked(Job.from)
      /\ \A i : Linked(file[i])' = Linked(file[i])
  BY <1>1, ImportSame
<1>3. PICK k \in 1 .. Len(file) :
         /\ Job.from = file[k]
         /\ \/ Job.op = "import" /\ Len(jobs) = Len(file) + Len(file) - k + 1
            \/ Job.op = "link" /\ Len(jobs) = Len(file) - k + 1
  BY ImportPlace
<1>4. /\ Job.op = "import" => item.deps = {}
      /\ Job.op = "link" => item.deps = Linked(Job.from)
  BY <1>1 DEF ImportInv
<1>5. Len(file) \in Nat /\ Len(jobs) \in Nat /\ DOMAIN file = 1 .. Len(file)
      /\ \A i \in DOMAIN file : file[i].name \in Names /\ made[file[i].name] \in Tasks \cup {None}
  BY ImportTypes
<1>6. PICK t : t = Target'
  OBVIOUS
<1>7. row'[t] = item /\ \A u \in Tasks : u # t => row'[u] = row[u]
  BY <1>1, <1>6, CatalogTypes
<1>8. CASE Job.op = "import"
  <2>1. ASSUME NEW i \in DOMAIN file PROVE Depends(i)'
    <3>1. ~LinkedBy(i) /\ ~LinkedBy(i)'
      BY <1>1, <1>3, <1>5, <1>8 DEF LinkedBy
    <3>2. made[file[i].name] # None => made[file[i].name] # t
      <4>1. t = nextId /\ nextId \in Nat
        BY <1>1, <1>6, <1>8, ImportTypes DEF Creating
      <4>2. made[file[i].name] # None => made[file[i].name] < nextId /\ made[file[i].name] \in Nat
        BY <1>1, <1>5, Marks, Apart
      <4> QED BY <4>1, <4>2
    <3>3. Depends(i)
      BY DEF ImportInv
    <3> QED BY <1>1, <1>2, <1>5, <1>7, <3>1, <3>2, <3>3 DEF Depends
  <2> QED BY <1>1, <1>2, <1>4, <2>1 DEF ImportInv
<1>9. CASE Job.op = "link"
  <2>1. t = made[file[k].name]
    <3>1. Job.op \notin Creating
      BY <1>9 DEF Creating
    <3>2. Target = Subject(Job)
      BY <3>1 DEF Target
    <3>3. Subject(Job) = made[Job.from.name]
      BY <1>1, <1>9, SubjectTyped DEF CatalogInv
    <3> QED BY <1>1, <1>3, <1>6, <3>1, <3>2, <3>3
  <2>2. ASSUME NEW i \in DOMAIN file PROVE Depends(i)'
    <3>1. Depends(i)
      BY DEF ImportInv
    <3>2. CASE i = k
      <4>1. LinkedBy(i)'
        BY <1>1, <1>3, <1>5, <1>9, <3>2 DEF LinkedBy
      <4>2. row'[made[file[i].name]] = item /\ item.deps = Linked(file[i])
        BY <1>3, <1>4, <1>7, <1>9, <2>1, <3>2
      <4> QED BY <1>1, <1>2, <4>1, <4>2 DEF Depends
    <3>3. CASE i # k
      <4>1. LinkedBy(i)' <=> LinkedBy(i)
        BY <1>1, <1>3, <1>5, <1>9, <3>3 DEF LinkedBy
      <4>2. file[i].name # file[k].name
        BY <1>5, <3>3 DEF ImportInv
      <4>3. made[file[i].name] # None => made[file[i].name] # t
        BY <1>5, <2>1, <4>2 DEF ImportInv
      <4> QED BY <1>1, <1>2, <1>5, <1>7, <3>1, <4>1, <4>3 DEF Depends
    <3> QED BY <3>2, <3>3
  <2> QED BY <1>1, <1>2, <1>4, <2>2 DEF ImportInv
<1> QED BY <1>8, <1>9 DEF Importing

(* A job of an import ends.                                                   *)
LEMMA ImportTail ==
    ASSUME CatalogInv, ImportInv, Importing, jobs' = Tail(jobs), file' = file
    PROVE  /\ jobs' # <<>> => Importing'
           /\ Len(jobs') = Len(jobs) - 1 /\ Len(jobs') <= Len(file') + Len(file')
           /\ \A i \in DOMAIN jobs' : jobs'[i] = ImportJobs(file)'[Len(file') + Len(file') - Len(jobs') + i]
<1>1. TasksTypeOK /\ jobs # <<>>
  BY DEF CatalogInv, Importing
<1>2. /\ Tail(jobs) \in Seq(JobRecords) /\ Len(Tail(jobs)) = Len(jobs) - 1 /\ Len(jobs) \in Nat \ {0}
      /\ \A i \in DOMAIN Tail(jobs) : Tail(jobs)[i] = jobs[i + 1] /\ i + 1 \in DOMAIN jobs
  BY <1>1, JobInHand
<1>3. /\ Len(jobs) <= Len(file) + Len(file) /\ Len(file) \in Nat
      /\ \A i \in DOMAIN jobs : jobs[i] = ImportJobs(file)[Len(file) + Len(file) - Len(jobs) + i]
  BY ImportTypes DEF ImportInv
<1>4. ImportJobs(file)' = ImportJobs(file)
  BY DEF ImportJobs
<1>5. DOMAIN jobs' = 1 .. Len(jobs) - 1
  BY <1>2
<1>6. ASSUME NEW i \in DOMAIN jobs'
      PROVE  jobs'[i] = ImportJobs(file)[Len(file) + Len(file) - Len(jobs') + i]
  <2>1. jobs'[i] = ImportJobs(file)[Len(file) + Len(file) - Len(jobs) + (i + 1)]
    BY <1>2, <1>3, <1>6
  <2>2. Len(file) + Len(file) - Len(jobs) + (i + 1) = Len(file) + Len(file) - Len(jobs') + i
    BY <1>2, <1>3, <1>5, <1>6
  <2> QED BY <2>1, <2>2
<1>7. ASSUME jobs' # <<>> PROVE Importing'
  <2>1. Len(jobs') # 0 /\ Len(jobs') \in Nat
    BY <1>2, <1>7, EmptySeq
  <2>2. 1 \in DOMAIN jobs'
    BY <1>2, <1>5, <2>1
  <2> DEFINE m == Len(file) + Len(file) - Len(jobs') + 1
  <2>3. m \in 1 .. Len(file) + Len(file)
    BY <1>2, <1>3, <2>1
  <2>4. jobs'[1] = ImportJobs(file)[m]
    BY <1>6, <2>2
  <2> HIDE DEF m
  <2>5. jobs'[1] = IF m <= Len(file) THEN [op |-> "import", from |-> file[m]]
                                     ELSE [op |-> "link", from |-> file[m - Len(file)]]
    BY <2>3, <2>4 DEF ImportJobs
  <2>6. jobs'[1].op \in {"import", "link"}
    <3>1. PICK j : j = jobs'[1]
      OBVIOUS
    <3>2. j = [op |-> "import", from |-> file[m]] \/ j = [op |-> "link", from |-> file[m - Len(file)]]
      BY <2>5, <3>1
    <3>3. j.op \in {"import", "link"}
      BY <3>2
    <3> QED BY <3>1, <3>3
  <2>7. Job' = jobs'[1]
    BY <1>2, <1>7, <2>1 DEF Job
  <2> QED BY <1>7, <2>6, <2>7 DEF Importing
<1> QED BY <1>2, <1>3, <1>4, <1>6, <1>7

LEMMA ImportOver ==
    ASSUME CatalogInv, CatalogInv', ImportInv, Importing,
           jobs' = Tail(jobs), pc' \in {"idle", "check"}, file' = file, row' = row, flawed \subseteq flawed',
           \/ /\ made' = made /\ known' = known
              /\ \/ Job.op = "import" \/ pc = "sync"
                 \/ Job.from.name \in flawed' \/ made[Job.from.name] = None
                 \/ Linked(Job.from) = {}
           \/ /\ Job.op = "import" /\ pc = "sync"
              /\ made' = [made EXCEPT ![Job.from.name] = Target]
    PROVE  ImportInv'
<1>1. /\ jobs' # <<>> => Importing'
      /\ Len(jobs') = Len(jobs) - 1 /\ Len(jobs') <= Len(file') + Len(file')
      /\ \A i \in DOMAIN jobs' : jobs'[i] = ImportJobs(file)'[Len(file') + Len(file') - Len(jobs') + i]
  BY ImportTail
<1>2. PICK k \in 1 .. Len(file) :
         /\ Job.from = file[k]
         /\ \/ Job.op = "import" /\ Len(jobs) = Len(file) + Len(file) - k + 1
            \/ Job.op = "link" /\ Len(jobs) = Len(file) - k + 1
  BY ImportPlace
<1>3. /\ Len(file) \in Nat /\ Len(jobs) \in Nat /\ DOMAIN file = 1 .. Len(file)
      /\ \A i \in DOMAIN file : file[i].name \in Names /\ made[file[i].name] \in Tasks \cup {None}
      /\ made \in [Names -> Tasks \cup {None}]
  BY ImportTypes
<1>4. /\ \A i, j \in DOMAIN file' : file'[i].name = file'[j].name => i = j
      /\ \A m, n \in Names : made[m] = made[n] /\ made[m] # None => m = n
  BY DEF ImportInv
<1>5. SUFFICES /\ \A i \in DOMAIN file : Depends(i)'
               /\ \A m, n \in Names : made'[m] = made'[n] /\ made'[m] # None => m = n
  BY <1>1, <1>4 DEF ImportInv
<1>6. CASE Job.op = "import"
  <2>1. \A i \in DOMAIN file : ~LinkedBy(i) /\ ~LinkedBy(i)'
    BY <1>1, <1>2, <1>3, <1>6 DEF LinkedBy
  <2>2. CASE made' = made
    <3>1. ASSUME NEW i \in DOMAIN file PROVE Depends(i)'
      <4>1. Depends(i)
        BY DEF ImportInv
      <4> QED BY <2>1, <2>2, <4>1 DEF Depends
    <3> QED BY <1>4, <2>2, <3>1
  <2>3. CASE pc = "sync" /\ made' = [made EXCEPT ![Job.from.name] = Target]
    <3>1. Target = nextId - 1 /\ Target \in Tasks /\ row[Target] = item /\ item \in Rows
      BY <1>6, <2>3, TargetHand DEF CatalogInv, Target, Creating
    <3>2. item.deps = {}
      BY <1>6, <2>3 DEF ImportInv
    <3>3. \A n \in Names : made[n] # None => made[n] # Target
      <4>1. \A n \in Names : made[n] # None => made[n] < nextId - 1
        BY <1>6, <2>3 DEF CatalogInv, IdsInv, Creating
      <4>2. nextId \in Nat
        BY ImportTypes
      <4>3. nextId - 1 \in Int
        BY <4>2
      <4> QED BY <3>1, <4>1, <4>3
    <3>4. Job.from.name \in Names
      BY <1>2, <1>3
    <3>5. /\ made'[Job.from.name] = Target
          /\ \A n \in Names : n # Job.from.name => made'[n] = made[n]
      BY <1>3, <2>3, <3>4
    <3>6. ASSUME NEW i \in DOMAIN file PROVE Depends(i)'
      <4>1. Depends(i)
        BY DEF ImportInv
      <4>2. row[Target] # None
        BY <3>1, Apart
      <4>3. CASE file[i].name = Job.from.name
        BY <2>1, <3>1, <3>2, <3>5, <4>2, <4>3 DEF Depends
      <4>4. CASE file[i].name # Job.from.name
        BY <1>3, <2>1, <3>5, <4>1, <4>4 DEF Depends
      <4> QED BY <4>3, <4>4
    <3>7. \A m, n \in Names : made'[m] = made'[n] /\ made'[m] # None => m = n
      BY <1>4, <3>3, <3>4, <3>5
    <3> QED BY <3>6, <3>7
  <2> QED BY <2>2, <2>3
<1>7. CASE Job.op = "link"
  <2>1. /\ made' = made /\ known' = known
        /\ \/ pc = "sync" \/ Job.from.name \in flawed' \/ made[Job.from.name] = None
           \/ Linked(Job.from) = {}
    BY <1>7
  <2>2. \A i : Linked(file[i])' = Linked(file[i])
    BY <2>1 DEF Linked
  <2>3. ASSUME NEW i \in DOMAIN file PROVE Depends(i)'
    <3>1. Depends(i)
      BY DEF ImportInv
    <3>2. CASE i = k
      <4>1. LinkedBy(i)' /\ (LinkedBy(i) <=> pc = "sync")
        BY <1>1, <1>2, <1>3, <1>7, <3>2 DEF LinkedBy
      <4>2. CASE pc = "sync"
        BY <2>1, <2>2, <3>1, <4>1, <4>2 DEF Depends
      <4>3. CASE file[i].name \in flawed' \/ made[file[i].name] = None
        BY <2>1, <4>3 DEF Depends
      <4>4. CASE Linked(file[i]) = {}
        BY <2>1, <2>2, <3>1, <4>1, <4>4 DEF Depends
      <4> QED BY <1>2, <2>1, <3>2, <4>2, <4>3, <4>4
    <3>3. CASE i # k
      <4>1. LinkedBy(i)' <=> LinkedBy(i)
        BY <1>1, <1>2, <1>3, <1>7, <3>3 DEF LinkedBy
      <4> QED BY <2>1, <2>2, <3>1, <4>1 DEF Depends
    <3> QED BY <3>2, <3>3
  <2> QED BY <1>4, <2>1, <2>3
<1> QED BY <1>6, <1>7 DEF Importing

(* The steps of an import, and the rest.                                      *)
LEMMA ImportStepKeeps ==
    ASSUME CatalogInv, CatalogInv', ImportInv, RequestStep \/ RequestFails
    PROVE  ImportInv'
<1>1. pc # "idle" /\ jobs # <<>> /\ file' = file
  <2>1. pc # "idle" /\ file' = file
    BY DEF RequestStep, RequestFails, Check, Reject, Save, SaveFails, AssocFails, Sync, Unschedule, Clean,
           Remove, RemoveFails, Refused, Over
  <2> QED BY <2>1 DEF CatalogInv, RequestInv
<1>2. CASE ~Importing
  <2>1. jobs' \in {jobs, Tail(jobs)}
    BY DEF RequestStep, RequestFails, Check, Reject, Save, SaveFails, AssocFails, Sync, Unschedule, Clean,
           Remove, RemoveFails, Refused, Over
  <2>2. Job.op # "import"
    BY <1>1, <1>2 DEF Importing
  <2>3. made' = made
    <3>1. Sync => made' = made
      BY <2>2 DEF Sync
    <3> QED BY <3>1 DEF RequestStep, RequestFails, Check, Reject, Save, SaveFails, AssocFails, Unschedule, Clean,
           Remove, RemoveFails, Refused, Over
  <2> QED BY <1>1, <1>2, <2>1, <2>3, ImportAway
<1>3. CASE Importing
  <2>1. Job.op \in {"import", "link"} /\ Job.op # "delete"
    BY <1>3 DEF Importing
  <2>2. pc \notin {"unschedule", "clean", "remove"}
    BY <2>1 DEF CatalogInv, RequestInv
  <2>3. CASE Check
    BY <1>3, <2>3, ImportCheck
  <2>4. CASE Save
    BY <1>3, <2>4, ImportSave
  <2>5. pc = "sync" \/ pc = "check" \/ pc = "save" \/ pc = "idle"
    BY <2>2 DEF CatalogInv, TasksTypeOK
  <2>6. CASE Reject \/ SaveFails \/ AssocFails
    <3>1. /\ jobs' = Tail(jobs) /\ pc' \in {"idle", "check"} /\ row' = row /\ made' = made /\ known' = known
          /\ (Pointless /\ flawed' = flawed) \/ Marked
      BY <2>6 DEF Reject, SaveFails, AssocFails, Refused, Over
    <3>2. flawed \subseteq flawed'
      BY <3>1 DEF Marked, Flaw
    <3>3. \/ Job.op = "import" \/ Job.from.name \in flawed' \/ made[Job.from.name] = None
          \/ Linked(Job.from) = {}
      BY <2>1, <3>1 DEF Marked, Flaw, Pointless
    <3> QED BY <1>1, <1>3, <3>1, <3>2, <3>3, ImportOver
  <2>7. CASE Sync
    <3>1. /\ pc = "sync" /\ jobs' = Tail(jobs) /\ pc' \in {"idle", "check"} /\ row' = row
          /\ flawed' = flawed \/ Marked
          /\ \/ made' = made /\ known' = known
             \/ /\ Job.op = "import"
                /\ made' = [made EXCEPT ![Job.from.name] = Target]
      BY <2>7 DEF Sync, Target, Creating
    <3>2. flawed \subseteq flawed'
      BY <3>1 DEF Marked, Flaw
    <3> QED BY <1>1, <1>3, <3>1, <3>2, ImportOver
  <2> QED BY <2>2, <2>3, <2>4, <2>6, <2>7 DEF RequestStep, RequestFails, Unschedule, Clean, Remove, RemoveFails
<1> QED BY <1>2, <1>3

LEMMA ImportRunKeeps ==
    ASSUME CatalogInv, ImportInv, NEW t \in Tasks, Tick(t) \/ RunTaskByID(t) \/ RunStep(t)
    PROVE  ImportInv'
<1>1. UNCHANGED <<request, nextId>>
  BY DEF Tick, RunTaskByID, RunStep, Start, Upload, UploadFails, finalizeRecord, TriggerDependents, StartDependent,
         SkipDependent
<1>2. row \in [Tasks -> Rows \cup {None}] /\ run \in [Tasks -> RunRecords \cup {None}]
  BY DEF CatalogInv, TasksTypeOK
<1>3. CASE row' = row
  BY <1>1, <1>3, ImportFrame
<1>4. CASE Start(t)
  <2>1. row[t] # None /\ row[t] \in Rows /\ row' = [row EXCEPT ![t] = [row[t] EXCEPT !.last = "running"]]
    BY <1>2, <1>4 DEF Start, Startable
  <2>2. [row[t] EXCEPT !.last = "running"] \in Rows /\ [row[t] EXCEPT !.last = "running"].deps = row[t].deps
    BY <2>1 DEF Rows
  <2>3. \A u \in Tasks : row[u] # None => row'[u] # None /\ row'[u].deps = row[u].deps
    BY <1>2, <2>1, <2>2, Apart
  <2> QED BY <1>1, <2>3, ImportFrame
<1>5. CASE finalizeRecord(t)
  <2>1. run[t] # None /\ row' = [row EXCEPT ![t] = [run[t].seen EXCEPT !.last = run[t].outcome]]
    BY <1>5 DEF finalizeRecord
  <2>2. row[t] # None /\ Like(row[t], run[t].seen) /\ row[t] \in Rows
    BY <1>2, <2>1 DEF CatalogInv, RunsInv
  <2>3. run[t].seen \in Rows /\ run[t].outcome \in {"idle", "running", "success", "failed"}
    BY <1>2, <2>1 DEF RunRecords
  <2>4. row[t].deps = run[t].seen.deps
    BY <2>2, <2>3, LikeFields
  <2>5. /\ [run[t].seen EXCEPT !.last = run[t].outcome] \in Rows
        /\ [run[t].seen EXCEPT !.last = run[t].outcome].deps = run[t].seen.deps
    BY <2>3 DEF Rows
  <2>6. \A u \in Tasks : row[u] # None => row'[u] # None /\ row'[u].deps = row[u].deps
    BY <1>2, <2>1, <2>4, <2>5, Apart
  <2> QED BY <1>1, <2>6, ImportFrame
<1> QED BY <1>3, <1>4, <1>5 DEF Tick, RunTaskByID, RunStep, Upload, UploadFails, TriggerDependents, StartDependent,
                                SkipDependent

LEMMA ImportRequests ==
    ASSUME CatalogInv, ImportInv,
           \/ \E in \in Inputs : Create(in) \/ \E t \in Tasks : Update(t, in)
           \/ \E ids \in Batches : BatchDeleteTasks(ids) \/ \E on \in BOOLEAN : BatchToggle(ids, on)
           \/ \E in \in Inputs, names \in NameLists : Apply(in, names)
           \/ Export \/ Import \/ Crash
    PROVE  ImportInv'
<1>1. /\ file \in Seq(Exported) /\ Len(ImportJobs(file)) = Len(file) + Len(file)
      /\ \A i, j \in DOMAIN file : file[i].name = file[j].name => i = j
  BY ImportTypes, ImportJobsTyped DEF ImportInv
<1>2. CASE \/ \E in \in Inputs : Create(in) \/ \E t \in Tasks : Update(t, in)
           \/ \E ids \in Batches : BatchDeleteTasks(ids) \/ \E on \in BOOLEAN : BatchToggle(ids, on)
           \/ \E in \in Inputs, names \in NameLists : Apply(in, names)
  <2>1. PICK js \in Seq(JobRecords) :
             Fresh /\ Ask(js) /\ \A i \in DOMAIN js : js[i].op \notin {"import", "link"}
    BY <1>2, RequestShape
  <2>2. made' = [n \in Names |-> None] /\ pc' \notin {"save", "sync"} /\ file' = file /\ jobs' = js
    BY <2>1 DEF Fresh, Ask
  <2> QED BY <1>1, <2>1, <2>2, ImportFresh
<1>3. CASE Crash
  <2>1. made' = [n \in Names |-> None] /\ pc' \notin {"save", "sync"} /\ file' = file /\ jobs' = <<>>
    BY <1>3 DEF Crash, Fresh
  <2> QED BY <1>1, <2>1, ImportFresh
<1>4. CASE Export
  <2>1. made' = [n \in Names |-> None] /\ pc' \notin {"save", "sync"} /\ jobs' = <<>>
    BY <1>4 DEF Export, Fresh, CatalogInv, RequestInv
  <2> QED BY <1>4, <2>1, ExportListed, ImportFresh
<1>5. CASE Import
  <2>1. made' = [n \in Names |-> None] /\ pc' \notin {"save", "sync"} /\ file' = file /\ jobs' = ImportJobs(file)
    BY <1>5 DEF Import, Ask
  <2>2. ImportJobs(file)' = ImportJobs(file)
    BY <2>1 DEF ImportJobs
  <2> QED BY <1>1, <2>1, <2>2, ImportFresh
<1> QED BY <1>2, <1>3, <1>4, <1>5

LEMMA ImportNext ==
    ASSUME CatalogInv, CatalogInv', ImportInv, [TasksNext]_vars
    PROVE  ImportInv'
<1>1. CASE \/ \E in \in Inputs : Create(in) \/ \E t \in Tasks : Update(t, in)
           \/ \E ids \in Batches : BatchDeleteTasks(ids) \/ \E on \in BOOLEAN : BatchToggle(ids, on)
           \/ \E in \in Inputs, names \in NameLists : Apply(in, names)
           \/ Export \/ Import \/ Crash
  BY <1>1, ImportRequests
<1>2. CASE RequestStep \/ RequestFails
  BY <1>2, ImportStepKeeps
<1>3. CASE \E t \in Tasks : Tick(t) \/ RunTaskByID(t) \/ RunStep(t)
  BY <1>3, ImportRunKeeps
<1>4. CASE Startup
  <2>1. UNCHANGED <<request, nextId>>
    BY <1>4 DEF Startup
  <2>2. ASSUME NEW t \in Tasks, row[t] # None PROVE row'[t] # None /\ row'[t].deps = row[t].deps
    <3>1. row[t] \in Rows /\ row'[t] = IF row[t].last = "running" THEN [row[t] EXCEPT !.last = "failed"] ELSE row[t]
      BY <1>4, <2>2, CatalogTypes DEF Startup
    <3>2. [row[t] EXCEPT !.last = "failed"] \in Rows /\ [row[t] EXCEPT !.last = "failed"].deps = row[t].deps
      BY <3>1 DEF Rows
    <3> QED BY <3>1, <3>2, Apart
  <2> QED BY <2>1, <2>2, ImportFrame
<1>5. CASE UNCHANGED vars
  <2>1. UNCHANGED <<request, nextId>> /\ row' = row
    BY <1>5 DEF vars
  <2> QED BY <2>1, ImportFrame
<1> QED BY <1>1, <1>2, <1>3, <1>4, <1>5 DEF TasksNext

LEMMA ImportBegins == ASSUME TasksInit PROVE ImportInv
<1>1. jobs = <<>> /\ pc = "idle" /\ made = [n \in Names |-> None] /\ file \in Exports
  BY DEF TasksInit
<1>2. file \in Seq(Exported) /\ \A i, j \in DOMAIN file : file[i].name = file[j].name => i = j
  BY <1>1, RowsAssumption
<1>3. \A i \in DOMAIN file : file[i] \in Exported
  BY <1>2
<1>4. \A i \in DOMAIN file : made[file[i].name] = None
  BY <1>1, <1>3 DEF Exported
<1> QED BY <1>1, <1>2, <1>4 DEF ImportInv, Importing, Depends

(* An imported task that is not reported as flawed depends on the tasks its   *)
(* file names, those that the same import created included: the second pass   *)
(* links with names that the first has resolved (Import), and neither faults  *)
(* nor runs, nor the order of the file, come between.                         *)
THEOREM ImportLinksHolds == Overlap = FALSE => (TasksSpec => []ImportLinks)
<1> SUFFICES ASSUME Overlap = FALSE PROVE TasksSpec => []ImportLinks
  OBVIOUS
<1>1. TasksInit => ImportInv
  BY ImportBegins
<1>2. CatalogInv /\ CatalogInv' /\ ImportInv /\ [TasksNext]_vars => ImportInv'
  BY ImportNext
<1>3. CatalogInv /\ ImportInv => ImportLinks
  <2> SUFFICES ASSUME CatalogInv, ImportInv, pc = "idle", NEW i \in DOMAIN file,
                      made[file[i].name] # None, file[i].name \notin flawed
               PROVE  row[made[file[i].name]].deps = Linked(file[i])
    BY DEF ImportLinks
  <2>1. jobs = <<>>
    BY DEF CatalogInv, RequestInv
  <2>2. LinkedBy(i)
    BY <2>1, ImportTypes DEF LinkedBy
  <2>3. Depends(i)
    BY DEF ImportInv
  <2> QED BY <2>2, <2>3 DEF Depends
<1>4. TasksSpec => []CatalogInv
  BY TasksTyped
<1> QED BY <1>1, <1>2, <1>3, <1>4, PTL DEF TasksSpec
================================================================================
