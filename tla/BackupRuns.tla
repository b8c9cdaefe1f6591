------------------------------- MODULE BackupRuns -------------------------------
(***************************************************************************)
(* The runs of one backup task on the Master, with the records and stored  *)
(* objects they leave behind.                                              *)
(*                                                                         *)
(* Callers (the scheduler, HTTP handlers, upstream tasks) start runs; a    *)
(* run resolves the base of a differential backup, uploads to every target *)
(* in parallel, applies the retention policy on each target it reached,    *)
(* calls the replication hook and only then finalises its record.          *)
(* Operators delete records and lock or unlock them at the same time: they *)
(* and finalizeRecord read a row, decide, and save the whole row later.    *)
(* The Master may restart.                                                 *)
(*                                                                         *)
(* The task is a file task of the Master in full or differential mode, in  *)
(* the asynchronous form production code uses (RunTaskByID).               *)
(***************************************************************************)
EXTENDS Naturals, FiniteSets

CONSTANTS
  Records,       \* ids of backup records, in the order they are created
  Targets,       \* the task's storage targets, numbered in the task's order
  Main,          \* task.StorageTargetID
  Callers,       \* goroutines that call startTask
  Operators,     \* goroutines that handle delete and lock requests
  None,          \* no caller
  Differential,  \* task.BackupMode is differential
  MaxBackups,    \* task.MaxBackups, 0 for no limit
  Reach,         \* which records operators touch, and when
  Hazards,       \* what may go wrong in a behaviour
  MaxFaults      \* bound: faults in one behaviour

ASSUME BackupRunsAssumption ==
  /\ Records \subseteq Nat \ {0}
  /\ Targets \subseteq Nat \ {0}
  /\ Main \in Targets
  /\ None \notin Callers
  /\ Differential \in BOOLEAN
  /\ MaxBackups \in Nat
  /\ Reach \in {"idle", "finished", "any"}
  /\ MaxFaults \in Nat

NoRec    == 0
NoTarget == 0

VARIABLES
  row,      \* backup_records
  stored,   \* objects in storage: the artifact of a record on a target
  aged,     \* records completed before the RetentionDays cutoff
  replicas, \* records a replication was started for
  lock,     \* the caller that holds the task's start lock
  caller,   \* progress of each call of startTask
  exec,     \* executeTask of each record
  upload,   \* the upload goroutines of each record
  op,       \* the request each operator goroutine works on
  clock,    \* completions so far
  faults    \* faults so far

vars == <<row, stored, aged, replicas, lock, caller, exec, upload, op, clock, faults>>

-----------------------------------------------------------------------------
Finished == {"success", "failed"}
Exists   == {"running"} \cup Finished

Row == [status : {"none", "deleted"} \cup Exists, kind : {"full", "differential"},
        base : Records \cup {NoRec}, primary : Targets \cup {NoTarget},
        copies : SUBSET Targets, locked : BOOLEAN, at : Nat]
Blank == [status |-> "none", kind |-> "full", base |-> NoRec, primary |-> NoTarget,
          copies |-> {}, locked |-> FALSE, at |-> 0]

Exec == [pc : {"none", "queued", "uploading", "hooks", "closing", "saving"},
         base : Records \cup {NoRec}, sent : BOOLEAN, copies : SUBSET Targets, seen : Row]
NoExec == [pc |-> "none", base |-> NoRec, sent |-> FALSE, copies |-> {}, seen |-> Blank]

Upload == [pc : {"idle", "sending", "listing", "cleaning", "dropping", "ok", "failed"},
           todo : SUBSET Records]
NoUpload == [pc |-> "idle", todo |-> {}]

Call == [pc : {"idle", "checked", "created", "aborting"}, rec : Records \cup {NoRec}]
NoCall == [pc |-> "idle", rec |-> NoRec]

Op == [pc : {"idle", "check", "remove", "drop", "lock"}, rec : Records \cup {NoRec}, seen : Row]
NoOp == [pc |-> "idle", rec |-> NoRec, seen |-> Blank]

TypeOK ==
  /\ row \in [Records -> Row]
  /\ stored \in SUBSET (Records \X Targets)
  /\ aged \in SUBSET Records
  /\ replicas \in SUBSET Records
  /\ lock \in Callers \cup {None}
  /\ caller \in [Callers -> Call]
  /\ exec \in [Records -> Exec]
  /\ upload \in [Records -> [Targets -> Upload]]
  /\ op \in [Operators -> Op]
  /\ clock \in Nat
  /\ faults \in 0..MaxFaults

Init ==
  /\ row = [r \in Records |-> Blank]
  /\ stored = {}
  /\ aged = {}
  /\ replicas = {}
  /\ lock = None
  /\ caller = [c \in Callers |-> NoCall]
  /\ exec = [r \in Records |-> NoExec]
  /\ upload = [r \in Records |-> [t \in Targets |-> NoUpload]]
  /\ op = [o \in Operators |-> NoOp]
  /\ clock = 0
  /\ faults = 0

(* A fault of kind k: a database error ("db"), a storage provider that     *)
(* fails ("storage"), a shutdown that refuses a run ("shutdown"), a        *)
(* restart of the Master ("restart").                                      *)
Fault(k) ==
  /\ k \in Hazards
  /\ faults < MaxFaults
  /\ faults' = faults + 1

NoFault == UNCHANGED faults

Running    == {r \in Records : row[r].status = "running"}
Successful == {r \in Records : row[r].status = "success"}
Executing  == {r \in Records : exec[r].pc # "none"}

-----------------------------------------------------------------------------
(* startTask.                                                              *)

(* Mutant: the start lock is not taken.                                    *)
StartUnlocked(c) ==
  /\ caller[c].pc = "idle"
  /\ Running = {}
  /\ Reach = "idle" => \A o \in Operators : op[o].pc = "idle"
  /\ lock' = c
  /\ caller' = [caller EXCEPT ![c].pc = "checked"]
  /\ NoFault
  /\ UNCHANGED <<row, stored, aged, replicas, exec, upload, op, clock>>

(* The start lock is taken and no running record of the task is found; a   *)
(* call that finds one is refused and changes nothing.                     *)
StartCheck(c) ==
  /\ caller[c].pc = "idle"
  /\ lock = None
  /\ Running = {}
  /\ Reach = "idle" => \A o \in Operators : op[o].pc = "idle"
  /\ lock' = c
  /\ caller' = [caller EXCEPT ![c].pc = "checked"]
  /\ NoFault
  /\ UNCHANGED <<row, stored, aged, replicas, exec, upload, op, clock>>

Release(c) == lock' = None /\ caller' = [caller EXCEPT ![c] = NoCall]

StartCreate(c) ==
  /\ caller[c].pc = "checked"
  /\ \/ \E r \in Records :
          /\ row[r].status = "none"
          /\ \A q \in Records : q < r => row[q].status # "none"
          /\ row' = [row EXCEPT ![r].status = "running"]
          /\ caller' = [caller EXCEPT ![c] = [pc |-> "created", rec |-> r]]
          /\ NoFault /\ UNCHANGED lock
     \/ Fault("db") /\ Release(c) /\ UNCHANGED row
  /\ UNCHANGED <<stored, aged, replicas, exec, upload, op, clock>>

(* The task row is updated and the run handed to the supervisor; a failed  *)
(* update or a refusal closes the record with failed instead.              *)
StartLaunch(c) ==
  LET r == caller[c].rec IN
  /\ caller[c].pc = "created"
  /\ \/ exec' = [exec EXCEPT ![r].pc = "queued"] /\ Release(c) /\ NoFault
     \/ /\ exec' = [exec EXCEPT ![r].pc = "closing"]
        /\ caller' = [caller EXCEPT ![c].pc = "aborting"]
        /\ UNCHANGED lock
        /\ Fault("db") \/ Fault("shutdown")
  /\ UNCHANGED <<row, stored, aged, replicas, upload, op, clock>>

StartAborted(c) ==
  /\ caller[c].pc = "aborting"
  /\ exec[caller[c].rec].pc = "none"
  /\ Release(c)
  /\ NoFault
  /\ UNCHANGED <<row, stored, aged, replicas, exec, upload, op, clock>>

-----------------------------------------------------------------------------
(* executeTask.                                                            *)

ExecOnly == UNCHANGED <<lock, caller, op, aged>>

SetExec(r, e) == exec' = [exec EXCEPT ![r] = e]
SetUpload(r, t, pc, todo) == upload' = [upload EXCEPT ![r][t] = [pc |-> pc, todo |-> todo]]

(* resolveDifferentialBase: the newest successful full backup, unless it   *)
(* is older than DiffFullIntervalDays or has no manifest, which are left   *)
(* to chance; without a base the run makes a full backup.  A run that was  *)
(* cancelled while it waited for a slot, or whose runner, compression or   *)
(* encryption fails, closes its record with failed.                        *)
Fulls == {q \in Successful : row[q].kind = "full"}

Bases ==
  {NoRec} \cup {q \in Fulls : Differential /\ \A p \in Fulls : row[p].at <= row[q].at}

Resolve(r) ==
  /\ exec[r].pc = "queued"
  /\ \/ /\ \E b \in Bases : SetExec(r, [exec[r] EXCEPT !.pc = "uploading", !.base = b])
        /\ upload' = [upload EXCEPT ![r] = [t \in Targets |-> [NoUpload EXCEPT !.pc = "sending"]]]
     \/ SetExec(r, [exec[r] EXCEPT !.pc = "closing"]) /\ UNCHANGED upload
  /\ NoFault
  /\ ExecOnly /\ UNCHANGED <<row, stored, replicas, clock>>

(* The upload to one target, with its retries: stored, or failed.  An      *)
(* artifact of the wrong size is deleted again, at best.                   *)
Send(r, t) ==
  /\ upload[r][t].pc = "sending"
  /\ \/ /\ stored' = stored \cup {<<r, t>>}
        /\ SetUpload(r, t, "listing", {})
        /\ NoFault
     \/ /\ SetUpload(r, t, "failed", {})
        /\ \/ NoFault /\ UNCHANGED stored
           \/ Fault("storage") /\ stored' = stored \cup {<<r, t>>}
  /\ ExecOnly /\ UNCHANGED <<row, exec, replicas, clock>>

(* Mutant: locked records expire like others.                              *)
ExpiredLocked ==
  {q \in Successful : q \in aged
     \/ (MaxBackups > 0
         /\ Cardinality({p \in Successful : row[p].at > row[q].at}) >= MaxBackups)}

(* Retention.  selectRecordsToDelete: unlocked successful records beyond   *)
(* the newest MaxBackups, and those past RetentionDays; minus the full     *)
(* backups a surviving differential is based on.                           *)
Expired ==
  LET U == {q \in Successful : ~row[q].locked} IN
  {q \in U : q \in aged
             \/ (MaxBackups > 0
                 /\ Cardinality({p \in U : row[p].at > row[q].at}) >= MaxBackups)}

Protected(X) ==
  {row[d].base : d \in {d \in Successful \ X : row[d].kind = "differential"}}

(* Mutant: retention without protectDifferentialBases.                     *)
ExpiredOnly == Expired

Candidates == {q \in Expired : row[q].kind = "full" => q \notin Protected(Expired)}

CleanList(r, t) ==
  /\ upload[r][t].pc = "listing"
  /\ \/ /\ SetUpload(r, t, "cleaning", Candidates)
        /\ NoFault
     \/ /\ SetUpload(r, t, "ok", {})
        /\ Fault("db")
  /\ ExecOnly /\ UNCHANGED <<row, stored, exec, replicas, clock>>

(* The newest candidate is next.                                           *)
NextOf(S) == {q \in S : \A p \in S : row[p].at <= row[q].at}

(* The artifact is deleted, through this target's provider only and once   *)
(* per copy the record lists; a failure, before or after the object is     *)
(* gone, leaves the record to the next cleanup.                            *)
CleanObject(r, t) ==
  /\ upload[r][t].pc = "cleaning"
  /\ IF upload[r][t].todo = {}
       THEN /\ SetUpload(r, t, "ok", {})
            /\ NoFault /\ UNCHANGED stored
       ELSE \E q \in NextOf(upload[r][t].todo) :
              \/ /\ stored' = stored \ {<<q, t>>}
                 /\ SetUpload(r, t, "dropping", upload[r][t].todo)
                 /\ NoFault
              \/ /\ SetUpload(r, t, "cleaning", upload[r][t].todo \ {q})
                 /\ Fault("storage")
                 /\ stored' \in {stored, stored \ {<<q, t>>}}
  /\ ExecOnly /\ UNCHANGED <<row, exec, replicas, clock>>

CleanRow(r, t) ==
  /\ upload[r][t].pc = "dropping"
  /\ \E q \in NextOf(upload[r][t].todo) :
       /\ SetUpload(r, t, "cleaning", upload[r][t].todo \ {q})
       /\ \/ row' = [row EXCEPT ![q].status = "deleted"] /\ NoFault
          \/ Fault("db") /\ UNCHANGED row
  /\ ExecOnly /\ UNCHANGED <<stored, exec, replicas, clock>>

(* All uploads and cleanups are over: one success is enough.               *)
Collect(r) ==
  LET good == {t \in Targets : upload[r][t].pc = "ok"} IN
  /\ exec[r].pc = "uploading"
  /\ \A t \in Targets : upload[r][t].pc \in {"ok", "failed"}
  /\ SetExec(r, [exec[r] EXCEPT !.copies = good, !.sent = TRUE,
                                !.pc = IF good = {} THEN "closing" ELSE "hooks"])
  /\ upload' = [upload EXCEPT ![r] = [t \in Targets |-> NoUpload]]
  /\ NoFault
  /\ ExecOnly /\ UNCHANGED <<row, stored, replicas, clock>>

(* TriggerAutoReplication: Start reads the record and copies only one that *)
(* is successful.                                                          *)
Hooks(r) ==
  /\ exec[r].pc = "hooks"
  /\ SetExec(r, [exec[r] EXCEPT !.pc = "closing"])
  /\ replicas' = IF row[r].status = "success" THEN replicas \cup {r} ELSE replicas
  /\ NoFault
  /\ ExecOnly /\ UNCHANGED <<row, stored, upload, clock>>

(* finalizeRecord reads the row; a row that is gone, or an error, ends the *)
(* run ...                                                                 *)
FinalRead(r) ==
  /\ exec[r].pc = "closing"
  /\ \/ /\ row[r].status \in Exists
        /\ SetExec(r, [exec[r] EXCEPT !.pc = "saving", !.seen = row[r]])
        /\ NoFault
     \/ /\ SetExec(r, NoExec)
        /\ (row[r].status \notin Exists /\ NoFault) \/ Fault("db")
  /\ ExecOnly /\ UNCHANGED <<row, stored, upload, replicas, clock>>

First(S) == {t \in S : \A u \in S : t <= u}

(* Mutant: the task's own target, uploaded to or not.                      *)
SelectedMain(copies) == {Main}

(* The target the record names: the summary loop replaces the task's own   *)
(* target by the next successful one.                                      *)
Selected(copies) ==
  IF copies \subseteq {Main} THEN {Main}
  ELSE IF Main \in First(copies) THEN First(copies \ {Main})
  ELSE First(copies)

(* ... and saves it whole, with the status and what a restore needs.       *)
Closed(r, t) ==
  [exec[r].seen EXCEPT !.at = clock + 1, !.copies = exec[r].copies, !.primary = t,
                       !.status = "failed"]

Succeeded(r, t) ==
  [Closed(r, t) EXCEPT !.status = "success", !.base = exec[r].base,
                       !.kind = IF exec[r].base = NoRec THEN "full" ELSE "differential"]

Final(r, t) == IF exec[r].copies = {} THEN Closed(r, t) ELSE Succeeded(r, t)

FinalSave(r) ==
  /\ exec[r].pc = "saving"
  /\ SetExec(r, NoExec)
  /\ \/ /\ \E t \in IF exec[r].sent THEN Selected(exec[r].copies) ELSE {NoTarget} :
             row' = [row EXCEPT ![r] = Final(r, t)]
        /\ clock' = clock + 1
        /\ NoFault
     \/ Fault("db") /\ UNCHANGED <<row, clock>>
  /\ ExecOnly /\ UNCHANGED <<stored, upload, replicas>>

-----------------------------------------------------------------------------
(* Operators.  Which records they touch is the environment's choice: only  *)
(* while the task is idle, finished ones at any time, or any.              *)
May(r) ==
  CASE Reach = "idle"     -> lock = None /\ Executing = {} /\ row[r].status \in Finished
    [] Reach = "finished" -> row[r].status \in Finished
    [] OTHER              -> row[r].status \in Exists

OpOnly == UNCHANGED <<aged, replicas, lock, caller, exec, upload, clock>>

Take(o, r, pc) ==
  /\ op[o].pc = "idle"
  /\ May(r)
  /\ op' = [op EXCEPT ![o] = [pc |-> pc, rec |-> r, seen |-> row[r]]]
  /\ NoFault
  /\ OpOnly /\ UNCHANGED <<row, stored>>

Done(o) == op' = [op EXCEPT ![o] = NoOp]

(* DeleteRecord refuses a locked record ...                                *)
DeleteRead(o) == \E r \in Records : ~row[r].locked /\ Take(o, r, "check")

(* Mutant: no dependents are found.                                        *)
NoDependents(b) == {}

(* ... and a full backup that successful differentials are based on.       *)
Dependents(b) ==
  {d \in Successful : row[d].kind = "differential" /\ row[d].base = b}

DeleteCheck(o) ==
  /\ op[o].pc = "check"
  /\ IF op[o].seen.kind = "full" /\ Dependents(op[o].rec) # {}
       THEN Done(o)
       ELSE op' = [op EXCEPT ![o].pc = "remove"]
  /\ NoFault
  /\ OpOnly /\ UNCHANGED <<row, stored>>

(* Mutant: the artifact stays.                                             *)
DeleteRowOnly(o) ==
  /\ op[o].pc = "remove"
  /\ op' = [op EXCEPT ![o].pc = "drop"]
  /\ NoFault
  /\ OpOnly /\ UNCHANGED <<row, stored>>

(* The artifact is deleted on the target the row names, if it names one.   *)
DeleteObject(o) ==
  /\ op[o].pc = "remove"
  /\ \/ /\ stored' = stored \ {<<op[o].rec, op[o].seen.primary>>}
        /\ op' = [op EXCEPT ![o].pc = "drop"]
        /\ NoFault
     \/ /\ op[o].seen.primary # NoTarget
        /\ Fault("storage") /\ Done(o)
        /\ stored' \in {stored, stored \ {<<op[o].rec, op[o].seen.primary>>}}
  /\ OpOnly /\ UNCHANGED row

DeleteRow(o) ==
  /\ op[o].pc = "drop"
  /\ Done(o)
  /\ \/ row' = [row EXCEPT ![op[o].rec].status = "deleted"] /\ NoFault
     \/ Fault("db") /\ UNCHANGED row
  /\ OpOnly /\ UNCHANGED stored

(* SetLock reads the row and saves it whole, locked or unlocked; the save  *)
(* inserts a row that is gone.                                             *)
LockRead(o) == \E r \in Records : Take(o, r, "lock")

LockSave(o) ==
  /\ op[o].pc = "lock"
  /\ Done(o)
  /\ \/ row' = [row EXCEPT ![op[o].rec] = [op[o].seen EXCEPT !.locked = ~@]] /\ NoFault
     \/ Fault("db") /\ UNCHANGED row
  /\ OpOnly /\ UNCHANGED stored

-----------------------------------------------------------------------------
(* Time passes: the oldest successful record crosses the retention cutoff.  *)
Age ==
  /\ "age" \in Hazards
  /\ \E r \in Records \ aged :
       /\ r \in Successful
       /\ \A q \in Successful \ aged : row[r].at <= row[q].at
       /\ aged' = aged \cup {r}
  /\ NoFault
  /\ UNCHANGED <<row, stored, replicas, lock, caller, exec, upload, op, clock>>

(* Mutant: the start-up leaves running records alone.                      *)
RestartBlind ==
  /\ Fault("restart")
  /\ lock' = None
  /\ caller' = [c \in Callers |-> NoCall]
  /\ exec' = [r \in Records |-> NoExec]
  /\ upload' = [r \in Records |-> [t \in Targets |-> NoUpload]]
  /\ op' = [o \in Operators |-> NoOp]
  /\ UNCHANGED <<row, stored, aged, replicas, clock>>

(* The Master dies and starts again: reconcileInterruptedOperations fails  *)
(* every running record.                                                   *)
MasterRestart ==
  /\ Fault("restart")
  /\ row' = [r \in Records |-> IF r \in Running THEN [row[r] EXCEPT !.status = "failed"] ELSE row[r]]
  /\ lock' = None
  /\ caller' = [c \in Callers |-> NoCall]
  /\ exec' = [r \in Records |-> NoExec]
  /\ upload' = [r \in Records |-> [t \in Targets |-> NoUpload]]
  /\ op' = [o \in Operators |-> NoOp]
  /\ UNCHANGED <<stored, aged, replicas, clock>>

StartStep(c) == StartCheck(c) \/ StartCreate(c) \/ StartLaunch(c) \/ StartAborted(c)
UploadStep(r, t) == Send(r, t) \/ CleanList(r, t) \/ CleanObject(r, t) \/ CleanRow(r, t)
ExecStep(r) == Resolve(r) \/ Collect(r) \/ Hooks(r) \/ FinalRead(r) \/ FinalSave(r)
OpStep(o) == DeleteRead(o) \/ DeleteCheck(o) \/ DeleteObject(o) \/ DeleteRow(o)
               \/ LockRead(o) \/ LockSave(o)

Next ==
  \/ \E c \in Callers : StartStep(c)
  \/ \E r \in Records : ExecStep(r)
  \/ \E r \in Records, t \in Targets : UploadStep(r, t)
  \/ \E o \in Operators : OpStep(o)
  \/ Age
  \/ MasterRestart

Spec == Init /\ [][Next]_vars

(* Goroutines are scheduled and every I/O call returns.                    *)
Fairness ==
  /\ \A c \in Callers : WF_vars(StartLaunch(c) \/ StartAborted(c))
  /\ \A r \in Records : WF_vars(ExecStep(r))
  /\ \A r \in Records, t \in Targets : WF_vars(UploadStep(r, t))

FairSpec == Spec /\ Fairness

-----------------------------------------------------------------------------
(* At most one execution of the task is in progress, from its start to the *)
(* end of its finalisation: what the start lock and the search for a       *)
(* running record in startTask are for.                                    *)
OneRun == \A r, q \in Executing : r = q

(* What a successful record stands for can be restored: its artifact is on *)
(* the target it names and, for a differential, so is that of its base,    *)
(* except while it is being removed itself.  Runs, retention and deletion  *)
(* each see to one part of this.                                           *)
BeingRemoved(q) ==
  \/ \E r \in Records, t \in Targets :
       upload[r][t].pc = "dropping" /\ q \in NextOf(upload[r][t].todo)
  \/ \E o \in Operators : op[o].pc = "drop" /\ op[o].rec = q

OnTarget(r) == r \in Successful /\ <<r, row[r].primary>> \in stored

Restorable ==
  \A r \in Successful : ~BeingRemoved(r) =>
    OnTarget(r) /\ (row[r].kind = "differential" => OnTarget(row[r].base))

(* The target a successful record leads to is one its run stored the       *)
(* artifact on, whichever of the parallel uploads failed and whatever      *)
(* locks, retention and restarts do to the row later (executeTask's        *)
(* summary of its targets).                                                *)
NamesACopy == \A r \in Successful : row[r].primary \in row[r].copies

(* The base of a successful differential is a successful record:           *)
(* protectDifferentialBases and DeleteRecord must keep it.                 *)
ChainIntact ==
  \A r \in Successful : row[r].kind = "differential" => row[r].base \in Successful

(* An object in storage belongs to a run in progress or is a copy that a   *)
(* successful record lists: retention and DeleteRecord leave nothing       *)
(* behind that no record leads to.                                         *)
NoOrphans ==
  \A x \in stored :
    \/ row[x[1]].status = "running"
    \/ x[1] \in Successful /\ x[2] \in row[x[1]].copies

(* A running record is closed in the end, by its run or by the next start  *)
(* of the Master; until then startTask refuses the task.                   *)
RunCloses == \A r \in Records : (row[r].status = "running") ~> (row[r].status # "running")

(* A locked record is not removed, neither by retention nor by hand, when  *)
(* locks are set and taken back between the runs.                          *)
LockedIsKept == [][\A r \in Records :
  row[r].locked /\ row[r].status \in Exists => row'[r].status # "deleted"]_vars

(* A successful record has been handed to replication, for a task whose    *)
(* ReplicationTargetIDs name another target.                               *)
SuccessIsReplicated == Successful \subseteq replicas

(* The runs implement the abstract catalog of backups.                     *)
Catalog == INSTANCE BackupCatalog WITH
  Ids <- Records, NoBase <- NoRec,
  state <- [r \in Records |-> row[r].status],
  base <- [r \in Records |-> row[r].base]

ImplementsCatalog == Catalog!Spec
=============================================================================
