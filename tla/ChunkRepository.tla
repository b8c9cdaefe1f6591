----------------------------- MODULE ChunkRepository -----------------------------
(***************************************************************************)
(* The CDC repository: backups of several tasks share chunks in the        *)
(* storage targets they have in common.                                    *)
(*                                                                         *)
(* An object store knows single objects only. Upload therefore writes      *)
(* packs of new chunks first, then the index segment of each pack, and the *)
(* snapshot of the backup last; Prune goes the other way round. Between    *)
(* them stands one mutex per target, which runs, retention and deletion of *)
(* a record take; the deletion of a task does not. Restores, verifications *)
(* and downloads take no lock at all. Any access to the store may fail,    *)
(* whether or not it had its effect, and the Master may restart in         *)
(* between.                                                                *)
(*                                                                         *)
(* A pack is named by the digest of its content: it is its set of chunks.  *)
(***************************************************************************)
EXTENDS Naturals, FiniteSets

CONSTANTS
  Runs,          \* backup records, in the order they are created
  Tasks,         \* tasks in repository mode
  TaskOf,        \* the task of each run
  Targets,       \* storage targets: locks are taken in the order of their ids
  TargetsOf,     \* the targets of each task
  Chunks,        \* contents a source may be made of
  Deleters,      \* requests that delete a record or a task
  Readers,       \* restores, verifications and downloads
  Free,          \* no holder of a lock
  MaxBackups,    \* MaxBackups of every task, 0 for no limit
  TaskDeletion,  \* when operators delete tasks: "alone" or at "any" time
  Hazards,       \* what may go wrong in a behaviour
  MaxFaults      \* bound: faults in one behaviour

ASSUME RepositoryAssumption ==
  /\ Runs \subseteq Nat \ {0}
  /\ TaskOf \in [Runs -> Tasks]
  /\ Targets \subseteq Nat \ {0} /\ IsFiniteSet(Targets)
  /\ TargetsOf \in [Tasks -> SUBSET Targets]
  /\ Deleters \cap Runs = {}
  /\ Free \notin Runs \cup Deleters
  /\ MaxBackups \in Nat
  /\ TaskDeletion \in {"alone", "any"}
  /\ MaxFaults \in Nat

VARIABLES
  pack,    \* packs/: the packs in each target
  index,   \* indexes/: the packs of which each target has an index segment
  snap,    \* snapshots/: the runs of which each target has a snapshot
  recipe,  \* the chunks the snapshot of a run names
  row,     \* backup_records: status and targets with a copy
  lock,    \* repositoryLocks: the holder of each target's mutex
  job,     \* the runs and deletions in progress
  reader,  \* the restores, verifications and downloads in progress
  doomed,  \* records whose removal has begun (history: no code reads it)
  faults   \* faults so far

store == <<pack, index, snap>>
vars  == <<pack, index, snap, recipe, row, lock, job, reader, doomed, faults>>

-----------------------------------------------------------------------------
Jobs   == Runs \cup Deleters
Pack   == (SUBSET Chunks) \ {{}}
NoPack == {}
NoTarget == 0
NoRun == 0

(* What a run or a deletion has in hand. pc: "target", "load", "put",      *)
(* "index" for a run; "lock", "list", "next", "object" for the removal of  *)
(* records; "scan", "sweep", "drop" for a prune; "idle", "end", "done".    *)
(* rest: the targets still to visit; at: the one it works on; got: the     *)
(* targets its providers reach; known, cur: the chunks found in the index, *)
(* the pack that is on its way; victims, victim: the records to remove,    *)
(* the one it removes; touched: targets to prune; live, dead, packs: what  *)
(* a prune has listed; ok: no object of this victim was left behind;       *)
(* whole: it deletes a whole task.                                         *)
NoJob == [pc |-> "idle", rest |-> {}, at |-> NoTarget, got |-> {}, known |-> {}, cur |-> NoPack,
          victims |-> {}, victim |-> NoRun, touched |-> {}, live |-> {}, dead |-> {},
          packs |-> {}, ok |-> TRUE, whole |-> FALSE]

(* What a restore has read. pc: "idle", "list", "read", "fetch", "done",   *)
(* or "stale" and "broken" when it failed; need: the segments, then the    *)
(* packs still to read; found: segments read.                              *)
NoReader == [pc |-> "idle", run |-> NoRun, at |-> NoTarget, need |-> {}, found |-> {}]

RepoInit ==
  /\ pack = [t \in Targets |-> {}]
  /\ index = [t \in Targets |-> {}]
  /\ snap = [t \in Targets |-> {}]
  /\ recipe = [r \in Runs |-> {}]
  /\ row = [r \in Runs |-> [status |-> "none", copies |-> {}]]
  /\ lock = [t \in Targets |-> Free]
  /\ job = [p \in Jobs |-> NoJob]
  /\ reader = [d \in Readers |-> NoReader]
  /\ doomed = {}
  /\ faults = 0

-----------------------------------------------------------------------------
(* An access to the store fails ("storage") or one to the database ("db"), *)
(* or the Master restarts ("restart"). "segment" stands for one outcome of *)
(* a failed access: an index segment is stored all the same.               *)
Fault(k) ==
  /\ k \in Hazards
  /\ faults < MaxFaults
  /\ faults' = faults + 1

Least(S)  == CHOOSE t \in S : \A u \in S : t <= u
Indexed(t) == UNION index[t]
LiveChunks(t) == UNION {recipe[r] : r \in snap[t]}

Busy(p) == job[p].pc \notin {"idle", "done"}

(* An assumption on people, not on the code: whether a task is deleted     *)
(* only while nothing else changes the repository.                         *)
NoTaskDeleted == TaskDeletion = "alone" => \A p \in Jobs : Busy(p) => ~job[p].whole

Goto(p, pc) == job' = [job EXCEPT ![p].pc = pc]
Release(p)  == lock' = [t \in Targets |-> IF lock[t] = p THEN Free ELSE lock[t]]

-----------------------------------------------------------------------------
(* A run: executeTask, executeRepositoryTask. Runs of one task never       *)
(* overlap. The plan is built before any target is touched.                *)
StartRun(r) ==
  /\ NoTaskDeleted
  /\ row[r].status = "none"
  /\ \A q \in Runs : q < r => row[q].status # "none"
  /\ \A q \in Runs : TaskOf[q] = TaskOf[r] => row[q].status # "running"
  /\ \E content \in Pack : recipe' = [recipe EXCEPT ![r] = content]
  /\ row' = [row EXCEPT ![r].status = "running"]
  /\ job' = [job EXCEPT ![r] = [NoJob EXCEPT !.pc = "target", !.rest = TargetsOf[TaskOf[r]]]]
  /\ UNCHANGED <<store, lock, reader, doomed, faults>>

(* One target after the other, each under its lock. *)
LockTarget(r) ==
  /\ job[r].pc = "target"
  /\ job[r].rest # {}
  /\ LET t == Least(job[r].rest) IN
       /\ lock[t] = Free
       /\ lock' = [lock EXCEPT ![t] = r]
       /\ job' = [job EXCEPT ![r].pc = "load", ![r].at = t, ![r].rest = @ \ {t}]
  /\ UNCHANGED <<store, recipe, row, reader, doomed, faults>>

(* A target that is gone, out of reach or over its quota is skipped. *)
SkipTarget(r) ==
  /\ job[r].pc = "target"
  /\ job[r].rest # {}
  /\ Fault("storage")
  /\ job' = [job EXCEPT ![r].rest = @ \ {Least(job[r].rest)}]
  /\ UNCHANGED <<store, recipe, row, lock, reader, doomed>>

(* EstimateUploadSize and Upload read the index of the target. *)
LoadIndex(r) ==
  /\ job[r].pc = "load"
  /\ job' = [job EXCEPT ![r].pc = "put", ![r].known = Indexed(job[r].at)]
  /\ UNCHANGED <<store, recipe, row, lock, reader, doomed, faults>>

(* uploadMissingChunks fills a pack with chunks the index does not know:   *)
(* how many depends on their size.                                         *)
PutPack(r) ==
  /\ job[r].pc = "put"
  /\ \E p \in Pack :
       /\ p \subseteq recipe[r] \ job[r].known
       /\ pack' = [pack EXCEPT ![job[r].at] = @ \cup {p}]
       /\ job' = [job EXCEPT ![r].pc = "index", ![r].cur = p]
  /\ UNCHANGED <<index, snap, recipe, row, lock, reader, doomed, faults>>

PutIndex(r) ==
  /\ job[r].pc = "index"
  /\ index' = [index EXCEPT ![job[r].at] = @ \cup {job[r].cur}]
  /\ job' = [job EXCEPT ![r].pc = "put", ![r].known = @ \cup job[r].cur, ![r].cur = NoPack]
  /\ UNCHANGED <<pack, snap, recipe, row, lock, reader, doomed, faults>>

(* Mutant: the snapshot is stored as soon as the first packs are. *)
PutSnapshotEarly(r) ==
  /\ job[r].pc = "put"
  /\ recipe[r] \cap job[r].known # {}
  /\ snap' = [snap EXCEPT ![job[r].at] = @ \cup {r}]
  /\ lock' = [lock EXCEPT ![job[r].at] = Free]
  /\ job' = [job EXCEPT ![r] = [NoJob EXCEPT !.pc = "target", !.rest = job[r].rest,
                                              !.got = job[r].got \cup {job[r].at}]]
  /\ UNCHANGED <<pack, index, recipe, row, reader, doomed, faults>>

(* The snapshot makes the copy on this target complete. *)
PutSnapshot(r) ==
  /\ job[r].pc = "put"
  /\ recipe[r] \subseteq job[r].known
  /\ snap' = [snap EXCEPT ![job[r].at] = @ \cup {r}]
  /\ lock' = [lock EXCEPT ![job[r].at] = Free]
  /\ job' = [job EXCEPT ![r] = [NoJob EXCEPT !.pc = "target", !.rest = job[r].rest,
                                              !.got = job[r].got \cup {job[r].at}]]
  /\ UNCHANGED <<pack, index, recipe, row, reader, doomed, faults>>

(* An access of the upload fails: this target is given up, the next one    *)
(* tried. A pack whose index segment could not be stored is deleted again, *)
(* if that works: also when the store has kept the segment, whose pack is  *)
(* missing from then on. A snapshot that was stored all the same stays     *)
(* without a record that names it. (A pack or a segment that was, and is   *)
(* not deleted: PutPack or PutIndex, then this step.)                      *)
UploadFails(r) ==
  /\ job[r].pc \in {"load", "put", "index"}
  /\ Fault("storage")
  /\ LET t == job[r].at
         packGone == pack' = [pack EXCEPT ![t] = @ \ {job[r].cur}]
     IN \/ UNCHANGED store
        \/ /\ job[r].pc = "index"
           /\ packGone
           /\ UNCHANGED <<index, snap>>
        \/ /\ job[r].pc = "index"
           /\ "segment" \in Hazards
           /\ packGone
           /\ index' = [index EXCEPT ![t] = @ \cup {job[r].cur}]
           /\ UNCHANGED snap
        \/ /\ job[r].pc = "put"
           /\ recipe[r] \subseteq job[r].known
           /\ snap' = [snap EXCEPT ![t] = @ \cup {r}]
           /\ UNCHANGED <<pack, index>>
  /\ lock' = [lock EXCEPT ![job[r].at] = Free]
  /\ job' = [job EXCEPT ![r] = [NoJob EXCEPT !.pc = "target", !.rest = job[r].rest,
                                              !.got = job[r].got]]
  /\ UNCHANGED <<recipe, row, reader, doomed>>

(* completeRecord: the row is final before retention begins. *)
Finalize(r) ==
  /\ job[r].pc = "target"
  /\ job[r].rest = {}
  /\ IF job[r].got = {}
     THEN /\ row' = [row EXCEPT ![r].status = "failed"]
          /\ Goto(r, "done")
     ELSE /\ row' = [row EXCEPT ![r] = [status |-> "success", copies |-> job[r].got]]
          /\ job' = [job EXCEPT ![r].pc = "lock", ![r].rest = job[r].got]
  /\ UNCHANGED <<store, recipe, lock, reader, doomed, faults>>

-----------------------------------------------------------------------------
(* Removal: retention after a run, DeleteRecord, and the deletion of a     *)
(* task. The first two hold the locks of all targets they change.          *)

(* DeleteRecord reads a settled record and its copies. *)
DeleteRecord(d) ==
  /\ NoTaskDeleted
  /\ job[d].pc = "idle"
  /\ \E r \in Runs :
       /\ row[r].status = "success"
       /\ job' = [job EXCEPT ![d] = [NoJob EXCEPT !.pc = "lock", !.rest = row[r].copies,
                       !.got = row[r].copies, !.victims = {r}, !.victim = NoRun]]
  /\ UNCHANGED <<store, recipe, row, lock, reader, doomed, faults>>

(* BackupTaskService.Delete removes the snapshots of every record of the   *)
(* task, without a lock; the records stay. No run of the task is to come.  *)
DeleteTask(d) ==
  /\ TaskDeletion = "alone" => \A p \in Jobs : ~Busy(p)
  /\ job[d].pc = "idle"
  /\ \E k \in Tasks :
       /\ \A r \in Runs : TaskOf[r] = k => row[r].status # "none"
       /\ LET mine == {r \in Runs : TaskOf[r] = k /\ row[r].status = "success"} IN
            /\ mine # {}
            /\ job' = [job EXCEPT ![d] = [NoJob EXCEPT !.pc = "next", !.got = Targets,
                                                        !.victims = mine, !.whole = TRUE]]
  /\ UNCHANGED <<store, recipe, row, lock, reader, doomed, faults>>

(* Mutant: the locks are taken in any order. *)
LockAnyOrder(p) ==
  /\ job[p].pc = "lock"
  /\ \E t \in job[p].rest :
       /\ lock[t] = Free
       /\ lock' = [lock EXCEPT ![t] = p]
       /\ job' = [job EXCEPT ![p].rest = @ \ {t},
                             ![p].pc = IF job[p].rest # {t} THEN "lock"
                                       ELSE IF p \in Runs THEN "list" ELSE "next"]
  /\ UNCHANGED <<store, recipe, row, reader, doomed, faults>>

(* All locks, in the order of the targets' ids. *)
LockAll(p) ==
  /\ job[p].pc = "lock"
  /\ LET t == Least(job[p].rest) IN
       /\ lock[t] = Free
       /\ lock' = [lock EXCEPT ![t] = p]
       /\ job' = [job EXCEPT ![p].rest = @ \ {t},
                             ![p].pc = IF job[p].rest # {t} THEN "lock"
                                       ELSE IF p \in Runs THEN "list" ELSE "next"]
  /\ UNCHANGED <<store, recipe, row, reader, doomed, faults>>

(* The records of r's task beyond MaxBackups, the newest ones kept. *)
Expired(r) ==
  LET done == {q \in Runs : TaskOf[q] = TaskOf[r] /\ row[q].status = "success"} IN
  IF MaxBackups = 0 THEN {}
  ELSE {q \in done : Cardinality({n \in done : n > q}) >= MaxBackups}

ListExpired(r) ==
  /\ job[r].pc = "list"
  /\ job' = [job EXCEPT ![r].pc = "next", ![r].victims = Expired(r)]
  /\ UNCHANGED <<store, recipe, row, lock, reader, doomed, faults>>

(* The next record to remove. *)
NextVictim(p) ==
  /\ job[p].pc = "next"
  /\ job[p].victims # {}
  /\ LET v == Least(job[p].victims) IN
       job' = [job EXCEPT ![p].pc = "object", ![p].victim = v, ![p].ok = TRUE,
                          ![p].victims = @ \ {v}, ![p].rest = row[v].copies]
  /\ UNCHANGED <<store, recipe, row, lock, reader, doomed, faults>>

(* Mutant: everything under the task's prefix is removed from the target. *)
RemovePrefix(p) ==
  /\ job[p].pc = "object"
  /\ job[p].rest # {}
  /\ LET t == Least(job[p].rest)
         k == TaskOf[job[p].victim]
     IN /\ snap' = [snap EXCEPT ![t] = {r \in @ : TaskOf[r] # k}]
        /\ doomed' = doomed \cup {job[p].victim}
        /\ job' = [job EXCEPT ![p].rest = @ \ {t}, ![p].touched = @ \cup {t}]
  /\ UNCHANGED <<pack, index, recipe, row, lock, reader, faults>>

(* The victim's snapshots, one target after the other. A copy on a target  *)
(* for which this run has no provider stays, and the record with it.       *)
RemoveObject(p) ==
  /\ job[p].pc = "object"
  /\ job[p].rest # {}
  /\ LET t == Least(job[p].rest) IN
       IF t \in job[p].got
       THEN /\ snap' = [snap EXCEPT ![t] = @ \ {job[p].victim}]
            /\ doomed' = doomed \cup {job[p].victim}
            /\ job' = [job EXCEPT ![p].rest = @ \ {t}, ![p].touched = @ \cup {t}]
       ELSE /\ job' = [job EXCEPT ![p].rest = @ \ {t}, ![p].ok = FALSE]
            /\ UNCHANGED <<snap, doomed>>
  /\ UNCHANGED <<pack, index, recipe, row, lock, reader, faults>>

(* Retention deletes the row of each record that left nothing behind;      *)
(* DeleteRecord does so at its end.                                        *)
RemoveRow(p) ==
  /\ job[p].pc = "object"
  /\ job[p].rest = {}
  /\ IF p \in Runs /\ job[p].ok
     THEN row' = [row EXCEPT ![job[p].victim].status = "deleted"]
     ELSE UNCHANGED row
  /\ Goto(p, "next")
  /\ UNCHANGED <<store, recipe, lock, reader, doomed, faults>>

(* An object cannot be deleted: retention and the deletion of a task go on *)
(* with the next one, DeleteRecord stops. It may be gone all the same.     *)
RemoveFails(p) ==
  /\ job[p].pc = "object"
  /\ job[p].rest # {}
  /\ Fault("storage")
  /\ doomed' = doomed \cup {job[p].victim}
  /\ LET t == Least(job[p].rest) IN
       /\ \/ UNCHANGED snap
          \/ t \in job[p].got /\ snap' = [snap EXCEPT ![t] = @ \ {job[p].victim}]
       /\ IF p \in Runs \/ job[p].whole
          THEN job' = [job EXCEPT ![p].rest = @ \ {t}, ![p].ok = FALSE]
          ELSE Goto(p, "end")
  /\ UNCHANGED <<pack, index, recipe, row, lock, reader>>

(* The row of a record that retention removes stays. *)
RowFails(p) ==
  /\ p \in Runs
  /\ job[p].pc = "object"
  /\ job[p].rest = {}
  /\ Fault("db")
  /\ Goto(p, "next")
  /\ UNCHANGED <<store, recipe, row, lock, reader, doomed>>

-----------------------------------------------------------------------------
(* Prune of one target after the other: what the snapshots name is live.   *)
PruneMark(p) ==
  /\ job[p].pc = "next"
  /\ job[p].victims = {}
  /\ job[p].touched # {}
  /\ \E t \in job[p].touched :
       job' = [job EXCEPT ![p].pc = "scan", ![p].at = t, ![p].touched = @ \ {t},
                          ![p].live = LiveChunks(t)]
  /\ UNCHANGED <<store, recipe, row, lock, reader, doomed, faults>>

(* Mutant: packs without a segment are not looked for. *)
PruneScanIndexed(p) ==
  /\ job[p].pc = "scan"
  /\ LET t == job[p].at
         kept == {s \in index[t] : s \cap job[p].live # {}}
     IN job' = [job EXCEPT ![p].pc = "sweep", ![p].dead = index[t] \ kept,
                           ![p].packs = index[t] \ kept]
  /\ UNCHANGED <<store, recipe, row, lock, reader, doomed, faults>>

(* Mutant: a segment is kept only if all its chunks are live. *)
PruneScanStrict(p) ==
  /\ job[p].pc = "scan"
  /\ LET t == job[p].at
         kept == {s \in index[t] : s \subseteq job[p].live}
     IN job' = [job EXCEPT ![p].pc = "sweep", ![p].dead = index[t] \ kept,
                           ![p].packs = pack[t] \ kept]
  /\ UNCHANGED <<store, recipe, row, lock, reader, doomed, faults>>

(* The index segments without a live chunk, and the packs that no other    *)
(* segment keeps.                                                          *)
PruneScan(p) ==
  /\ job[p].pc = "scan"
  /\ LET t == job[p].at
         kept == {s \in index[t] : s \cap job[p].live # {}}
     IN job' = [job EXCEPT ![p].pc = "sweep", ![p].dead = index[t] \ kept,
                           ![p].packs = pack[t] \ kept]
  /\ UNCHANGED <<store, recipe, row, lock, reader, doomed, faults>>

(* A dead segment goes before its pack does. *)
SweepIndex(p) ==
  /\ job[p].pc = "sweep"
  /\ \E s \in job[p].dead :
       /\ index' = [index EXCEPT ![job[p].at] = @ \ {s}]
       /\ job' = [job EXCEPT ![p].pc = "drop", ![p].cur = s, ![p].dead = @ \ {s}]
  /\ UNCHANGED <<pack, snap, recipe, row, lock, reader, doomed, faults>>

SweepPack(p) ==
  /\ job[p].pc = "drop"
  /\ pack' = [pack EXCEPT ![job[p].at] = @ \ {job[p].cur}]
  /\ job' = [job EXCEPT ![p].pc = "sweep", ![p].packs = @ \ {job[p].cur}, ![p].cur = NoPack]
  /\ UNCHANGED <<index, snap, recipe, row, lock, reader, doomed, faults>>

(* Packs without a segment: an upload or a prune was cut short. Then the   *)
(* prune of this target is over.                                           *)
SweepOrphan(p) ==
  /\ job[p].pc = "sweep"
  /\ job[p].dead = {}
  /\ IF job[p].packs = {}
     THEN /\ Goto(p, "next")
          /\ UNCHANGED pack
     ELSE \E s \in job[p].packs :
            /\ pack' = [pack EXCEPT ![job[p].at] = @ \ {s}]
            /\ job' = [job EXCEPT ![p].packs = @ \ {s}]
  /\ UNCHANGED <<index, snap, recipe, row, lock, reader, doomed, faults>>

(* A prune that fails ends: retention and the deletion of a task turn to   *)
(* the next target, DeleteRecord stops and keeps the record.               *)
PruneFails(p) ==
  /\ job[p].pc \in {"scan", "sweep", "drop"}
  /\ Fault("storage")
  /\ job' = [job EXCEPT ![p] = [@ EXCEPT !.pc = IF p \in Runs \/ job[p].whole THEN "next"
                                               ELSE "end",
                                         !.dead = {}, !.packs = {}, !.cur = NoPack]]
  /\ UNCHANGED <<store, recipe, row, lock, reader, doomed>>

(* The row of a deleted record goes when its snapshots and chunks are      *)
(* gone; all locks are released.                                           *)
Finish(p) ==
  /\ \/ job[p].pc = "end"
     \/ job[p].pc = "next" /\ job[p].victims = {} /\ job[p].touched = {}
  /\ IF p \in Deleters /\ ~job[p].whole /\ job[p].pc = "next"
     THEN row' = [row EXCEPT ![job[p].victim].status = "deleted"]
     ELSE UNCHANGED row
  /\ Release(p)
  /\ job' = [job EXCEPT ![p] = [NoJob EXCEPT !.pc = "done"]]
  /\ UNCHANGED <<store, recipe, reader, doomed, faults>>

-----------------------------------------------------------------------------
(* A reader that finds something missing, and what of the index it needs.  *)
Broken(r)   == [NoReader EXCEPT !.pc = "broken", !.run = r]
Holds(p, r) == p \cap recipe[r] # {}

(* Restore, Verify and ExportTar: the snapshot, the index, then pack after *)
(* pack, without any lock.                                                 *)
OpenSnapshot(d) ==
  /\ reader[d].pc = "idle"
  /\ \E r \in Runs :
       /\ row[r].status = "success"
       /\ \E t \in row[r].copies :
            reader' = [reader EXCEPT ![d] =
              IF r \in snap[t] THEN [NoReader EXCEPT !.pc = "list", !.run = r, !.at = t] ELSE Broken(r)]
  /\ UNCHANGED <<store, recipe, row, lock, job, doomed, faults>>

(* The index: first the list of its segments, then one segment after the   *)
(* other. A segment that a prune has deleted meanwhile ends the reading.   *)
ListIndex(d) ==
  /\ reader[d].pc = "list"
  /\ reader' = [reader EXCEPT ![d].pc = "read", ![d].need = index[reader[d].at]]
  /\ UNCHANGED <<store, recipe, row, lock, job, doomed, faults>>

ReadSegment(d) ==
  /\ reader[d].pc = "read"
  /\ \E p \in reader[d].need :
       reader' = IF p \in index[reader[d].at]
                 THEN [reader EXCEPT ![d].need = @ \ {p},
                                     ![d].found = IF Holds(p, reader[d].run) THEN @ \cup {p} ELSE @]
                 ELSE [reader EXCEPT ![d] = [NoReader EXCEPT !.pc = "stale"]]
  /\ UNCHANGED <<store, recipe, row, lock, job, doomed, faults>>

(* Each chunk is read from a pack whose segment names it. *)
LocateChunks(d) ==
  /\ reader[d].pc = "read"
  /\ reader[d].need = {}
  /\ IF recipe[reader[d].run] \subseteq UNION reader[d].found
     THEN \E need \in SUBSET reader[d].found :
            /\ recipe[reader[d].run] \subseteq UNION need
            /\ reader' = [reader EXCEPT ![d].pc = "fetch", ![d].need = need, ![d].found = {}]
     ELSE reader' = [reader EXCEPT ![d] = Broken(reader[d].run)]
  /\ UNCHANGED <<store, recipe, row, lock, job, doomed, faults>>

FetchPack(d) ==
  /\ reader[d].pc = "fetch"
  /\ \E p \in reader[d].need :
       reader' = IF p \notin pack[reader[d].at]
                 THEN [reader EXCEPT ![d] = Broken(reader[d].run)]
                 ELSE IF reader[d].need # {p}
                 THEN [reader EXCEPT ![d].need = @ \ {p}]
                 ELSE [reader EXCEPT ![d] = [NoReader EXCEPT !.pc = "done"]]
  /\ UNCHANGED <<store, recipe, row, lock, job, doomed, faults>>

(* The Master restarts: the store keeps what is in it, runs in progress    *)
(* are marked as failed.                                                   *)
Restart ==
  /\ Fault("restart")
  /\ row' = [r \in Runs |-> IF row[r].status = "running"
                            THEN [row[r] EXCEPT !.status = "failed"] ELSE row[r]]
  /\ lock' = [t \in Targets |-> Free]
  /\ job' = [p \in Jobs |-> IF job[p].pc = "idle" THEN NoJob ELSE [NoJob EXCEPT !.pc = "done"]]
  /\ reader' = [d \in Readers |-> IF reader[d].pc \in {"idle", "broken"} THEN reader[d]
                                  ELSE [NoReader EXCEPT !.pc = "done"]]
  /\ UNCHANGED <<store, recipe, doomed>>

RunStep(r) ==
  LockTarget(r) \/ LoadIndex(r) \/ PutPack(r) \/ PutIndex(r) \/ PutSnapshot(r) \/ Finalize(r)
  \/ ListExpired(r)
RemovalStep(p) ==
  LockAll(p) \/ NextVictim(p) \/ RemoveObject(p) \/ RemoveRow(p) \/ PruneMark(p) \/ PruneScan(p)
  \/ SweepIndex(p) \/ SweepPack(p) \/ SweepOrphan(p) \/ Finish(p)
ReaderStep(d) ==
  OpenSnapshot(d) \/ ListIndex(d) \/ ReadSegment(d) \/ LocateChunks(d) \/ FetchPack(d)

RepoNext ==
  \/ \E r \in Runs : StartRun(r) \/ RunStep(r) \/ SkipTarget(r) \/ UploadFails(r)
  \/ \E d \in Deleters : DeleteRecord(d) \/ DeleteTask(d)
  \/ \E p \in Jobs : RemovalStep(p) \/ RemoveFails(p) \/ RowFails(p) \/ PruneFails(p)
  \/ \E d \in Readers : ReaderStep(d)
  \/ Restart

RepoSpec == RepoInit /\ [][RepoNext]_vars

-----------------------------------------------------------------------------
(* A snapshot that is in a target can be read there: every chunk it names  *)
(* is in the index, and every segment of the index has its pack, so that   *)
(* it does not matter from which segment a chunk is taken. (Upload writes  *)
(* in this order, Prune deletes in the opposite one; both in the middle of *)
(* what other tasks do.) It does not hold with the hazard "segment".       *)
Complete(t, r) == recipe[r] \subseteq Indexed(t)
SnapshotsComplete ==
  \A t \in Targets :
    /\ index[t] \subseteq pack[t]
    /\ \A r \in snap[t] : Complete(t, r)

(* A restore, a verification or a download that has read the index finds   *)
(* every chunk and pack it needs unless the record it reads is being       *)
(* removed, although it takes no lock and reads the index long before the  *)
(* last pack: what its snapshot names is never collected. With the hazard  *)
(* "segment" one may find its pack gone.                                   *)
ReadersFinish ==
  \A d \in Readers : reader[d].pc = "broken" => reader[d].run \in doomed

(* A prune that is not cut short leaves nothing behind: afterwards every   *)
(* pack and every segment of its target holds a chunk that some snapshot   *)
(* names, orphans of earlier crashes included.                             *)
PruneReclaims ==
  [][\A p \in Jobs :
       job[p].pc = "sweep" /\ job'[p].pc = "next" /\ faults' = faults /\ ~job[p].whole
         => \A s \in pack[job[p].at] \cup index[job[p].at] :
              s \cap LiveChunks(job[p].at) # {}]_vars

(* Runs and deletions never wait for each other in a circle, whatever      *)
(* targets they have in common: with executeRepositoryTask holding one     *)
(* lock at a time, and retention and DeleteRecord several.                 *)
Waits(p)  == job[p].pc \in {"target", "lock"} /\ job[p].rest # {}
Blocks(q, p) == Waits(p) /\ lock[Least(job[p].rest)] = q
NoCircularWait ==
  \A S \in (SUBSET Jobs) \ {{}} : \E p \in S : \A q \in S : ~Blocks(q, p)

(* What a repository promises: snapshots come and go one by one; packs,    *)
(* indexes and their collection are not to be seen.                        *)
Snapshots == INSTANCE SnapshotSets WITH
  held <- [t \in Targets |-> {r \in snap[t] : Complete(t, r) /\ index[t] \subseteq pack[t]}]
ImplementsSnapshotSets == Snapshots!Spec
===============================================================================
