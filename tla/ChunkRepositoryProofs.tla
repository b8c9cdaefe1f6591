----------------------- MODULE ChunkRepositoryProofs ------------------------
(* What the CDC repository promises, for all sets of targets, runs, chunks  *)
(* and readers and any number of faults.                                    *)
(*                                                                          *)
(* The mutex of a target is what keeps a prune and an upload apart, so the  *)
(* invariant first says which mutexes a job holds from the state of that    *)
(* job alone (LockInv), and then what a job that holds one knows about the  *)
(* target: the index an upload has loaded and the live chunks a prune has   *)
(* marked are still those of the store (KnowInv).  Readers hold no mutex;   *)
(* for them it says that the segments they have listed stay as long as the  *)
(* snapshot they read for (ReaderInv).                                      *)
(*                                                                          *)
(* A step of a job is looked at twice.  Frame says what it does to others:  *)
(* nothing outside the targets whose mutex it holds, and no segment goes    *)
(* that a snapshot needs.  Frame is enough for all of them (OthersKeep,     *)
(* ReadersKeep).  Own is what is left to show of the job itself.  There is  *)
(* one lemma per step of a job, `<step>Keeps', and they meet in JobKeeps.   *)
(*                                                                          *)
(* All of it is for TaskDeletion = "alone": DeleteTask takes no mutex, and  *)
(* when it runs next to an upload the snapshots are not safe; and without   *)
(* the hazard "segment", which takes the pack from under a segment.         *)
EXTENDS ChunkRepository, FiniteSetTheorems, WellFoundedInduction, TLAPS

-----------------------------------------------------------------------------
(* A nonempty set of numbers has a least element, a finite one a greatest.  *)
Below == {e \in Nat \X Nat : e[1] < e[2]}

LEMMA BelowWellFounded == IsWellFoundedOn(Below, Nat)
  BY NatLessThanWellFounded DEF OpToRel, Below

LEMMA LeastOf ==
  ASSUME NEW S \in SUBSET Nat, S # {}
  PROVE  /\ Least(S) \in S
         /\ \A u \in S : Least(S) <= u
<1>0. S \subseteq Nat
  OBVIOUS
<1>1. \E x \in S : \A y \in S : ~ (<<y, x>> \in Below)
  <2>1. \A T : T \subseteq Nat /\ T # {} => \E x \in T : \A y \in T : ~ (<<y, x>> \in Below)
    BY BelowWellFounded, WFMin
  <2>2. QED
    BY <1>0, <2>1
<1>2. ASSUME NEW x \in S, NEW y \in S, <<y, x>> \notin Below
      PROVE  x <= y
  <2>1. <<y, x>> \in Nat \X Nat
    OBVIOUS
  <2>2. ~(y < x)
    BY <2>1, <1>2 DEF Below
  <2>3. QED
    BY <2>2
<1>3. \E x \in S : \A y \in S : x <= y
  BY <1>1, <1>2
<1>4. QED
  BY <1>3 DEF Least

LEMMA GreatestOf ==
  ASSUME NEW S \in SUBSET Nat, S # {}, IsFiniteSet(S)
  PROVE  \E m \in S : \A u \in S : u <= m
<1> DEFINE Above(x) == {y \in S : x <= y}
           R == StrictSubsetOrdering(S)
           F == {Above(x) : x \in S}
<1>1. IsWellFoundedOn(R, SUBSET S)
  BY FS_FiniteSubsetsOfFinite, FS_StrictSubsetOrderingWellFounded
<1>2. F \subseteq SUBSET S /\ F # {}
  OBVIOUS
<1> HIDE DEF R
<1>3. PICK T \in F : \A U \in F : ~ (<<U, T>> \in R)
  BY <1>1, <1>2, WFMin
<1>4. PICK m \in S : T = Above(m)
  OBVIOUS
<1>5. ASSUME NEW u \in S, ~(u <= m)
      PROVE  FALSE
  <2>1. Above(u) \in F /\ Above(u) \subseteq T /\ Above(u) # T
    <3>1. m \in Above(m) /\ m \notin Above(u)
      BY <1>5
    <3>2. \A y \in Above(u) : y \in Above(m)
      BY <1>5
    <3>3. QED
      BY <3>1, <3>2, <1>4
  <2>2. <<Above(u), T>> \in R
    BY <2>1, <1>2 DEF R, StrictSubsetOrdering
  <2>3. QED
    BY <2>1, <2>2, <1>3
<1>6. QED
  BY <1>5

-----------------------------------------------------------------------------
(* The shape of the variables.                                              *)
JobPC == {"idle", "target", "load", "put", "index", "lock", "list", "next", "object", "scan",
          "sweep", "drop", "end", "done"}
ReaderPC == {"idle", "list", "read", "fetch", "done", "stale", "broken"}
Uploading == {"load", "put", "index"}
Pruning   == {"scan", "sweep", "drop"}
Removing  == {"list", "next", "object", "end"} \cup Pruning

RowRecord == [status: {"none", "running", "success", "failed", "deleted"},
              copies: SUBSET Targets]
JobRecord == [pc: JobPC, rest: SUBSET Targets, at: Targets \cup {NoTarget},
              got: SUBSET Targets, known: SUBSET Chunks, cur: SUBSET Chunks,
              victims: SUBSET Runs, victim: Runs \cup {NoRun},
              touched: SUBSET Targets, live: SUBSET Chunks, dead: SUBSET Pack,
              packs: SUBSET Pack, ok: BOOLEAN, whole: BOOLEAN]
ReaderRecord == [pc: ReaderPC, run: Runs \cup {NoRun}, at: Targets \cup {NoTarget},
                 need: SUBSET Pack, found: SUBSET Pack]

(* Each variable has the shape its comment in the module says.              *)
RepoTypeOK ==
  /\ pack \in [Targets -> SUBSET Pack]
  /\ index \in [Targets -> SUBSET Pack]
  /\ snap \in [Targets -> SUBSET Runs]
  /\ recipe \in [Runs -> SUBSET Chunks]
  /\ row \in [Runs -> RowRecord]
  /\ lock \in [Targets -> Jobs \cup {Free}]
  /\ job \in [Jobs -> JobRecord]
  /\ reader \in [Readers -> ReaderRecord]
  /\ doomed \subseteq Runs
  /\ faults \in Nat

(* The targets whose mutex a job holds, as its own state tells.             *)
HeldBy(p) ==
  IF job[p].whole THEN {}
  ELSE IF job[p].pc \in Uploading THEN {job[p].at}
  ELSE IF job[p].pc = "lock" THEN job[p].got \ job[p].rest
  ELSE IF job[p].pc \in Removing THEN job[p].got
  ELSE {}
LockInv == \A p \in Jobs, t \in Targets : lock[t] = p <=> t \in HeldBy(p)

(* How far a job may be.                                                    *)
JobShape(p) ==
  /\ job[p].pc \in Uploading \cup {"target", "list"} => p \in Runs
  /\ job[p].pc \in Uploading => job[p].at \in Targets
  /\ job[p].pc = "object" => job[p].victim \in Runs
  /\ job[p].pc = "lock" => /\ job[p].rest # {}
                           /\ job[p].rest \subseteq job[p].got
                           /\ \A t \in job[p].got \ job[p].rest, u \in job[p].rest : t < u
  /\ job[p].pc \in Removing => job[p].touched \subseteq job[p].got
  /\ job[p].pc \in Pruning => job[p].at \in job[p].got
  /\ job[p].pc \in {"lock", "target"} \cup Uploading => job[p].touched = {}
  /\ job[p].whole => job[p].pc \in Removing /\ job[p].got = Targets
  /\ p \in Runs /\ row[p].status = "none" => job[p] = NoJob
ShapeInv == \A p \in Jobs : JobShape(p)

(* Nothing else is going on while a task is deleted.                        *)
AloneInv == \A p, q \in Jobs : job[p].whole /\ Busy(q) => p = q

(* What a job that works on a target knows about it.                        *)
JobKnows(p) ==
  /\ job[p].pc \in {"put", "index"} => job[p].known = Indexed(job[p].at)
  /\ job[p].pc = "index" => /\ job[p].cur \in pack[job[p].at]
                            /\ job[p].cur # {}
                            /\ job[p].cur \cap job[p].known = {}
  /\ job[p].pc \in Pruning => job[p].live = LiveChunks(job[p].at)
  /\ job[p].pc \in {"sweep", "drop"} =>
       /\ job[p].dead \subseteq index[job[p].at]
       /\ \A s \in job[p].dead : s \cap job[p].live = {}
       /\ \A s \in pack[job[p].at] : s \in job[p].packs \/ s \cap job[p].live # {}
       /\ \A s \in job[p].packs : s \in index[job[p].at] => s \in job[p].dead
  /\ job[p].pc = "drop" => job[p].cur \notin index[job[p].at]
KnowInv == \A p \in Jobs : JobKnows(p)

(* A copy a record names, or a run counts on, is there or being removed.    *)
Kept(r, t) == r \in snap[t] \/ r \in doomed
CopiesInv ==
  /\ \A t \in Targets : \A r \in snap[t] : row[r].status # "none"
  /\ \A r \in Runs :
       /\ row[r].status = "success" => row[r].copies # {} /\ \A t \in row[r].copies : Kept(r, t)
       /\ job[r].pc \in Uploading \cup {"target"} => \A t \in job[r].got : Kept(r, t)

(* What a reader has read of the index is enough for its snapshot, and      *)
(* stays, unless its record is being removed.                               *)
ReaderKnows(d) ==
  LET r == reader[d].run
      t == reader[d].at
  IN /\ reader[d].pc = "broken" => r \in doomed
     /\ reader[d].pc \in {"list", "read", "fetch"} =>
          /\ r \in Runs /\ t \in Targets /\ row[r].status # "none"
          /\ reader[d].pc = "list" => reader[d].found = {}
          /\ \/ r \in doomed
             \/ /\ r \in snap[t]
                /\ reader[d].pc = "read" => recipe[r] \subseteq UNION (reader[d].need \cup reader[d].found)
                /\ \A s \in reader[d].found : s \in index[t] /\ s \cap recipe[r] # {}
                /\ reader[d].pc = "fetch" =>
                     \A s \in reader[d].need : s \in index[t] /\ s \cap recipe[r] # {}
ReaderInv == \A d \in Readers : ReaderKnows(d)

RepoInv ==
  /\ RepoTypeOK
  /\ LockInv
  /\ ShapeInv
  /\ AloneInv
  /\ KnowInv
  /\ CopiesInv
  /\ SnapshotsComplete
  /\ ReaderInv

-----------------------------------------------------------------------------
(* The steps of one job; with those of the readers and the restart they     *)
(* are all there is.                                                        *)
JobAction(p) ==
  \/ p \in Runs /\ (StartRun(p) \/ RunStep(p) \/ SkipTarget(p) \/ UploadFails(p))
  \/ p \in Deleters /\ (DeleteRecord(p) \/ DeleteTask(p))
  \/ RemovalStep(p) \/ RemoveFails(p) \/ RowFails(p) \/ PruneFails(p)

LEMMA NextCases ==
  RepoNext => \/ \E p \in Jobs : JobAction(p)
              \/ \E d \in Readers : ReaderStep(d)
              \/ Restart
BY DEF RepoNext, JobAction, Jobs

(* What a step of p does to the others: their state stays, with the mutexes*)
(* they hold; the store changes only in targets whose mutex p holds (or     *)
(* when p deletes a task); a snapshot goes only if its record is doomed,    *)
(* and a segment only if no snapshot names one of its chunks.               *)
Frame(p) ==
  /\ UNCHANGED reader
  /\ \A q \in Jobs \ {p} : Busy(q) => ~job[q].whole /\ ~job[p].whole
  /\ \A q \in Jobs \ {p} : job'[q] = job[q]
  /\ \A q \in Jobs \ {p}, t \in Targets : lock'[t] = q <=> lock[t] = q
  /\ \A t \in Targets : lock[t] # p /\ ~job[p].whole =>
       pack'[t] = pack[t] /\ index'[t] = index[t] /\ snap'[t] = snap[t]
  /\ \A r \in Runs :
       /\ row[r].status # "none" => recipe'[r] = recipe[r] /\ row'[r].status # "none"
       /\ r # p /\ row'[r].status = "none" => row[r].status = "none"
       /\ row'[r].status = "success" =>
            \/ row'[r] = row[r]
            \/ row'[r].copies # {} /\ \A t \in row'[r].copies : r \in snap[t] \/ r \in doomed
  /\ doomed \subseteq doomed'
  /\ \A t \in Targets :
       /\ \A r \in snap[t] : r \in snap'[t] \/ r \in doomed'
       /\ \A r \in snap'[t] : r \in snap[t] \/ row[r].status # "none"
       /\ \A s \in index[t] : s \in index'[t] \/ s \cap LiveChunks(t) = {}

(* What p itself is after a step of its own.                                *)
OwnLocks(p) == \A t \in Targets : lock[t] = p <=> t \in HeldBy(p)
OwnCopies(p) ==
  p \in Runs /\ job[p].pc \in Uploading \cup {"target"} => \A t \in job[p].got : Kept(p, t)
OwnAlone(p) ==
  \A q \in Jobs \ {p} : ~(job[p].whole /\ Busy(q)) /\ ~(Busy(p) /\ job[q].whole)
Own(p) == OwnLocks(p) /\ JobShape(p) /\ JobKnows(p) /\ OwnCopies(p) /\ OwnAlone(p)

LEMMA Mine ==
  ASSUME RepoInv, NEW p \in Jobs, NEW t \in Targets,
         \/ job[p].pc \in Uploading /\ t = job[p].at
         \/ job[p].pc \in Removing /\ t \in job[p].got
  PROVE  lock[t] = p \/ job[p].whole
BY DEF RepoInv, LockInv, HeldBy, Uploading, Removing, Pruning

(* The others keep what they are and know.                                  *)
LEMMA OthersKeep ==
  ASSUME RepoInv, NEW p \in Jobs, Frame(p), NEW q \in Jobs, q # p
  PROVE  /\ \A t \in Targets : lock'[t] = q <=> t \in HeldBy(q)'
         /\ JobShape(q)'
         /\ JobKnows(q)'
<1> USE RepositoryAssumption
<1>1. job'[q] = job[q]
  BY DEF Frame
<1>2. \A t \in Targets : lock'[t] = q <=> t \in HeldBy(q)'
  BY <1>1 DEF Frame, RepoInv, LockInv, HeldBy
<1>3. JobShape(q)'
  BY <1>1 DEF Frame, RepoInv, ShapeInv, JobShape, Jobs
<1>4. JobKnows(q)'
  <2>1. CASE job[q].pc \notin {"put", "index"} \cup Pruning
    BY <1>1, <2>1 DEF JobKnows, Pruning
  <2>2. CASE job[q].pc \in {"put", "index"} \cup Pruning
    <3> DEFINE t == job[q].at
    <3>1. Busy(q) /\ JobShape(q) /\ JobKnows(q)
      BY <2>2 DEF Busy, RepoInv, ShapeInv, KnowInv, Pruning
    <3>2. ~job[p].whole /\ ~job[q].whole
      BY <3>1 DEF Frame
    <3>3. t \in Targets
      BY <2>2, <3>1 DEF JobShape, Uploading, Removing, Pruning, RepoInv, RepoTypeOK, JobRecord
    <3>4. t \in HeldBy(q)
      BY <2>2, <3>1, <3>2 DEF JobShape, HeldBy, Uploading, Removing, Pruning
    <3>5. QED
      <4>1. lock[t] # p
        BY <3>3, <3>4 DEF RepoInv, LockInv
      <4>2. pack'[t] = pack[t] /\ index'[t] = index[t] /\ snap'[t] = snap[t]
        BY <3>2, <3>3, <4>1 DEF Frame
      <4>3. Indexed(t)' = Indexed(t)
        BY <1>1, <4>2 DEF Indexed
      <4>4. \A r \in snap[t] : recipe'[r] = recipe[r]
        <5>1. \A r \in snap[t] : r \in Runs /\ row[r].status # "none"
          BY <3>3 DEF RepoInv, CopiesInv, RepoTypeOK
        <5>2. QED
          BY <5>1 DEF Frame
      <4>5. LiveChunks(t)' = LiveChunks(t)
        BY <1>1, <4>2, <4>4 DEF LiveChunks
      <4>6. QED
        BY <1>1, <3>1, <4>2, <4>3, <4>5 DEF JobKnows
  <2>3. QED
    BY <2>1, <2>2
<1>5. QED
  BY <1>2, <1>3, <1>4

LEMMA Quiet ==
  ASSUME RepoInv, NEW p \in Jobs, Busy(p), NEW q \in Jobs, q # p, Busy(q)
  PROVE  ~job[q].whole /\ ~job[p].whole
BY DEF RepoInv, AloneInv

(* Readers: what they have read stays as long as their record does.         *)
LEMMA ReadersKeep ==
  ASSUME RepoInv, NEW p \in Jobs, Frame(p)
  PROVE  ReaderInv'
<1> SUFFICES ASSUME NEW d \in Readers PROVE ReaderKnows(d)'
  BY DEF ReaderInv
<1>1. reader'[d] = reader[d] /\ ReaderKnows(d)
  BY DEF Frame, RepoInv, ReaderInv
<1>2. CASE reader[d].pc \notin {"list", "read", "fetch"}
  BY <1>1, <1>2 DEF ReaderKnows, Frame
<1>3. CASE reader[d].pc \in {"list", "read", "fetch"}
  <2> DEFINE r == reader[d].run
             t == reader[d].at
  <2>1. r \in Runs /\ t \in Targets /\ row[r].status # "none"
    BY <1>1, <1>3 DEF ReaderKnows
  <2>2. recipe'[r] = recipe[r] /\ row'[r].status # "none" /\ (r \in doomed => r \in doomed')
    BY <2>1 DEF Frame
  <2>3. ASSUME r \notin doomed'
        PROVE  /\ r \in snap[t] /\ r \in snap'[t]
               /\ \A s \in index[t] : s \cap recipe[r] # {} => s \in index'[t]
    <3>1. r \in snap[t]
      BY <1>1, <1>3, <2>2, <2>3 DEF ReaderKnows
    <3>2. r \in snap'[t]
      BY <2>1, <2>3, <3>1 DEF Frame
    <3>3. \A s \in index[t] : s \in index'[t] \/ s \cap LiveChunks(t) = {}
      BY <2>1 DEF Frame
    <3>4. QED
      BY <3>1, <3>2, <3>3 DEF LiveChunks
  <2>4. QED
    BY <1>1, <1>3, <2>1, <2>2, <2>3 DEF ReaderKnows
<1>4. QED
  BY <1>2, <1>3

(* What is left to show of a step.                                          *)
LEMMA StepKeeps ==
  ASSUME RepoInv, NEW p \in Jobs, Frame(p), Own(p)', RepoTypeOK', SnapshotsComplete'
  PROVE  RepoInv'
<1>1. \A q \in Jobs : /\ \A t \in Targets : lock'[t] = q <=> t \in HeldBy(q)'
                      /\ JobShape(q)'
                      /\ JobKnows(q)'
  BY OthersKeep DEF Own, OwnLocks
<1>2. LockInv' /\ ShapeInv' /\ KnowInv'
  BY <1>1 DEF LockInv, ShapeInv, KnowInv
<1>3. AloneInv'
  BY DEF Frame, Own, OwnAlone, RepoInv, AloneInv, Busy
<1>4. CopiesInv'
  <2>1. \A r \in Runs, t \in Targets : Kept(r, t) => Kept(r, t)'
    BY DEF Frame, Kept
  <2>2. \A t \in Targets : \A r \in snap'[t] : row'[r].status # "none"
    BY DEF Frame, RepoInv, CopiesInv, RepoTypeOK
  <2>3. ASSUME NEW r \in Runs, row'[r].status = "success"
        PROVE  row'[r].copies # {} /\ \A t \in row'[r].copies : Kept(r, t)'
    <3>1. CASE row'[r] = row[r]
      <4>1. row[r].copies \subseteq Targets
        BY DEF RepoInv, RepoTypeOK, RowRecord
      <4>2. QED
        BY <2>1, <2>3, <3>1, <4>1 DEF RepoInv, CopiesInv
    <3>2. CASE row'[r].copies # {} /\ \A t \in row'[r].copies : r \in snap[t] \/ r \in doomed
      <4>1. row'[r].copies \subseteq Targets
        BY DEF RepoTypeOK, RowRecord
      <4>2. QED
        BY <2>1, <2>3, <3>2, <4>1 DEF Kept
    <3>3. QED
      BY <2>3, <3>1, <3>2 DEF Frame
  <2>4. ASSUME NEW r \in Runs, job'[r].pc \in Uploading \cup {"target"}
        PROVE  \A t \in job'[r].got : Kept(r, t)'
    <3>1. CASE r = p
      BY <2>4, <3>1 DEF Own, OwnCopies
    <3>2. CASE r # p
      <4>1. job'[r] = job[r] /\ job[r].got \subseteq Targets
        BY <3>2 DEF Frame, Jobs, RepoInv, RepoTypeOK, JobRecord
      <4>2. QED
        BY <2>1, <2>4, <4>1 DEF RepoInv, CopiesInv
    <3>3. QED
      BY <3>1, <3>2
  <2>5. QED
    BY <2>2, <2>3, <2>4 DEF CopiesInv
<1>5. QED
  BY <1>2, <1>3, <1>4, ReadersKeep DEF RepoInv

(* The state of one job changes to e.                                       *)
LEMMA SetJob ==
  ASSUME RepoTypeOK, NEW p \in Jobs, NEW e \in JobRecord, job' = [job EXCEPT ![p] = e]
  PROVE  job' \in [Jobs -> JobRecord] /\ job'[p] = e /\ \A q \in Jobs \ {p} : job'[q] = job[q]
BY DEF RepoTypeOK

LEMMA LeastTarget ==
  ASSUME NEW S \in SUBSET Targets, S # {}
  PROVE  Least(S) \in S /\ \A u \in S : Least(S) <= u
BY LeastOf, RepositoryAssumption

(* Where neither index nor snapshots change, snapshots stay complete.       *)
LEMMA SameIndex ==
  ASSUME RepoInv, NEW p \in Jobs, Frame(p), index' = index, snap' = snap,
         \A t \in Targets : index[t] \subseteq pack'[t]
  PROVE  SnapshotsComplete'
<1>1. ASSUME NEW t \in Targets, NEW r \in snap[t]
      PROVE  recipe'[r] = recipe[r] /\ recipe[r] \subseteq Indexed(t)
  <2>1. r \in Runs /\ row[r].status # "none"
    BY DEF RepoInv, CopiesInv, RepoTypeOK
  <2>2. QED
    BY <2>1 DEF Frame, RepoInv, SnapshotsComplete, Complete
<1>2. QED
  BY <1>1 DEF SnapshotsComplete, Complete, Indexed

(* No task is deleted next to anything else.                                *)
LEMMA StaysAlone ==
  ASSUME RepoInv, NEW p \in Jobs, Frame(p), job'[p].whole => job[p].whole
  PROVE  OwnAlone(p)'
<1> SUFFICES ASSUME NEW q \in Jobs, q # p
             PROVE  ~(job'[p].whole /\ Busy(q)') /\ ~(Busy(p)' /\ job'[q].whole)
  BY DEF OwnAlone
<1>1. job'[q] = job[q] /\ (Busy(q)' <=> Busy(q)) /\ (Busy(q) => ~job[q].whole /\ ~job[p].whole)
  BY DEF Frame, Busy
<1>2. job[q].whole => Busy(q)
  BY DEF RepoInv, ShapeInv, JobShape, Busy, Removing, Pruning
<1>3. QED
  BY <1>1, <1>2

(* A run that is not about to upload or uploading has no copies to answer   *)
(* for; one that keeps its copies goes on with them.                        *)
LEMMA CopiesStay ==
  ASSUME RepoInv, NEW p \in Jobs, Frame(p),
         \/ job'[p].pc \notin Uploading \cup {"target"}
         \/ job[p].pc \in Uploading \cup {"target"} /\ job'[p].got = job[p].got
  PROVE  OwnCopies(p)'
<1>1. job[p].got \subseteq Targets
  BY DEF RepoInv, RepoTypeOK, JobRecord
<1>2. \A t \in Targets, r \in Runs : Kept(r, t) => Kept(r, t)'
  BY DEF Frame, Kept
<1>3. QED
  BY <1>1, <1>2 DEF OwnCopies, RepoInv, CopiesInv

(* The record of a run at work is not without a status.                     *)
LEMMA RowStarted ==
  ASSUME RepoInv, NEW p \in Jobs, Frame(p), Busy(p)
  PROVE  p \in Runs => row'[p].status # "none"
BY DEF RepoInv, ShapeInv, JobShape, Frame, Busy, NoJob

LEMMA NoJobRow ==
  ASSUME RepoInv, NEW p \in Runs, row[p].status = "none"
  PROVE  job[p] = NoJob
BY DEF RepoInv, ShapeInv, JobShape, Jobs

-----------------------------------------------------------------------------
(* Runs: executeCDC, target by target.                                      *)
LEMMA StartRunKeeps ==
  ASSUME RepoInv, NEW p \in Runs, StartRun(p), TaskDeletion = "alone"
  PROVE  Frame(p) /\ RepoInv'
<1>0. /\ p \in Jobs /\ RepoTypeOK /\ job[p] \in JobRecord /\ JobShape(p) /\ JobKnows(p)
      /\ OwnLocks(p) /\ job[p] = NoJob /\ row[p].status = "none"
  BY NoJobRow DEF RepoInv, ShapeInv, KnowInv, LockInv, OwnLocks, RepoTypeOK, Jobs, Busy, StartRun
<1>b. PICK content \in Pack : recipe' = [recipe EXCEPT ![p] = content]
  BY DEF StartRun
<1> DEFINE e == [NoJob EXCEPT !.pc = "target", !.rest = TargetsOf[TaskOf[p]]]
<1>1. /\ job' = [job EXCEPT ![p] = e]
      /\ recipe' = [recipe EXCEPT ![p] = content]
      /\ row' = [row EXCEPT ![p].status = "running"]
      /\ pack' = pack /\ index' = index /\ snap' = snap /\ lock' = lock
      /\ reader' = reader /\ doomed' = doomed /\ faults' = faults
  BY <1>0, <1>b DEF store, StartRun
<1>2. e \in JobRecord
  BY <1>0, <1>b, RepositoryAssumption DEF JobRecord, JobPC, Pruning, NoJob, NoPack
<1>3. /\ e.pc = "target" /\ e.rest = TargetsOf[TaskOf[p]] /\ e.at = NoTarget /\ e.got = {}
      /\ e.known = {} /\ e.cur = {} /\ e.victim = NoRun /\ e.touched = {} /\ e.live = {}
      /\ e.dead = {} /\ e.packs = {} /\ e.whole = FALSE
  BY <1>0 DEF JobRecord, NoJob, NoPack
<1> HIDE DEF e
<1>4. job' \in [Jobs -> JobRecord] /\ job'[p] = e /\ \A q \in Jobs \ {p} : job'[q] = job[q]
  BY <1>0, <1>1, <1>2, SetJob
<1>5. RepoTypeOK'
  <2>1. recipe' \in [Runs -> SUBSET Chunks]
    BY <1>0, <1>1 DEF RepoTypeOK, Pack
  <2>2. row' \in [Runs -> RowRecord]
    BY <1>0, <1>b, <1>1 DEF RepoTypeOK, RowRecord
  <2>3. QED
    BY <1>0, <1>1, <1>4, <2>1, <2>2 DEF RepoTypeOK
<1>6. Frame(p)
  <2>1. \A q \in Jobs \ {p} : Busy(q) => ~job[q].whole /\ ~job[p].whole
    BY <1>0 DEF NoTaskDeleted, StartRun, NoJob
  <2>4. \A r \in Runs :
         /\ row[r].status # "none" => recipe'[r] = recipe[r] /\ row'[r].status # "none"
         /\ r # p /\ row'[r].status = "none" => row[r].status = "none"
         /\ row'[r].status = "success" =>
              \/ row'[r] = row[r]
              \/ row'[r].copies # {} /\ \A t \in row'[r].copies : r \in snap[t] \/ r \in doomed
    BY <1>0, <1>b, <1>1 DEF RepoTypeOK, RowRecord
  <2>6. QED
    BY <1>1, <1>4, <2>1, <2>4 DEF Frame
<1>7. Own(p)'
  <2>1. OwnLocks(p)'
    BY <1>0, <1>b, <1>1, <1>3, <1>4, RepositoryAssumption DEF OwnLocks, HeldBy, JobShape, Uploading, Removing, Pruning, RepoTypeOK, Jobs, NoJob
  <2>2. JobShape(p)'
    BY <1>0, <1>1, <1>3, <1>4 DEF JobShape, Uploading, Removing, Pruning, RepoTypeOK, RowRecord
  <2>3. JobKnows(p)'
    BY <1>0, <1>b, <1>1, <1>3, <1>4 DEF JobKnows, Pruning, Indexed, LiveChunks
  <2>4. OwnCopies(p)'
    BY <1>3, <1>4 DEF OwnCopies
  <2>5. OwnAlone(p)'
    BY <1>0, <1>3, <1>4, <1>6, StaysAlone
  <2>6. QED
    BY <2>1, <2>2, <2>3, <2>4, <2>5 DEF Own
<1>8. SnapshotsComplete'
  BY <1>0, <1>1, <1>6, SameIndex DEF RepoInv, SnapshotsComplete
<1>9. QED
  BY <1>0, <1>5, <1>6, <1>7, <1>8, StepKeeps

LEMMA LockTargetKeeps ==
  ASSUME RepoInv, NEW p \in Runs, LockTarget(p)
  PROVE  Frame(p) /\ RepoInv'
<1>0. /\ p \in Jobs /\ RepoTypeOK /\ job[p] \in JobRecord /\ JobShape(p) /\ JobKnows(p)
      /\ OwnLocks(p) /\ job[p].pc = "target"
  BY NoJobRow DEF RepoInv, ShapeInv, KnowInv, LockInv, OwnLocks, RepoTypeOK, Jobs, Busy, LockTarget
<1> DEFINE t == Least(job[p].rest)
<1>b. t \in job[p].rest /\ t \in Targets /\ \A u \in job[p].rest : t <= u
  BY <1>0, LeastTarget DEF JobRecord, JobShape, LockTarget
<1> DEFINE e == [job[p] EXCEPT !.pc = "load", !.at = t, !.rest = @ \ {t}]
<1>1. /\ job' = [job EXCEPT ![p] = e]
      /\ lock[t] = Free /\ lock' = [lock EXCEPT ![t] = p]
      /\ pack' = pack /\ index' = index /\ snap' = snap /\ recipe' = recipe /\ row' = row
      /\ reader' = reader /\ doomed' = doomed /\ faults' = faults
  BY <1>0, <1>b DEF store, LockTarget
<1>2. e \in JobRecord
  BY <1>0, <1>b, RepositoryAssumption DEF JobRecord, JobPC, Pruning, NoPack
<1>3. /\ e.pc = "load" /\ e.rest = job[p].rest \ {t} /\ e.at = t /\ e.got = job[p].got
      /\ e.known = job[p].known /\ e.cur = job[p].cur /\ e.victim = job[p].victim
      /\ e.touched = job[p].touched /\ e.live = job[p].live /\ e.dead = job[p].dead
      /\ e.packs = job[p].packs /\ e.whole = job[p].whole
  BY <1>0 DEF JobRecord, NoPack
<1> HIDE DEF e
<1>4. job' \in [Jobs -> JobRecord] /\ job'[p] = e /\ \A q \in Jobs \ {p} : job'[q] = job[q]
  BY <1>0, <1>1, <1>2, SetJob
<1>5. RepoTypeOK'
  <2>1. lock' \in [Targets -> Jobs \cup {Free}]
    BY <1>0, <1>b, <1>1 DEF RepoTypeOK
  <2>2. QED
    BY <1>0, <1>1, <1>4, <2>1 DEF RepoTypeOK
<1>6. Frame(p)
  <2>1. \A q \in Jobs \ {p} : Busy(q) => ~job[q].whole /\ ~job[p].whole
    BY <1>0, Quiet DEF Busy
  <2>2. \A q \in Jobs \ {p}, u \in Targets : lock'[u] = q <=> lock[u] = q
    BY <1>0, <1>b, <1>1, RepositoryAssumption DEF RepoTypeOK, Jobs
  <2>6. QED
    BY <1>1, <1>4, <2>1, <2>2 DEF Frame
<1>7. Own(p)'
  <2>1. OwnLocks(p)'
    BY <1>0, <1>b, <1>1, <1>3, <1>4, RepositoryAssumption DEF OwnLocks, HeldBy, JobShape, Uploading, Removing, Pruning, RepoTypeOK, Jobs
  <2>2. JobShape(p)'
    BY <1>0, <1>b, <1>1, <1>3, <1>4, <1>6, RowStarted, RepositoryAssumption DEF JobShape, Uploading, Removing, Pruning, Jobs, Busy
  <2>3. JobKnows(p)'
    BY <1>0, <1>b, <1>1, <1>3, <1>4 DEF JobKnows, Pruning, Indexed, LiveChunks
  <2>4. OwnCopies(p)'
    BY <1>0, <1>3, <1>4, <1>6, CopiesStay DEF Uploading
  <2>5. OwnAlone(p)'
    BY <1>0, <1>3, <1>4, <1>6, StaysAlone
  <2>6. QED
    BY <2>1, <2>2, <2>3, <2>4, <2>5 DEF Own
<1>8. SnapshotsComplete'
  BY <1>0, <1>1, <1>6, SameIndex DEF RepoInv, SnapshotsComplete
<1>9. QED
  BY <1>0, <1>5, <1>6, <1>7, <1>8, StepKeeps

LEMMA SkipTargetKeeps ==
  ASSUME RepoInv, NEW p \in Runs, SkipTarget(p)
  PROVE  Frame(p) /\ RepoInv'
<1>0. /\ p \in Jobs /\ RepoTypeOK /\ job[p] \in JobRecord /\ JobShape(p) /\ JobKnows(p)
      /\ OwnLocks(p) /\ job[p].pc = "target"
  BY NoJobRow DEF RepoInv, ShapeInv, KnowInv, LockInv, OwnLocks, RepoTypeOK, Jobs, Busy, SkipTarget, Fault
<1> DEFINE e == [job[p] EXCEPT !.rest = @ \ {Least(job[p].rest)}]
<1>1. /\ job' = [job EXCEPT ![p] = e]
      /\ faults' = faults + 1
      /\ pack' = pack /\ index' = index /\ snap' = snap /\ recipe' = recipe /\ row' = row
      /\ lock' = lock /\ reader' = reader /\ doomed' = doomed
  BY <1>0 DEF store, SkipTarget, Fault
<1>2. e \in JobRecord
  BY <1>0, RepositoryAssumption DEF JobRecord, JobPC, Pruning, NoPack
<1>3. /\ e.pc = job[p].pc /\ e.rest = job[p].rest \ {Least(job[p].rest)}
      /\ e.at = job[p].at /\ e.got = job[p].got /\ e.known = job[p].known
      /\ e.cur = job[p].cur /\ e.victim = job[p].victim /\ e.touched = job[p].touched
      /\ e.live = job[p].live /\ e.dead = job[p].dead /\ e.packs = job[p].packs
      /\ e.whole = job[p].whole
  BY <1>0 DEF JobRecord, NoPack
<1> HIDE DEF e
<1>4. job' \in [Jobs -> JobRecord] /\ job'[p] = e /\ \A q \in Jobs \ {p} : job'[q] = job[q]
  BY <1>0, <1>1, <1>2, SetJob
<1>5. RepoTypeOK'
  <2>1. faults' \in Nat
    BY <1>0, <1>1 DEF RepoTypeOK
  <2>2. QED
    BY <1>0, <1>1, <1>4, <2>1 DEF RepoTypeOK
<1>6. Frame(p)
  <2>1. \A q \in Jobs \ {p} : Busy(q) => ~job[q].whole /\ ~job[p].whole
    BY <1>0, Quiet DEF Busy
  <2>6. QED
    BY <1>1, <1>4, <2>1 DEF Frame
<1>7. Own(p)'
  <2>1. OwnLocks(p)'
    BY <1>0, <1>1, <1>3, <1>4, RepositoryAssumption DEF OwnLocks, HeldBy, JobShape, Uploading, Removing, Pruning, RepoTypeOK, Jobs
  <2>2. JobShape(p)'
    BY <1>0, <1>1, <1>3, <1>4, <1>6, RowStarted, RepositoryAssumption DEF JobShape, Uploading, Removing, Pruning, Jobs, Busy
  <2>3. JobKnows(p)'
    BY <1>0, <1>1, <1>3, <1>4 DEF JobKnows, Pruning, Indexed, LiveChunks
  <2>4. OwnCopies(p)'
    BY <1>0, <1>3, <1>4, <1>6, CopiesStay DEF Uploading
  <2>5. OwnAlone(p)'
    BY <1>0, <1>3, <1>4, <1>6, StaysAlone
  <2>6. QED
    BY <2>1, <2>2, <2>3, <2>4, <2>5 DEF Own
<1>8. SnapshotsComplete'
  BY <1>0, <1>1, <1>6, SameIndex DEF RepoInv, SnapshotsComplete
<1>9. QED
  BY <1>0, <1>5, <1>6, <1>7, <1>8, StepKeeps

LEMMA LoadIndexKeeps ==
  ASSUME RepoInv, NEW p \in Runs, LoadIndex(p)
  PROVE  Frame(p) /\ RepoInv'
<1>0. /\ p \in Jobs /\ RepoTypeOK /\ job[p] \in JobRecord /\ JobShape(p) /\ JobKnows(p)
      /\ OwnLocks(p) /\ job[p].pc = "load"
  BY NoJobRow DEF RepoInv, ShapeInv, KnowInv, LockInv, OwnLocks, RepoTypeOK, Jobs, Busy, LoadIndex
<1>b. Indexed(job[p].at) \subseteq Chunks
  <2>1. index[job[p].at] \subseteq Pack
    BY <1>0 DEF RepoTypeOK, JobShape, Uploading
  <2>2. QED
    BY <2>1 DEF Indexed, Pack
<1> DEFINE e == [job[p] EXCEPT !.pc = "put", !.known = Indexed(job[p].at)]
<1>1. /\ job' = [job EXCEPT ![p] = e]
      /\ pack' = pack /\ index' = index /\ snap' = snap /\ recipe' = recipe /\ row' = row
      /\ lock' = lock /\ reader' = reader /\ doomed' = doomed /\ faults' = faults
  BY <1>0, <1>b DEF store, LoadIndex
<1>2. e \in JobRecord
  BY <1>0, <1>b, RepositoryAssumption DEF JobRecord, JobPC, Pruning, NoPack
<1>3. /\ e.pc = "put" /\ e.rest = job[p].rest /\ e.at = job[p].at /\ e.got = job[p].got
      /\ e.known = Indexed(job[p].at) /\ e.cur = job[p].cur /\ e.victim = job[p].victim
      /\ e.touched = job[p].touched /\ e.live = job[p].live /\ e.dead = job[p].dead
      /\ e.packs = job[p].packs /\ e.whole = job[p].whole
  BY <1>0 DEF JobRecord, NoPack
<1> HIDE DEF e
<1>4. job' \in [Jobs -> JobRecord] /\ job'[p] = e /\ \A q \in Jobs \ {p} : job'[q] = job[q]
  BY <1>0, <1>1, <1>2, SetJob
<1>5. RepoTypeOK'
  <2>1. QED
    BY <1>0, <1>1, <1>4 DEF RepoTypeOK
<1>6. Frame(p)
  <2>1. \A q \in Jobs \ {p} : Busy(q) => ~job[q].whole /\ ~job[p].whole
    BY <1>0, Quiet DEF Busy
  <2>6. QED
    BY <1>1, <1>4, <2>1 DEF Frame
<1>7. Own(p)'
  <2>1. OwnLocks(p)'
    BY <1>0, <1>b, <1>1, <1>3, <1>4, RepositoryAssumption DEF OwnLocks, HeldBy, JobShape, Uploading, Removing, Pruning, RepoTypeOK, Jobs
  <2>2. JobShape(p)'
    BY <1>0, <1>b, <1>1, <1>3, <1>4, <1>6, RowStarted, RepositoryAssumption DEF JobShape, Uploading, Removing, Pruning, Jobs, Busy
  <2>3. JobKnows(p)'
    BY <1>0, <1>b, <1>1, <1>3, <1>4 DEF JobKnows, Pruning, Indexed, LiveChunks
  <2>4. OwnCopies(p)'
    BY <1>0, <1>3, <1>4, <1>6, CopiesStay DEF Uploading
  <2>5. OwnAlone(p)'
    BY <1>0, <1>3, <1>4, <1>6, StaysAlone
  <2>6. QED
    BY <2>1, <2>2, <2>3, <2>4, <2>5 DEF Own
<1>8. SnapshotsComplete'
  BY <1>0, <1>1, <1>6, SameIndex DEF RepoInv, SnapshotsComplete
<1>9. QED
  BY <1>0, <1>5, <1>6, <1>7, <1>8, StepKeeps

LEMMA PutPackKeeps ==
  ASSUME RepoInv, NEW p \in Runs, PutPack(p)
  PROVE  Frame(p) /\ RepoInv'
<1>0. /\ p \in Jobs /\ RepoTypeOK /\ job[p] \in JobRecord /\ JobShape(p) /\ JobKnows(p)
      /\ OwnLocks(p) /\ job[p].pc = "put"
  BY NoJobRow DEF RepoInv, ShapeInv, KnowInv, LockInv, OwnLocks, RepoTypeOK, Jobs, Busy, PutPack
<1>b. PICK s \in Pack : /\ s \subseteq recipe[p] \ job[p].known
      /\ pack' = [pack EXCEPT ![job[p].at] = @ \cup {s}]
      /\ job' = [job EXCEPT ![p].pc = "index", ![p].cur = s]
  BY DEF PutPack
<1> DEFINE e == [job[p] EXCEPT !.pc = "index", !.cur = s]
<1>1. /\ job' = [job EXCEPT ![p] = e]
      /\ pack' = [pack EXCEPT ![job[p].at] = @ \cup {s}]
      /\ index' = index /\ snap' = snap /\ recipe' = recipe /\ row' = row /\ lock' = lock
      /\ reader' = reader /\ doomed' = doomed /\ faults' = faults
  BY <1>0, <1>b DEF store, PutPack
<1>2. e \in JobRecord
  BY <1>0, <1>b, RepositoryAssumption DEF JobRecord, JobPC, Pruning, Pack, NoPack
<1>3. /\ e.pc = "index" /\ e.rest = job[p].rest /\ e.at = job[p].at /\ e.got = job[p].got
      /\ e.known = job[p].known /\ e.cur = s /\ e.victim = job[p].victim
      /\ e.touched = job[p].touched /\ e.live = job[p].live /\ e.dead = job[p].dead
      /\ e.packs = job[p].packs /\ e.whole = job[p].whole
  BY <1>0 DEF JobRecord, NoPack
<1> HIDE DEF e
<1>4. job' \in [Jobs -> JobRecord] /\ job'[p] = e /\ \A q \in Jobs \ {p} : job'[q] = job[q]
  BY <1>0, <1>1, <1>2, SetJob
<1>5. RepoTypeOK'
  <2>1. pack' \in [Targets -> SUBSET Pack]
    BY <1>0, <1>b, <1>1 DEF RepoTypeOK, JobShape, Uploading
  <2>2. QED
    BY <1>0, <1>1, <1>4, <2>1 DEF RepoTypeOK
<1>6. Frame(p)
  <2>1. \A q \in Jobs \ {p} : Busy(q) => ~job[q].whole /\ ~job[p].whole
    BY <1>0, Quiet DEF Busy
  <2>3. \A t \in Targets : lock[t] # p /\ ~job[p].whole =>
         pack'[t] = pack[t] /\ index'[t] = index[t] /\ snap'[t] = snap[t]
    BY <1>0, <1>b, <1>1, Mine DEF RepoTypeOK, Uploading, Removing, Pruning
  <2>6. QED
    BY <1>1, <1>4, <2>1, <2>3 DEF Frame
<1>7. Own(p)'
  <2>1. OwnLocks(p)'
    BY <1>0, <1>b, <1>1, <1>3, <1>4, RepositoryAssumption DEF OwnLocks, HeldBy, JobShape, Uploading, Removing, Pruning, RepoTypeOK, Jobs
  <2>2. JobShape(p)'
    BY <1>0, <1>b, <1>1, <1>3, <1>4, <1>6, RowStarted, RepositoryAssumption DEF JobShape, Uploading, Removing, Pruning, Jobs, Busy
  <2>3. JobKnows(p)'
    <3>1. s \in pack'[job[p].at]
      BY <1>0, <1>1 DEF RepoTypeOK, JobShape, Uploading
    <3>2. s # {} /\ s \cap job[p].known = {} /\ job[p].known = Indexed(job[p].at)
      BY <1>0, <1>b DEF Pack, JobKnows
    <3>3. QED
      BY <1>1, <1>3, <1>4, <3>1, <3>2 DEF JobKnows, Pruning, Indexed
  <2>4. OwnCopies(p)'
    BY <1>0, <1>3, <1>4, <1>6, CopiesStay DEF Uploading
  <2>5. OwnAlone(p)'
    BY <1>0, <1>3, <1>4, <1>6, StaysAlone
  <2>6. QED
    BY <2>1, <2>2, <2>3, <2>4, <2>5 DEF Own
<1>8. SnapshotsComplete'
  BY <1>0, <1>1, <1>6, SameIndex DEF RepoInv, SnapshotsComplete
<1>9. QED
  BY <1>0, <1>5, <1>6, <1>7, <1>8, StepKeeps

LEMMA PutIndexKeeps ==
  ASSUME RepoInv, NEW p \in Runs, PutIndex(p)
  PROVE  Frame(p) /\ RepoInv'
<1>0. /\ p \in Jobs /\ RepoTypeOK /\ job[p] \in JobRecord /\ JobShape(p) /\ JobKnows(p)
      /\ OwnLocks(p) /\ job[p].pc = "index"
  BY NoJobRow DEF RepoInv, ShapeInv, KnowInv, LockInv, OwnLocks, RepoTypeOK, Jobs, Busy, PutIndex
<1> DEFINE e == [job[p] EXCEPT !.pc = "put", !.known = @ \cup job[p].cur, !.cur = NoPack]
<1>1. /\ job' = [job EXCEPT ![p] = e]
      /\ index' = [index EXCEPT ![job[p].at] = @ \cup {job[p].cur}]
      /\ pack' = pack /\ snap' = snap /\ recipe' = recipe /\ row' = row /\ lock' = lock
      /\ reader' = reader /\ doomed' = doomed /\ faults' = faults
  BY <1>0 DEF store, PutIndex
<1>2. e \in JobRecord
  BY <1>0, RepositoryAssumption DEF JobRecord, JobPC, Pruning, NoPack
<1>3. /\ e.pc = "put" /\ e.rest = job[p].rest /\ e.at = job[p].at /\ e.got = job[p].got
      /\ e.known = job[p].known \cup job[p].cur /\ e.cur = {} /\ e.victim = job[p].victim
      /\ e.touched = job[p].touched /\ e.live = job[p].live /\ e.dead = job[p].dead
      /\ e.packs = job[p].packs /\ e.whole = job[p].whole
  BY <1>0 DEF JobRecord, NoPack
<1> HIDE DEF e
<1>4. job' \in [Jobs -> JobRecord] /\ job'[p] = e /\ \A q \in Jobs \ {p} : job'[q] = job[q]
  BY <1>0, <1>1, <1>2, SetJob
<1>5. RepoTypeOK'
  <2>1. index' \in [Targets -> SUBSET Pack]
    <3>1. job[p].cur \in SUBSET Chunks /\ job[p].cur # {}
      BY <1>0 DEF JobKnows, JobRecord
    <3>2. QED
      BY <1>0, <1>1, <3>1 DEF RepoTypeOK, Pack
  <2>2. QED
    BY <1>0, <1>1, <1>4, <2>1 DEF RepoTypeOK
<1>6. Frame(p)
  <2>1. \A q \in Jobs \ {p} : Busy(q) => ~job[q].whole /\ ~job[p].whole
    BY <1>0, Quiet DEF Busy
  <2>3. \A t \in Targets : lock[t] # p /\ ~job[p].whole =>
         pack'[t] = pack[t] /\ index'[t] = index[t] /\ snap'[t] = snap[t]
    BY <1>0, <1>1, Mine DEF RepoTypeOK, Uploading, Removing, Pruning
  <2>5. /\ doomed \subseteq doomed'
        /\ \A t \in Targets :
             /\ \A r \in snap[t] : r \in snap'[t] \/ r \in doomed'
             /\ \A r \in snap'[t] : r \in snap[t] \/ row[r].status # "none"
             /\ \A s \in index[t] : s \in index'[t] \/ s \cap LiveChunks(t) = {}
    BY <1>0, <1>1 DEF RepoTypeOK
  <2>6. QED
    BY <1>1, <1>4, <2>1, <2>3, <2>5 DEF Frame
<1>7. Own(p)'
  <2>1. OwnLocks(p)'
    BY <1>0, <1>1, <1>3, <1>4, RepositoryAssumption DEF OwnLocks, HeldBy, JobShape, Uploading, Removing, Pruning, RepoTypeOK, Jobs
  <2>2. JobShape(p)'
    BY <1>0, <1>1, <1>3, <1>4, <1>6, RowStarted, RepositoryAssumption DEF JobShape, Uploading, Removing, Pruning, Jobs, Busy
  <2>3. JobKnows(p)'
    <3>1. index'[job[p].at] = index[job[p].at] \cup {job[p].cur}
      BY <1>0, <1>1 DEF RepoTypeOK, JobShape, Uploading
    <3>2. UNION index'[job[p].at] = (UNION index[job[p].at]) \cup job[p].cur
      BY <3>1
    <3>3. QED
      BY <1>0, <1>3, <1>4, <3>2 DEF JobKnows, Pruning, Indexed
  <2>4. OwnCopies(p)'
    BY <1>0, <1>3, <1>4, <1>6, CopiesStay DEF Uploading
  <2>5. OwnAlone(p)'
    BY <1>0, <1>3, <1>4, <1>6, StaysAlone
  <2>6. QED
    BY <2>1, <2>2, <2>3, <2>4, <2>5 DEF Own
<1>8. SnapshotsComplete'
  <2>1. \A t \in Targets : index[t] \subseteq index'[t] /\ index'[t] \subseteq pack'[t]
    BY <1>0, <1>1 DEF RepoTypeOK, JobKnows, RepoInv, SnapshotsComplete
  <2>2. \A t \in Targets : Indexed(t) \subseteq Indexed(t)'
    BY <2>1 DEF Indexed
  <2>3. QED
    BY <1>1, <2>1, <2>2 DEF RepoInv, SnapshotsComplete, Complete
<1>9. QED
  BY <1>0, <1>5, <1>6, <1>7, <1>8, StepKeeps

LEMMA PutSnapshotKeeps ==
  ASSUME RepoInv, NEW p \in Runs, PutSnapshot(p)
  PROVE  Frame(p) /\ RepoInv'
<1>0. /\ p \in Jobs /\ RepoTypeOK /\ job[p] \in JobRecord /\ JobShape(p) /\ JobKnows(p)
      /\ OwnLocks(p) /\ job[p].pc = "put"
  BY NoJobRow DEF RepoInv, ShapeInv, KnowInv, LockInv, OwnLocks, RepoTypeOK, Jobs, Busy, PutSnapshot
<1> DEFINE e == [NoJob EXCEPT !.pc = "target", !.rest = job[p].rest, !.got = job[p].got \cup {job[p].at}]
<1>1. /\ job' = [job EXCEPT ![p] = e]
      /\ snap' = [snap EXCEPT ![job[p].at] = @ \cup {p}]
      /\ lock' = [lock EXCEPT ![job[p].at] = Free]
      /\ pack' = pack /\ index' = index /\ recipe' = recipe /\ row' = row
      /\ reader' = reader /\ doomed' = doomed /\ faults' = faults
  BY <1>0 DEF store, PutSnapshot
<1>2. e \in JobRecord
  BY <1>0, RepositoryAssumption DEF JobRecord, JobPC, Pruning, JobShape, Uploading, NoJob, NoPack
<1>3. /\ e.pc = "target" /\ e.rest = job[p].rest /\ e.at = NoTarget
      /\ e.got = job[p].got \cup {job[p].at} /\ e.known = {} /\ e.cur = {}
      /\ e.victim = NoRun /\ e.touched = {} /\ e.live = {} /\ e.dead = {} /\ e.packs = {}
      /\ e.whole = FALSE
  BY <1>0 DEF JobRecord, NoJob, NoPack
<1> HIDE DEF e
<1>4. job' \in [Jobs -> JobRecord] /\ job'[p] = e /\ \A q \in Jobs \ {p} : job'[q] = job[q]
  BY <1>0, <1>1, <1>2, SetJob
<1>5. RepoTypeOK'
  <2>1. snap' \in [Targets -> SUBSET Runs]
    BY <1>0, <1>1 DEF RepoTypeOK, JobShape, Uploading
  <2>2. lock' \in [Targets -> Jobs \cup {Free}]
    BY <1>0, <1>1 DEF RepoTypeOK
  <2>3. QED
    BY <1>0, <1>1, <1>4, <2>1, <2>2 DEF RepoTypeOK
<1>6. Frame(p)
  <2>1. \A q \in Jobs \ {p} : Busy(q) => ~job[q].whole /\ ~job[p].whole
    BY <1>0, Quiet DEF Busy
  <2>2. \A q \in Jobs \ {p}, t \in Targets : lock'[t] = q <=> lock[t] = q
    BY <1>0, <1>1, RepositoryAssumption DEF RepoTypeOK, Jobs, OwnLocks, HeldBy, JobShape, Uploading, Removing, Pruning
  <2>3. \A t \in Targets : lock[t] # p /\ ~job[p].whole =>
         pack'[t] = pack[t] /\ index'[t] = index[t] /\ snap'[t] = snap[t]
    BY <1>0, <1>1, Mine DEF RepoTypeOK, Uploading, Removing, Pruning
  <2>5. /\ doomed \subseteq doomed'
        /\ \A t \in Targets :
             /\ \A r \in snap[t] : r \in snap'[t] \/ r \in doomed'
             /\ \A r \in snap'[t] : r \in snap[t] \/ row[r].status # "none"
             /\ \A s \in index[t] : s \in index'[t] \/ s \cap LiveChunks(t) = {}
    <3>1. row[p].status # "none"
      BY <1>0, NoJobRow DEF NoJob
    <3>2. QED
      BY <1>0, <1>1, <3>1 DEF RepoTypeOK
  <2>6. QED
    BY <1>1, <1>4, <2>1, <2>2, <2>3, <2>5 DEF Frame
<1>7. Own(p)'
  <2>1. OwnLocks(p)'
    BY <1>0, <1>1, <1>3, <1>4, RepositoryAssumption DEF OwnLocks, HeldBy, JobShape, Uploading, Removing, Pruning, RepoTypeOK, Jobs
  <2>2. JobShape(p)'
    BY <1>0, <1>1, <1>3, <1>4, <1>6, RowStarted, RepositoryAssumption DEF JobShape, Uploading, Removing, Pruning, Jobs, Busy
  <2>3. JobKnows(p)'
    BY <1>0, <1>1, <1>3, <1>4 DEF JobKnows, Pruning, Indexed, LiveChunks
  <2>4. OwnCopies(p)'
    <3>1. \A t \in job[p].got : Kept(p, t)
      BY <1>0 DEF RepoInv, CopiesInv, Uploading
    <3>2. \A t \in Targets : Kept(p, t) => Kept(p, t)'
      BY <1>6 DEF Frame, Kept
    <3>3. p \in snap'[job[p].at]
      BY <1>0, <1>1 DEF RepoTypeOK, JobShape, Uploading
    <3>4. QED
      BY <1>0, <1>3, <1>4, <3>1, <3>2, <3>3 DEF OwnCopies, JobRecord, Kept
  <2>5. OwnAlone(p)'
    BY <1>0, <1>3, <1>4, <1>6, StaysAlone
  <2>6. QED
    BY <2>1, <2>2, <2>3, <2>4, <2>5 DEF Own
<1>8. SnapshotsComplete'
  <2>1. \A t \in Targets : index'[t] = index[t] /\ pack'[t] = pack[t] /\ Indexed(t)' = Indexed(t)
    BY <1>1 DEF Indexed
  <2>2. recipe' = recipe
    BY <1>1
  <2>3. ASSUME NEW t \in Targets, NEW r \in snap'[t], r \notin snap[t]
        PROVE  r = p /\ t = job[p].at
    BY <1>0, <1>1, <2>3 DEF RepoTypeOK
  <2>4. recipe[p] \subseteq Indexed(job[p].at)
    BY <1>0 DEF JobKnows, PutSnapshot
  <2>5. QED
    BY <2>1, <2>2, <2>3, <2>4 DEF RepoInv, SnapshotsComplete, Complete
<1>9. QED
  BY <1>0, <1>5, <1>6, <1>7, <1>8, StepKeeps

LEMMA UploadFailsKeeps ==
  ASSUME RepoInv, NEW p \in Runs, UploadFails(p), "segment" \notin Hazards
  PROVE  Frame(p) /\ RepoInv'
<1>0. /\ p \in Jobs /\ RepoTypeOK /\ job[p] \in JobRecord /\ JobShape(p) /\ JobKnows(p)
      /\ OwnLocks(p) /\ job[p].pc \in {"load", "put", "index"}
  BY NoJobRow DEF RepoInv, ShapeInv, KnowInv, LockInv, OwnLocks, RepoTypeOK, Jobs, Busy, UploadFails, Fault
<1> DEFINE e == [NoJob EXCEPT !.pc = "target", !.rest = job[p].rest, !.got = job[p].got]
<1>1. /\ job' = [job EXCEPT ![p] = e]
      /\ \/ pack' = pack
         \/ job[p].pc = "index" /\ pack' = [pack EXCEPT ![job[p].at] = @ \ {job[p].cur}]
      /\ \/ snap' = snap
         \/ /\ job[p].pc = "put" /\ recipe[p] \subseteq job[p].known /\ pack' = pack
            /\ snap' = [snap EXCEPT ![job[p].at] = @ \cup {p}]
      /\ lock' = [lock EXCEPT ![job[p].at] = Free]
      /\ faults' = faults + 1
      /\ index' = index /\ recipe' = recipe /\ row' = row
      /\ reader' = reader /\ doomed' = doomed
  BY <1>0 DEF store, UploadFails, Fault
<1>2. e \in JobRecord
  BY <1>0, RepositoryAssumption DEF JobRecord, JobPC, Pruning, NoJob, NoPack
<1>3. /\ e.pc = "target" /\ e.rest = job[p].rest /\ e.at = NoTarget /\ e.got = job[p].got
      /\ e.known = {} /\ e.cur = {} /\ e.victim = NoRun /\ e.touched = {} /\ e.live = {}
      /\ e.dead = {} /\ e.packs = {} /\ e.whole = FALSE
  BY <1>0 DEF JobRecord, NoJob, NoPack
<1> HIDE DEF e
<1>4. job' \in [Jobs -> JobRecord] /\ job'[p] = e /\ \A q \in Jobs \ {p} : job'[q] = job[q]
  BY <1>0, <1>1, <1>2, SetJob
<1>5. RepoTypeOK'
  <2>1. pack' \in [Targets -> SUBSET Pack]
    BY <1>0, <1>1 DEF RepoTypeOK, JobShape, Uploading
  <2>2. lock' \in [Targets -> Jobs \cup {Free}]
    BY <1>0, <1>1 DEF RepoTypeOK
  <2>3. faults' \in Nat
    BY <1>0, <1>1 DEF RepoTypeOK
  <2>4. snap' \in [Targets -> SUBSET Runs]
    BY <1>0, <1>1 DEF RepoTypeOK, JobShape, Uploading
  <2>5. QED
    BY <1>0, <1>1, <1>4, <2>1, <2>2, <2>3, <2>4 DEF RepoTypeOK
<1>6. Frame(p)
  <2>1. \A q \in Jobs \ {p} : Busy(q) => ~job[q].whole /\ ~job[p].whole
    BY <1>0, Quiet DEF Busy
  <2>2. \A q \in Jobs \ {p}, t \in Targets : lock'[t] = q <=> lock[t] = q
    BY <1>0, <1>1, RepositoryAssumption DEF RepoTypeOK, Jobs, OwnLocks, HeldBy, JobShape, Uploading, Removing, Pruning
  <2>3. \A t \in Targets : lock[t] # p /\ ~job[p].whole =>
         pack'[t] = pack[t] /\ index'[t] = index[t] /\ snap'[t] = snap[t]
    BY <1>0, <1>1, Mine DEF RepoTypeOK, Uploading, Removing, Pruning
  <2>4. row[p].status # "none"
    BY <1>0, NoJobRow DEF NoJob
  <2>5. \A t \in Targets :
          /\ \A r \in snap[t] : r \in snap'[t]
          /\ \A r \in snap'[t] : r \in snap[t] \/ row[r].status # "none"
    BY <1>0, <1>1, <2>4 DEF RepoTypeOK
  <2>6. QED
    BY <1>1, <1>4, <2>1, <2>2, <2>3, <2>5 DEF Frame
<1>7. Own(p)'
  <2>1. OwnLocks(p)'
    BY <1>0, <1>1, <1>3, <1>4, RepositoryAssumption DEF OwnLocks, HeldBy, JobShape, Uploading, Removing, Pruning, RepoTypeOK, Jobs
  <2>2. JobShape(p)'
    BY <1>0, <1>1, <1>3, <1>4, <1>6, RowStarted, RepositoryAssumption DEF JobShape, Uploading, Removing, Pruning, Jobs, Busy
  <2>3. JobKnows(p)'
    BY <1>0, <1>1, <1>3, <1>4 DEF JobKnows, Pruning, Indexed, LiveChunks
  <2>4. OwnCopies(p)'
    BY <1>0, <1>3, <1>4, <1>6, CopiesStay DEF Uploading
  <2>5. OwnAlone(p)'
    BY <1>0, <1>3, <1>4, <1>6, StaysAlone
  <2>6. QED
    BY <2>1, <2>2, <2>3, <2>4, <2>5 DEF Own
<1>8. SnapshotsComplete'
  <2>1. \A t \in Targets : index[t] \subseteq pack'[t]
    <3>1. CASE pack' = pack
      BY <3>1 DEF RepoInv, SnapshotsComplete
    <3>2. CASE job[p].pc = "index" /\ pack' = [pack EXCEPT ![job[p].at] = @ \ {job[p].cur}]
      <4>1. job[p].cur \notin index[job[p].at]
        BY <1>0, <3>2 DEF JobKnows, Indexed
      <4>2. QED
        BY <1>0, <3>2, <4>1 DEF RepoTypeOK, RepoInv, SnapshotsComplete
    <3>3. QED
      BY <1>1, <3>1, <3>2
  <2>2. CASE snap' = snap
    BY <1>0, <1>1, <1>6, <2>1, <2>2, SameIndex
  <2>3. CASE /\ job[p].pc = "put" /\ recipe[p] \subseteq job[p].known /\ pack' = pack
             /\ snap' = [snap EXCEPT ![job[p].at] = @ \cup {p}]
    <3>1. \A t \in Targets : Indexed(t)' = Indexed(t)
      BY <1>1 DEF Indexed
    <3>2. ASSUME NEW t \in Targets, NEW r \in snap'[t], r \notin snap[t]
          PROVE  r = p /\ t = job[p].at
      BY <1>0, <2>3, <3>2 DEF RepoTypeOK
    <3>3. recipe[p] \subseteq Indexed(job[p].at)
      BY <1>0, <2>3 DEF JobKnows
    <3>4. recipe' = recipe
      BY <1>1
    <3>5. QED
      BY <1>1, <2>1, <3>1, <3>2, <3>3, <3>4 DEF RepoInv, SnapshotsComplete, Complete
  <2>4. QED
    BY <1>1, <2>2, <2>3
<1>9. QED
  BY <1>0, <1>5, <1>6, <1>7, <1>8, StepKeeps

LEMMA FinalizeKeeps ==
  ASSUME RepoInv, NEW p \in Runs, Finalize(p)
  PROVE  Frame(p) /\ RepoInv'
<1>0. /\ p \in Jobs /\ RepoTypeOK /\ job[p] \in JobRecord /\ JobShape(p) /\ JobKnows(p)
      /\ OwnLocks(p) /\ job[p].pc = "target" /\ job[p].rest = {}
  BY NoJobRow DEF RepoInv, ShapeInv, KnowInv, LockInv, OwnLocks, RepoTypeOK, Jobs, Busy, Finalize, Goto
<1> DEFINE after == IF job[p].got = {} THEN "done" ELSE "lock"
           final == IF job[p].got = {} THEN [row[p] EXCEPT !.status = "failed"]
                    ELSE [status |-> "success", copies |-> job[p].got]
<1>b. row' = [row EXCEPT ![p] = final] /\ job' = [job EXCEPT ![p] = [job[p] EXCEPT !.pc = after, !.rest = job[p].got]]
  <2>1. CASE job[p].got = {}
    <3>1. [job[p] EXCEPT !.pc = "done"] = [job[p] EXCEPT !.pc = "done", !.rest = {}]
      BY <1>0 DEF JobRecord
    <3>2. QED
      BY <2>1, <3>1 DEF Finalize, Goto
  <2>2. CASE job[p].got # {}
    BY <2>2 DEF Finalize
  <2>3. QED
    BY <2>1, <2>2
<1> DEFINE e == [job[p] EXCEPT !.pc = after, !.rest = job[p].got]
<1>1. /\ job' = [job EXCEPT ![p] = e]
      /\ row' = [row EXCEPT ![p] = final]
      /\ pack' = pack /\ index' = index /\ snap' = snap /\ recipe' = recipe
      /\ lock' = lock /\ reader' = reader /\ doomed' = doomed /\ faults' = faults
  BY <1>0, <1>b DEF store, Finalize, Goto
<1>2. e \in JobRecord
  BY <1>0, <1>b, RepositoryAssumption, Zenon DEF JobRecord, JobPC, Pruning, NoPack
<1>3. /\ e.pc = after /\ e.rest = job[p].got /\ e.at = job[p].at /\ e.got = job[p].got
      /\ e.known = job[p].known /\ e.cur = job[p].cur /\ e.victim = job[p].victim
      /\ e.touched = job[p].touched /\ e.live = job[p].live /\ e.dead = job[p].dead
      /\ e.packs = job[p].packs /\ e.whole = job[p].whole
  BY <1>0 DEF JobRecord, NoPack
<1> HIDE DEF e
<1>4. job' \in [Jobs -> JobRecord] /\ job'[p] = e /\ \A q \in Jobs \ {p} : job'[q] = job[q]
  BY <1>0, <1>1, <1>2, SetJob
<1>5. RepoTypeOK'
  <2>1. row' \in [Runs -> RowRecord]
    <3>1. final \in RowRecord
      BY <1>0 DEF RepoTypeOK, RowRecord, JobRecord
    <3>2. QED
      BY <1>0, <1>1, <3>1 DEF RepoTypeOK
  <2>2. QED
    BY <1>0, <1>1, <1>4, <2>1 DEF RepoTypeOK
<1>6. Frame(p)
  <2>1. \A q \in Jobs \ {p} : Busy(q) => ~job[q].whole /\ ~job[p].whole
    BY <1>0, Quiet DEF Busy
  <2>4. \A r \in Runs :
         /\ row[r].status # "none" => recipe'[r] = recipe[r] /\ row'[r].status # "none"
         /\ r # p /\ row'[r].status = "none" => row[r].status = "none"
         /\ row'[r].status = "success" =>
              \/ row'[r] = row[r]
              \/ row'[r].copies # {} /\ \A t \in row'[r].copies : r \in snap[t] \/ r \in doomed
    <3>1. final.status \in {"failed", "success"}
      BY <1>0 DEF RepoTypeOK, RowRecord
    <3>2. final.status = "success" =>
            final.copies # {} /\ \A t \in final.copies : p \in snap[t] \/ p \in doomed
      BY <1>0 DEF RepoTypeOK, RowRecord, RepoInv, CopiesInv, Kept
    <3>3. \A r \in Runs : row'[r] = IF r = p THEN final ELSE row[r]
      BY <1>0, <1>1 DEF RepoTypeOK
    <3>4. QED
      BY <1>1, <3>1, <3>2, <3>3
  <2>6. QED
    BY <1>1, <1>4, <2>1, <2>4 DEF Frame
<1>7. Own(p)'
  <2>1. OwnLocks(p)'
    BY <1>0, <1>b, <1>1, <1>3, <1>4, RepositoryAssumption DEF OwnLocks, HeldBy, JobShape, Uploading, Removing, Pruning, RepoTypeOK, Jobs
  <2>2. JobShape(p)'
    BY <1>0, <1>b, <1>1, <1>3, <1>4, <1>6, RowStarted, RepositoryAssumption DEF JobShape, Uploading, Removing, Pruning, Jobs, Busy
  <2>3. JobKnows(p)'
    BY <1>0, <1>b, <1>1, <1>3, <1>4 DEF JobKnows, Pruning, Indexed, LiveChunks
  <2>4. OwnCopies(p)'
    BY <1>0, <1>3, <1>4, <1>6, CopiesStay DEF Uploading
  <2>5. OwnAlone(p)'
    BY <1>0, <1>3, <1>4, <1>6, StaysAlone
  <2>6. QED
    BY <2>1, <2>2, <2>3, <2>4, <2>5 DEF Own
<1>8. SnapshotsComplete'
  BY <1>0, <1>1, <1>6, SameIndex DEF RepoInv, SnapshotsComplete
<1>9. QED
  BY <1>0, <1>5, <1>6, <1>7, <1>8, StepKeeps

-----------------------------------------------------------------------------
(* What is removed: retention after a run, the deletion of a record or of a *)
(* task, then the snapshots, the rows and the prune of each target.         *)
LEMMA ListExpiredKeeps ==
  ASSUME RepoInv, NEW p \in Runs, ListExpired(p)
  PROVE  Frame(p) /\ RepoInv'
<1>0. /\ p \in Jobs /\ RepoTypeOK /\ job[p] \in JobRecord /\ JobShape(p) /\ JobKnows(p)
      /\ OwnLocks(p) /\ job[p].pc = "list"
  BY NoJobRow DEF RepoInv, ShapeInv, KnowInv, LockInv, OwnLocks, RepoTypeOK, Jobs, Busy, ListExpired
<1> DEFINE e == [job[p] EXCEPT !.pc = "next", !.victims = Expired(p)]
<1>1. /\ job' = [job EXCEPT ![p] = e]
      /\ pack' = pack /\ index' = index /\ snap' = snap /\ recipe' = recipe /\ row' = row
      /\ lock' = lock /\ reader' = reader /\ doomed' = doomed /\ faults' = faults
  BY <1>0 DEF store, ListExpired
<1>2. e \in JobRecord
  BY <1>0, RepositoryAssumption, Zenon DEF JobRecord, JobPC, Pruning, Expired, NoPack
<1>3. /\ e.pc = "next" /\ e.rest = job[p].rest /\ e.at = job[p].at /\ e.got = job[p].got
      /\ e.known = job[p].known /\ e.cur = job[p].cur /\ e.victim = job[p].victim
      /\ e.touched = job[p].touched /\ e.live = job[p].live /\ e.dead = job[p].dead
      /\ e.packs = job[p].packs /\ e.whole = job[p].whole
  BY <1>0 DEF JobRecord, NoPack
<1> HIDE DEF e
<1>4. job' \in [Jobs -> JobRecord] /\ job'[p] = e /\ \A q \in Jobs \ {p} : job'[q] = job[q]
  BY <1>0, <1>1, <1>2, SetJob
<1>5. RepoTypeOK'
  <2>1. QED
    BY <1>0, <1>1, <1>4 DEF RepoTypeOK
<1>6. Frame(p)
  <2>1. \A q \in Jobs \ {p} : Busy(q) => ~job[q].whole /\ ~job[p].whole
    BY <1>0, Quiet DEF Busy
  <2>6. QED
    BY <1>1, <1>4, <2>1 DEF Frame
<1>7. Own(p)'
  <2>1. OwnLocks(p)'
    BY <1>0, <1>1, <1>3, <1>4, RepositoryAssumption DEF OwnLocks, HeldBy, JobShape, Uploading, Removing, Pruning, RepoTypeOK, Jobs
  <2>2. JobShape(p)'
    BY <1>0, <1>1, <1>3, <1>4, <1>6, RowStarted, RepositoryAssumption DEF JobShape, Uploading, Removing, Pruning, Jobs, Busy
  <2>3. JobKnows(p)'
    BY <1>0, <1>1, <1>3, <1>4 DEF JobKnows, Pruning, Indexed, LiveChunks
  <2>4. OwnCopies(p)'
    BY <1>0, <1>3, <1>4, <1>6, CopiesStay DEF Uploading
  <2>5. OwnAlone(p)'
    BY <1>0, <1>3, <1>4, <1>6, StaysAlone
  <2>6. QED
    BY <2>1, <2>2, <2>3, <2>4, <2>5 DEF Own
<1>8. SnapshotsComplete'
  BY <1>0, <1>1, <1>6, SameIndex DEF RepoInv, SnapshotsComplete
<1>9. QED
  BY <1>0, <1>5, <1>6, <1>7, <1>8, StepKeeps

LEMMA DeleteRecordKeeps ==
  ASSUME RepoInv, NEW p \in Deleters, DeleteRecord(p), TaskDeletion = "alone"
  PROVE  Frame(p) /\ RepoInv'
<1>0. /\ p \in Jobs /\ RepoTypeOK /\ job[p] \in JobRecord /\ JobShape(p) /\ JobKnows(p)
      /\ OwnLocks(p) /\ job[p].pc = "idle"
  BY NoJobRow DEF RepoInv, ShapeInv, KnowInv, LockInv, OwnLocks, RepoTypeOK, Jobs, Busy, DeleteRecord
<1>b. PICK r \in Runs : /\ row[r].status = "success"
      /\ job' = [job EXCEPT ![p] = [NoJob EXCEPT !.pc = "lock", !.rest = row[r].copies,
                       !.got = row[r].copies, !.victims = {r}, !.victim = NoRun]]
  BY Zenon DEF DeleteRecord
<1>c. row[r].copies \subseteq Targets /\ row[r].copies # {}
  BY <1>0, <1>b DEF RepoTypeOK, RowRecord, RepoInv, CopiesInv
<1> DEFINE e == [NoJob EXCEPT !.pc = "lock", !.rest = row[r].copies, !.got = row[r].copies, !.victims = {r}, !.victim = NoRun]
<1>1. /\ job' = [job EXCEPT ![p] = e]
      /\ pack' = pack /\ index' = index /\ snap' = snap /\ recipe' = recipe /\ row' = row
      /\ lock' = lock /\ reader' = reader /\ doomed' = doomed /\ faults' = faults
  BY <1>0, <1>b, <1>c DEF store, DeleteRecord
<1>2. e \in JobRecord
  BY <1>0, <1>b, <1>c, RepositoryAssumption DEF JobRecord, JobPC, Pruning, NoJob, NoPack
<1>3. /\ e.pc = "lock" /\ e.rest = row[r].copies /\ e.at = NoTarget
      /\ e.got = row[r].copies /\ e.known = {} /\ e.cur = {} /\ e.victim = NoRun
      /\ e.touched = {} /\ e.live = {} /\ e.dead = {} /\ e.packs = {} /\ e.whole = FALSE
  BY <1>0 DEF JobRecord, NoJob, NoPack
<1> HIDE DEF e
<1>4. job' \in [Jobs -> JobRecord] /\ job'[p] = e /\ \A q \in Jobs \ {p} : job'[q] = job[q]
  BY <1>0, <1>1, <1>2, SetJob
<1>5. RepoTypeOK'
  <2>1. QED
    BY <1>0, <1>1, <1>4 DEF RepoTypeOK
<1>6. Frame(p)
  <2>1. \A q \in Jobs \ {p} : Busy(q) => ~job[q].whole /\ ~job[p].whole
    BY <1>0 DEF NoTaskDeleted, DeleteRecord, JobShape, Removing, Pruning
  <2>6. QED
    BY <1>1, <1>4, <2>1 DEF Frame
<1>7. Own(p)'
  <2>1. OwnLocks(p)'
    BY <1>0, <1>b, <1>c, <1>1, <1>3, <1>4, RepositoryAssumption DEF OwnLocks, HeldBy, JobShape, Uploading, Removing, Pruning, RepoTypeOK, Jobs
  <2>2. JobShape(p)'
    BY <1>0, <1>b, <1>c, <1>1, <1>3, <1>4, <1>6, RowStarted, RepositoryAssumption DEF JobShape, Uploading, Removing, Pruning, Jobs, Busy
  <2>3. JobKnows(p)'
    BY <1>0, <1>b, <1>c, <1>1, <1>3, <1>4 DEF JobKnows, Pruning, Indexed, LiveChunks
  <2>4. OwnCopies(p)'
    BY <1>0, <1>3, <1>4, <1>6, CopiesStay DEF Uploading
  <2>5. OwnAlone(p)'
    BY <1>0, <1>3, <1>4, <1>6, StaysAlone
  <2>6. QED
    BY <2>1, <2>2, <2>3, <2>4, <2>5 DEF Own
<1>8. SnapshotsComplete'
  BY <1>0, <1>1, <1>6, SameIndex DEF RepoInv, SnapshotsComplete
<1>9. QED
  BY <1>0, <1>5, <1>6, <1>7, <1>8, StepKeeps

LEMMA DeleteTaskKeeps ==
  ASSUME RepoInv, NEW p \in Deleters, DeleteTask(p), TaskDeletion = "alone"
  PROVE  Frame(p) /\ RepoInv'
<1>0. /\ p \in Jobs /\ RepoTypeOK /\ job[p] \in JobRecord /\ JobShape(p) /\ JobKnows(p)
      /\ OwnLocks(p) /\ job[p].pc = "idle"
  BY NoJobRow DEF RepoInv, ShapeInv, KnowInv, LockInv, OwnLocks, RepoTypeOK, Jobs, Busy, DeleteTask
<1>b. PICK mine \in SUBSET Runs :
        job' = [job EXCEPT ![p] = [NoJob EXCEPT !.pc = "next", !.got = Targets,
                                                !.victims = mine, !.whole = TRUE]]
  BY Zenon DEF DeleteTask
<1>c. \A q \in Jobs : ~Busy(q)
  BY DEF DeleteTask
<1> DEFINE e == [NoJob EXCEPT !.pc = "next", !.got = Targets, !.victims = mine, !.whole = TRUE]
<1>1. /\ job' = [job EXCEPT ![p] = e]
      /\ pack' = pack /\ index' = index /\ snap' = snap /\ recipe' = recipe /\ row' = row
      /\ lock' = lock /\ reader' = reader /\ doomed' = doomed /\ faults' = faults
  BY <1>0, <1>b, <1>c DEF store, DeleteTask
<1>2. e \in JobRecord
  BY <1>0, <1>b, <1>c, RepositoryAssumption DEF JobRecord, JobPC, Pruning, NoJob, NoPack
<1>3. /\ e.pc = "next" /\ e.rest = {} /\ e.at = NoTarget /\ e.got = Targets
      /\ e.known = {} /\ e.cur = {} /\ e.victim = NoRun /\ e.touched = {} /\ e.live = {}
      /\ e.dead = {} /\ e.packs = {} /\ e.whole = TRUE
  BY <1>0 DEF JobRecord, NoJob, NoPack
<1> HIDE DEF e
<1>4. job' \in [Jobs -> JobRecord] /\ job'[p] = e /\ \A q \in Jobs \ {p} : job'[q] = job[q]
  BY <1>0, <1>1, <1>2, SetJob
<1>5. RepoTypeOK'
  <2>1. QED
    BY <1>0, <1>1, <1>4 DEF RepoTypeOK
<1>6. Frame(p)
  <2>1. \A q \in Jobs \ {p} : Busy(q) => ~job[q].whole /\ ~job[p].whole
    BY <1>c
  <2>6. QED
    BY <1>1, <1>4, <2>1 DEF Frame
<1>7. Own(p)'
  <2>1. OwnLocks(p)'
    BY <1>0, <1>b, <1>c, <1>1, <1>3, <1>4, RepositoryAssumption DEF OwnLocks, HeldBy, JobShape, Uploading, Removing, Pruning, RepoTypeOK, Jobs
  <2>2. JobShape(p)'
    BY <1>0, <1>b, <1>c, <1>1, <1>3, <1>4, <1>6, RowStarted, RepositoryAssumption DEF JobShape, Uploading, Removing, Pruning, Jobs, Busy
  <2>3. JobKnows(p)'
    BY <1>0, <1>b, <1>c, <1>1, <1>3, <1>4 DEF JobKnows, Pruning, Indexed, LiveChunks
  <2>4. OwnCopies(p)'
    BY <1>0, <1>3, <1>4, <1>6, CopiesStay DEF Uploading
  <2>5. OwnAlone(p)'
    BY <1>0, <1>c, <1>3, <1>4 DEF OwnAlone, Busy, RepoInv, ShapeInv, JobShape, Removing, Pruning
  <2>6. QED
    BY <2>1, <2>2, <2>3, <2>4, <2>5 DEF Own
<1>8. SnapshotsComplete'
  BY <1>0, <1>1, <1>6, SameIndex DEF RepoInv, SnapshotsComplete
<1>9. QED
  BY <1>0, <1>5, <1>6, <1>7, <1>8, StepKeeps

LEMMA LockAllKeeps ==
  ASSUME RepoInv, NEW p \in Jobs, LockAll(p)
  PROVE  Frame(p) /\ RepoInv'
<1>0. /\ p \in Jobs /\ RepoTypeOK /\ job[p] \in JobRecord /\ JobShape(p) /\ JobKnows(p)
      /\ OwnLocks(p) /\ job[p].pc = "lock"
  BY NoJobRow DEF RepoInv, ShapeInv, KnowInv, LockInv, OwnLocks, RepoTypeOK, Jobs, Busy, LockAll
<1> DEFINE t == Least(job[p].rest)
           after == IF job[p].rest # {t} THEN "lock" ELSE IF p \in Runs THEN "list" ELSE "next"
<1>b. t \in job[p].rest /\ t \in Targets /\ \A u \in job[p].rest : t <= u
  BY <1>0, LeastTarget DEF JobRecord, JobShape
<1> DEFINE e == [job[p] EXCEPT !.rest = @ \ {t}, !.pc = after]
<1>1. /\ job' = [job EXCEPT ![p] = e]
      /\ lock[t] = Free /\ lock' = [lock EXCEPT ![t] = p]
      /\ pack' = pack /\ index' = index /\ snap' = snap /\ recipe' = recipe /\ row' = row
      /\ reader' = reader /\ doomed' = doomed /\ faults' = faults
  BY <1>0, <1>b, Zenon DEF store, LockAll
<1>2. e \in JobRecord
  BY <1>0, <1>b, RepositoryAssumption, Zenon DEF JobRecord, JobPC, Pruning, NoPack
<1>3. /\ e.pc = after /\ e.rest = job[p].rest \ {t} /\ e.at = job[p].at
      /\ e.got = job[p].got /\ e.known = job[p].known /\ e.cur = job[p].cur
      /\ e.victim = job[p].victim /\ e.touched = job[p].touched /\ e.live = job[p].live
      /\ e.dead = job[p].dead /\ e.packs = job[p].packs /\ e.whole = job[p].whole
  BY <1>0 DEF JobRecord, NoPack
<1> HIDE DEF e
<1>4. job' \in [Jobs -> JobRecord] /\ job'[p] = e /\ \A q \in Jobs \ {p} : job'[q] = job[q]
  BY <1>0, <1>1, <1>2, SetJob
<1>5. RepoTypeOK'
  <2>1. lock' \in [Targets -> Jobs \cup {Free}]
    BY <1>0, <1>b, <1>1 DEF RepoTypeOK
  <2>2. QED
    BY <1>0, <1>1, <1>4, <2>1 DEF RepoTypeOK
<1>6. Frame(p)
  <2>1. \A q \in Jobs \ {p} : Busy(q) => ~job[q].whole /\ ~job[p].whole
    BY <1>0, Quiet DEF Busy
  <2>2. \A q \in Jobs \ {p}, u \in Targets : lock'[u] = q <=> lock[u] = q
    BY <1>0, <1>b, <1>1, RepositoryAssumption DEF RepoTypeOK, Jobs
  <2>6. QED
    BY <1>1, <1>4, <2>1, <2>2 DEF Frame
<1>7. Own(p)'
  <2>1. OwnLocks(p)'
    BY <1>0, <1>b, <1>1, <1>3, <1>4, RepositoryAssumption DEF OwnLocks, HeldBy, JobShape, Uploading, Removing, Pruning, RepoTypeOK, Jobs
  <2>2. JobShape(p)'
    <3>1. p \in Runs => row'[p].status # "none"
      BY <1>0, <1>6, RowStarted DEF Busy
    <3>2. ASSUME after = "lock"
          PROVE  /\ job[p].rest \ {t} # {} /\ job[p].rest \ {t} \subseteq job[p].got
                 /\ \A s \in job[p].got \ (job[p].rest \ {t}), u \in job[p].rest \ {t} : s < u
      <4>1. job[p].rest # {t} /\ job[p].rest \subseteq Targets
        BY <1>0, <3>2 DEF JobRecord
      <4>2. \A u \in job[p].rest \ {t} : t < u
        <5>1. \A u \in job[p].rest \ {t} : u \in Nat /\ t <= u /\ u # t
          BY <1>b, <4>1, RepositoryAssumption
        <5>2. t \in Nat
          BY <1>b, RepositoryAssumption
        <5> HIDE DEF t
        <5>3. QED
          BY <5>1, <5>2
      <4>3. QED
        BY <1>0, <1>b, <4>1, <4>2 DEF JobShape
    <3>3. after \in {"lock", "list", "next"} /\ (after = "list" => p \in Runs)
      OBVIOUS
    <3>4. ~job[p].whole /\ job[p].touched = {}
      BY <1>0 DEF JobShape, Removing, Pruning
    <3>5. job'[p].pc = after /\ job'[p].rest = job[p].rest \ {t} /\ job'[p].got = job[p].got
          /\ job'[p].touched = {} /\ ~job'[p].whole
      BY <1>3, <1>4, <3>4
    <3> HIDE DEF after
    <3>6. QED
      BY <3>1, <3>2, <3>3, <3>5 DEF JobShape, Uploading, Removing, Pruning
  <2>3. JobKnows(p)'
    BY <1>0, <1>b, <1>1, <1>3, <1>4 DEF JobKnows, Pruning, Indexed, LiveChunks
  <2>4. OwnCopies(p)'
    BY <1>0, <1>3, <1>4, <1>6, CopiesStay DEF Uploading
  <2>5. OwnAlone(p)'
    BY <1>0, <1>3, <1>4, <1>6, StaysAlone
  <2>6. QED
    BY <2>1, <2>2, <2>3, <2>4, <2>5 DEF Own
<1>8. SnapshotsComplete'
  BY <1>0, <1>1, <1>6, SameIndex DEF RepoInv, SnapshotsComplete
<1>9. QED
  BY <1>0, <1>5, <1>6, <1>7, <1>8, StepKeeps

LEMMA NextVictimKeeps ==
  ASSUME RepoInv, NEW p \in Jobs, NextVictim(p)
  PROVE  Frame(p) /\ RepoInv'
<1>0. /\ p \in Jobs /\ RepoTypeOK /\ job[p] \in JobRecord /\ JobShape(p) /\ JobKnows(p)
      /\ OwnLocks(p) /\ job[p].pc = "next"
  BY NoJobRow DEF RepoInv, ShapeInv, KnowInv, LockInv, OwnLocks, RepoTypeOK, Jobs, Busy, NextVictim
<1> DEFINE v == Least(job[p].victims)
<1>b. v \in Runs /\ row[v].copies \subseteq Targets
  <2>1. v \in job[p].victims
    BY <1>0, LeastOf, RepositoryAssumption DEF JobRecord, NextVictim
  <2>2. QED
    BY <1>0, <2>1 DEF JobRecord, RepoTypeOK, RowRecord
<1> DEFINE e == [job[p] EXCEPT !.pc = "object", !.victim = v, !.ok = TRUE, !.victims = @ \ {v}, !.rest = row[v].copies]
<1>1. /\ job' = [job EXCEPT ![p] = e]
      /\ pack' = pack /\ index' = index /\ snap' = snap /\ recipe' = recipe /\ row' = row
      /\ lock' = lock /\ reader' = reader /\ doomed' = doomed /\ faults' = faults
  BY <1>0, <1>b DEF store, NextVictim
<1>2. e \in JobRecord
  BY <1>0, <1>b, RepositoryAssumption DEF JobRecord, JobPC, Pruning, NoPack
<1>3. /\ e.pc = "object" /\ e.rest = row[v].copies /\ e.at = job[p].at
      /\ e.got = job[p].got /\ e.known = job[p].known /\ e.cur = job[p].cur
      /\ e.victim = v /\ e.touched = job[p].touched /\ e.live = job[p].live
      /\ e.dead = job[p].dead /\ e.packs = job[p].packs /\ e.whole = job[p].whole
  BY <1>0 DEF JobRecord, NoPack
<1> HIDE DEF e
<1>4. job' \in [Jobs -> JobRecord] /\ job'[p] = e /\ \A q \in Jobs \ {p} : job'[q] = job[q]
  BY <1>0, <1>1, <1>2, SetJob
<1>5. RepoTypeOK'
  <2>1. QED
    BY <1>0, <1>1, <1>4 DEF RepoTypeOK
<1>6. Frame(p)
  <2>1. \A q \in Jobs \ {p} : Busy(q) => ~job[q].whole /\ ~job[p].whole
    BY <1>0, Quiet DEF Busy
  <2>6. QED
    BY <1>1, <1>4, <2>1 DEF Frame
<1>7. Own(p)'
  <2>1. OwnLocks(p)'
    BY <1>0, <1>b, <1>1, <1>3, <1>4, RepositoryAssumption DEF OwnLocks, HeldBy, JobShape, Uploading, Removing, Pruning, RepoTypeOK, Jobs
  <2>2. JobShape(p)'
    BY <1>0, <1>b, <1>1, <1>3, <1>4, <1>6, RowStarted, RepositoryAssumption DEF JobShape, Uploading, Removing, Pruning, Jobs, Busy
  <2>3. JobKnows(p)'
    BY <1>0, <1>b, <1>1, <1>3, <1>4 DEF JobKnows, Pruning, Indexed, LiveChunks
  <2>4. OwnCopies(p)'
    BY <1>0, <1>3, <1>4, <1>6, CopiesStay DEF Uploading
  <2>5. OwnAlone(p)'
    BY <1>0, <1>3, <1>4, <1>6, StaysAlone
  <2>6. QED
    BY <2>1, <2>2, <2>3, <2>4, <2>5 DEF Own
<1>8. SnapshotsComplete'
  BY <1>0, <1>1, <1>6, SameIndex DEF RepoInv, SnapshotsComplete
<1>9. QED
  BY <1>0, <1>5, <1>6, <1>7, <1>8, StepKeeps

LEMMA RemoveObjectKeeps ==
  ASSUME RepoInv, NEW p \in Jobs, RemoveObject(p)
  PROVE  Frame(p) /\ RepoInv'
<1>0. /\ p \in Jobs /\ RepoTypeOK /\ job[p] \in JobRecord /\ JobShape(p) /\ JobKnows(p)
      /\ OwnLocks(p) /\ job[p].pc = "object"
  BY NoJobRow DEF RepoInv, ShapeInv, KnowInv, LockInv, OwnLocks, RepoTypeOK, Jobs, Busy, RemoveObject
<1> DEFINE t == Least(job[p].rest)
<1>b. t \in job[p].rest /\ t \in Targets /\ \A u \in job[p].rest : t <= u
  BY <1>0, LeastTarget DEF JobRecord, JobShape, RemoveObject
<1> DEFINE e == [job[p] EXCEPT !.rest = @ \ {t}, !.touched = IF t \in job[p].got THEN @ \cup {t} ELSE @, !.ok = IF t \in job[p].got THEN @ ELSE FALSE]
<1>1. /\ job' = [job EXCEPT ![p] = e]
      /\ snap' = IF t \in job[p].got THEN [snap EXCEPT ![t] = @ \ {job[p].victim}] ELSE snap
      /\ doomed' = IF t \in job[p].got THEN doomed \cup {job[p].victim} ELSE doomed
      /\ pack' = pack /\ index' = index /\ recipe' = recipe /\ row' = row /\ lock' = lock
      /\ reader' = reader /\ faults' = faults
  BY <1>0, <1>b DEF store, RemoveObject
<1>2. e \in JobRecord
  BY <1>0, <1>b, RepositoryAssumption DEF JobRecord, JobPC, Pruning, NoPack
<1>3. /\ e.pc = job[p].pc /\ e.rest = job[p].rest \ {t} /\ e.at = job[p].at
      /\ e.got = job[p].got /\ e.known = job[p].known /\ e.cur = job[p].cur
      /\ e.victim = job[p].victim
      /\ e.touched = IF t \in job[p].got THEN job[p].touched \cup {t} ELSE job[p].touched
      /\ e.live = job[p].live /\ e.dead = job[p].dead /\ e.packs = job[p].packs
      /\ e.whole = job[p].whole
  BY <1>0 DEF JobRecord, NoPack
<1> HIDE DEF e
<1>4. job' \in [Jobs -> JobRecord] /\ job'[p] = e /\ \A q \in Jobs \ {p} : job'[q] = job[q]
  BY <1>0, <1>1, <1>2, SetJob
<1>5. RepoTypeOK'
  <2>1. snap' \in [Targets -> SUBSET Runs]
    BY <1>0, <1>b, <1>1 DEF RepoTypeOK
  <2>2. doomed' \in SUBSET Runs
    BY <1>0, <1>1 DEF RepoTypeOK, JobShape
  <2>3. QED
    BY <1>0, <1>1, <1>4, <2>1, <2>2 DEF RepoTypeOK
<1>6. Frame(p)
  <2>1. \A q \in Jobs \ {p} : Busy(q) => ~job[q].whole /\ ~job[p].whole
    BY <1>0, Quiet DEF Busy
  <2>3. \A u \in Targets : lock[u] # p /\ ~job[p].whole =>
         pack'[u] = pack[u] /\ index'[u] = index[u] /\ snap'[u] = snap[u]
    BY <1>0, <1>b, <1>1, Mine DEF RepoTypeOK, Uploading, Removing, Pruning
  <2>5. /\ doomed \subseteq doomed'
        /\ \A u \in Targets :
             /\ \A r \in snap[u] : r \in snap'[u] \/ r \in doomed'
             /\ \A r \in snap'[u] : r \in snap[u] \/ row[r].status # "none"
             /\ \A s \in index[u] : s \in index'[u] \/ s \cap LiveChunks(u) = {}
    BY <1>0, <1>b, <1>1 DEF RepoTypeOK
  <2>6. QED
    BY <1>1, <1>4, <2>1, <2>3, <2>5 DEF Frame
<1>7. Own(p)'
  <2>1. OwnLocks(p)'
    BY <1>0, <1>b, <1>1, <1>3, <1>4, RepositoryAssumption DEF OwnLocks, HeldBy, JobShape, Uploading, Removing, Pruning, RepoTypeOK, Jobs
  <2>2. JobShape(p)'
    BY <1>0, <1>b, <1>1, <1>3, <1>4, <1>6, RowStarted, RepositoryAssumption DEF JobShape, Uploading, Removing, Pruning, Jobs, Busy
  <2>3. JobKnows(p)'
    BY <1>0, <1>b, <1>1, <1>3, <1>4 DEF JobKnows, Pruning, Indexed, LiveChunks
  <2>4. OwnCopies(p)'
    BY <1>0, <1>3, <1>4, <1>6, CopiesStay DEF Uploading
  <2>5. OwnAlone(p)'
    BY <1>0, <1>3, <1>4, <1>6, StaysAlone
  <2>6. QED
    BY <2>1, <2>2, <2>3, <2>4, <2>5 DEF Own
<1>8. SnapshotsComplete'
  <2>1. \A t2 \in Targets : snap'[t2] \subseteq snap[t2]
    BY <1>0, <1>1 DEF RepoTypeOK
  <2>2. QED
    BY <1>1, <2>1 DEF RepoInv, SnapshotsComplete, Complete, Indexed
<1>9. QED
  BY <1>0, <1>5, <1>6, <1>7, <1>8, StepKeeps

LEMMA RemoveRowKeeps ==
  ASSUME RepoInv, NEW p \in Jobs, RemoveRow(p)
  PROVE  Frame(p) /\ RepoInv'
<1>0. /\ p \in Jobs /\ RepoTypeOK /\ job[p] \in JobRecord /\ JobShape(p) /\ JobKnows(p)
      /\ OwnLocks(p) /\ job[p].pc = "object"
  BY NoJobRow DEF RepoInv, ShapeInv, KnowInv, LockInv, OwnLocks, RepoTypeOK, Jobs, Busy, RemoveRow, Goto
<1> DEFINE e == [job[p] EXCEPT !.pc = "next"]
<1>1. /\ job' = [job EXCEPT ![p] = e]
      /\ row' = IF p \in Runs /\ job[p].ok THEN [row EXCEPT ![job[p].victim].status = "deleted"] ELSE row
      /\ pack' = pack /\ index' = index /\ snap' = snap /\ recipe' = recipe
      /\ lock' = lock /\ reader' = reader /\ doomed' = doomed /\ faults' = faults
  BY <1>0 DEF store, RemoveRow, Goto
<1>2. e \in JobRecord
  BY <1>0, RepositoryAssumption DEF JobRecord, JobPC, Pruning, NoPack
<1>3. /\ e.pc = "next" /\ e.rest = job[p].rest /\ e.at = job[p].at /\ e.got = job[p].got
      /\ e.known = job[p].known /\ e.cur = job[p].cur /\ e.victim = job[p].victim
      /\ e.touched = job[p].touched /\ e.live = job[p].live /\ e.dead = job[p].dead
      /\ e.packs = job[p].packs /\ e.whole = job[p].whole
  BY <1>0 DEF JobRecord, NoPack
<1> HIDE DEF e
<1>4. job' \in [Jobs -> JobRecord] /\ job'[p] = e /\ \A q \in Jobs \ {p} : job'[q] = job[q]
  BY <1>0, <1>1, <1>2, SetJob
<1>5. RepoTypeOK'
  <2>1. row' \in [Runs -> RowRecord]
    BY <1>0, <1>1, Zenon DEF RepoTypeOK, RowRecord
  <2>2. QED
    BY <1>0, <1>1, <1>4, <2>1 DEF RepoTypeOK
<1>6. Frame(p)
  <2>1. \A q \in Jobs \ {p} : Busy(q) => ~job[q].whole /\ ~job[p].whole
    BY <1>0, Quiet DEF Busy
  <2>4. \A r \in Runs :
         /\ row[r].status # "none" => recipe'[r] = recipe[r] /\ row'[r].status # "none"
         /\ r # p /\ row'[r].status = "none" => row[r].status = "none"
         /\ row'[r].status = "success" =>
              \/ row'[r] = row[r]
              \/ row'[r].copies # {} /\ \A t \in row'[r].copies : r \in snap[t] \/ r \in doomed
    BY <1>0, <1>1 DEF RepoTypeOK, RowRecord
  <2>6. QED
    BY <1>1, <1>4, <2>1, <2>4 DEF Frame
<1>7. Own(p)'
  <2>1. OwnLocks(p)'
    BY <1>0, <1>1, <1>3, <1>4, RepositoryAssumption DEF OwnLocks, HeldBy, JobShape, Uploading, Removing, Pruning, RepoTypeOK, Jobs
  <2>2. JobShape(p)'
    BY <1>0, <1>1, <1>3, <1>4, <1>6, RowStarted, RepositoryAssumption DEF JobShape, Uploading, Removing, Pruning, Jobs, Busy
  <2>3. JobKnows(p)'
    BY <1>0, <1>1, <1>3, <1>4 DEF JobKnows, Pruning, Indexed, LiveChunks
  <2>4. OwnCopies(p)'
    BY <1>0, <1>3, <1>4, <1>6, CopiesStay DEF Uploading
  <2>5. OwnAlone(p)'
    BY <1>0, <1>3, <1>4, <1>6, StaysAlone
  <2>6. QED
    BY <2>1, <2>2, <2>3, <2>4, <2>5 DEF Own
<1>8. SnapshotsComplete'
  BY <1>0, <1>1, <1>6, SameIndex DEF RepoInv, SnapshotsComplete
<1>9. QED
  BY <1>0, <1>5, <1>6, <1>7, <1>8, StepKeeps

LEMMA RemoveFailsKeeps ==
  ASSUME RepoInv, NEW p \in Jobs, RemoveFails(p)
  PROVE  Frame(p) /\ RepoInv'
<1>0. /\ p \in Jobs /\ RepoTypeOK /\ job[p] \in JobRecord /\ JobShape(p) /\ JobKnows(p)
      /\ OwnLocks(p) /\ job[p].pc = "object"
  BY NoJobRow DEF RepoInv, ShapeInv, KnowInv, LockInv, OwnLocks, RepoTypeOK, Jobs, Busy, RemoveFails, Goto, Fault
<1> DEFINE on == p \in Runs \/ job[p].whole
<1> DEFINE t == Least(job[p].rest)
<1>b. t \in job[p].rest /\ t \in Targets
  BY <1>0, LeastTarget DEF JobRecord, RemoveFails
<1> HIDE DEF t
<1> DEFINE e == [job[p] EXCEPT !.pc = IF on THEN @ ELSE "end", !.rest = IF on THEN @ \ {t} ELSE @, !.ok = IF on THEN FALSE ELSE @]
<1>1. /\ job' = [job EXCEPT ![p] = e]
      /\ doomed' = doomed \cup {job[p].victim}
      /\ faults' = faults + 1
      /\ \/ snap' = snap
         \/ t \in job[p].got /\ snap' = [snap EXCEPT ![t] = @ \ {job[p].victim}]
      /\ pack' = pack /\ index' = index /\ recipe' = recipe /\ row' = row
      /\ lock' = lock /\ reader' = reader
  BY <1>0 DEF t, RemoveFails, Goto, Fault
<1>2. e \in JobRecord
  BY <1>0, <1>b, RepositoryAssumption DEF JobRecord, JobPC, Pruning, NoPack
<1>3. /\ e.pc = IF on THEN "object" ELSE "end"
      /\ e.rest = IF on THEN job[p].rest \ {t} ELSE job[p].rest
      /\ e.at = job[p].at /\ e.got = job[p].got /\ e.known = job[p].known
      /\ e.cur = job[p].cur /\ e.victim = job[p].victim /\ e.touched = job[p].touched
      /\ e.live = job[p].live /\ e.dead = job[p].dead /\ e.packs = job[p].packs
      /\ e.whole = job[p].whole
  BY <1>0 DEF JobRecord, NoPack
<1> HIDE DEF e
<1>4. job' \in [Jobs -> JobRecord] /\ job'[p] = e /\ \A q \in Jobs \ {p} : job'[q] = job[q]
  BY <1>0, <1>1, <1>2, SetJob
<1>5. RepoTypeOK'
  <2>1. doomed' \in SUBSET Runs
    BY <1>0, <1>1 DEF RepoTypeOK, JobShape
  <2>2. faults' \in Nat
    BY <1>0, <1>b, <1>1 DEF RepoTypeOK
  <2>3. snap' \in [Targets -> SUBSET Runs]
    BY <1>0, <1>b, <1>1 DEF RepoTypeOK
  <2>4. QED
    BY <1>0, <1>1, <1>4, <2>1, <2>2, <2>3 DEF RepoTypeOK
<1>6. Frame(p)
  <2>1. \A q \in Jobs \ {p} : Busy(q) => ~job[q].whole /\ ~job[p].whole
    BY <1>0, Quiet DEF Busy
  <2>5. /\ doomed \subseteq doomed'
        /\ \A u \in Targets :
             /\ \A r \in snap[u] : r \in snap'[u] \/ r \in doomed'
             /\ \A r \in snap'[u] : r \in snap[u] \/ row[r].status # "none"
             /\ \A s \in index[u] : s \in index'[u] \/ s \cap LiveChunks(u) = {}
    BY <1>0, <1>b, <1>1 DEF RepoTypeOK
  <2>3. \A u \in Targets : lock[u] # p /\ ~job[p].whole =>
         pack'[u] = pack[u] /\ index'[u] = index[u] /\ snap'[u] = snap[u]
    BY <1>0, <1>b, <1>1, Mine DEF RepoTypeOK, Uploading, Removing, Pruning
  <2>6. QED
    BY <1>1, <1>4, <2>1, <2>3, <2>5 DEF Frame
<1>7. Own(p)'
  <2>1. OwnLocks(p)'
    BY <1>0, <1>b, <1>1, <1>3, <1>4, RepositoryAssumption DEF OwnLocks, HeldBy, JobShape, Uploading, Removing, Pruning, RepoTypeOK, Jobs
  <2>2. JobShape(p)'
    BY <1>0, <1>b, <1>1, <1>3, <1>4, <1>6, RowStarted, RepositoryAssumption DEF JobShape, Uploading, Removing, Pruning, Jobs, Busy
  <2>3. JobKnows(p)'
    BY <1>0, <1>b, <1>1, <1>3, <1>4 DEF JobKnows, Pruning, Indexed, LiveChunks
  <2>4. OwnCopies(p)'
    BY <1>0, <1>3, <1>4, <1>6, CopiesStay DEF Uploading
  <2>5. OwnAlone(p)'
    BY <1>0, <1>3, <1>4, <1>6, StaysAlone
  <2>6. QED
    BY <2>1, <2>2, <2>3, <2>4, <2>5 DEF Own
<1>8. SnapshotsComplete'
  <2>1. \A u \in Targets : snap'[u] \subseteq snap[u]
    BY <1>0, <1>1 DEF RepoTypeOK
  <2>2. QED
    BY <1>1, <2>1 DEF RepoInv, SnapshotsComplete, Complete, Indexed
<1>9. QED
  BY <1>0, <1>5, <1>6, <1>7, <1>8, StepKeeps

LEMMA RowFailsKeeps ==
  ASSUME RepoInv, NEW p \in Jobs, RowFails(p)
  PROVE  Frame(p) /\ RepoInv'
<1>0. /\ p \in Jobs /\ RepoTypeOK /\ job[p] \in JobRecord /\ JobShape(p) /\ JobKnows(p)
      /\ OwnLocks(p) /\ job[p].pc = "object"
  BY NoJobRow DEF RepoInv, ShapeInv, KnowInv, LockInv, OwnLocks, RepoTypeOK, Jobs, Busy, RowFails, Goto, Fault
<1> DEFINE e == [job[p] EXCEPT !.pc = "next"]
<1>1. /\ job' = [job EXCEPT ![p] = e]
      /\ faults' = faults + 1
      /\ pack' = pack /\ index' = index /\ snap' = snap /\ recipe' = recipe /\ row' = row
      /\ lock' = lock /\ reader' = reader /\ doomed' = doomed
  BY <1>0 DEF store, RowFails, Goto, Fault
<1>2. e \in JobRecord
  BY <1>0, RepositoryAssumption DEF JobRecord, JobPC, Pruning, NoPack
<1>3. /\ e.pc = "next" /\ e.rest = job[p].rest /\ e.at = job[p].at /\ e.got = job[p].got
      /\ e.known = job[p].known /\ e.cur = job[p].cur /\ e.victim = job[p].victim
      /\ e.touched = job[p].touched /\ e.live = job[p].live /\ e.dead = job[p].dead
      /\ e.packs = job[p].packs /\ e.whole = job[p].whole
  BY <1>0 DEF JobRecord, NoPack
<1> HIDE DEF e
<1>4. job' \in [Jobs -> JobRecord] /\ job'[p] = e /\ \A q \in Jobs \ {p} : job'[q] = job[q]
  BY <1>0, <1>1, <1>2, SetJob
<1>5. RepoTypeOK'
  <2>1. faults' \in Nat
    BY <1>0, <1>1 DEF RepoTypeOK
  <2>2. QED
    BY <1>0, <1>1, <1>4, <2>1 DEF RepoTypeOK
<1>6. Frame(p)
  <2>1. \A q \in Jobs \ {p} : Busy(q) => ~job[q].whole /\ ~job[p].whole
    BY <1>0, Quiet DEF Busy
  <2>6. QED
    BY <1>1, <1>4, <2>1 DEF Frame
<1>7. Own(p)'
  <2>1. OwnLocks(p)'
    BY <1>0, <1>1, <1>3, <1>4, RepositoryAssumption DEF OwnLocks, HeldBy, JobShape, Uploading, Removing, Pruning, RepoTypeOK, Jobs
  <2>2. JobShape(p)'
    BY <1>0, <1>1, <1>3, <1>4, <1>6, RowStarted, RepositoryAssumption DEF JobShape, Uploading, Removing, Pruning, Jobs, Busy
  <2>3. JobKnows(p)'
    BY <1>0, <1>1, <1>3, <1>4 DEF JobKnows, Pruning, Indexed, LiveChunks
  <2>4. OwnCopies(p)'
    BY <1>0, <1>3, <1>4, <1>6, CopiesStay DEF Uploading
  <2>5. OwnAlone(p)'
    BY <1>0, <1>3, <1>4, <1>6, StaysAlone
  <2>6. QED
    BY <2>1, <2>2, <2>3, <2>4, <2>5 DEF Own
<1>8. SnapshotsComplete'
  BY <1>0, <1>1, <1>6, SameIndex DEF RepoInv, SnapshotsComplete
<1>9. QED
  BY <1>0, <1>5, <1>6, <1>7, <1>8, StepKeeps

LEMMA PruneMarkKeeps ==
  ASSUME RepoInv, NEW p \in Jobs, PruneMark(p)
  PROVE  Frame(p) /\ RepoInv'
<1>0. /\ p \in Jobs /\ RepoTypeOK /\ job[p] \in JobRecord /\ JobShape(p) /\ JobKnows(p)
      /\ OwnLocks(p) /\ job[p].pc = "next"
  BY NoJobRow DEF RepoInv, ShapeInv, KnowInv, LockInv, OwnLocks, RepoTypeOK, Jobs, Busy, PruneMark
<1>b. PICK t \in job[p].touched :
        job' = [job EXCEPT ![p].pc = "scan", ![p].at = t, ![p].touched = @ \ {t},
                           ![p].live = LiveChunks(t)]
  BY Zenon DEF PruneMark
<1>c. t \in Targets /\ t \in job[p].got /\ LiveChunks(t) \subseteq Chunks
  <2>1. t \in Targets /\ t \in job[p].got
    BY <1>0, <1>b DEF JobRecord, JobShape, Removing
  <2>2. \A r \in snap[t] : recipe[r] \subseteq Chunks
    BY <1>0, <2>1 DEF RepoTypeOK
  <2>3. QED
    BY <2>1, <2>2 DEF LiveChunks
<1> DEFINE e == [job[p] EXCEPT !.pc = "scan", !.at = t, !.touched = @ \ {t}, !.live = LiveChunks(t)]
<1>1. /\ job' = [job EXCEPT ![p] = e]
      /\ pack' = pack /\ index' = index /\ snap' = snap /\ recipe' = recipe /\ row' = row
      /\ lock' = lock /\ reader' = reader /\ doomed' = doomed /\ faults' = faults
  BY <1>0, <1>b, <1>c DEF store, PruneMark
<1>2. e \in JobRecord
  BY <1>0, <1>b, <1>c, RepositoryAssumption DEF JobRecord, JobPC, Pruning, NoPack
<1>3. /\ e.pc = "scan" /\ e.rest = job[p].rest /\ e.at = t /\ e.got = job[p].got
      /\ e.known = job[p].known /\ e.cur = job[p].cur /\ e.victim = job[p].victim
      /\ e.touched = job[p].touched \ {t} /\ e.live = LiveChunks(t)
      /\ e.dead = job[p].dead /\ e.packs = job[p].packs /\ e.whole = job[p].whole
  BY <1>0 DEF JobRecord, NoPack
<1> HIDE DEF e
<1>4. job' \in [Jobs -> JobRecord] /\ job'[p] = e /\ \A q \in Jobs \ {p} : job'[q] = job[q]
  BY <1>0, <1>1, <1>2, SetJob
<1>5. RepoTypeOK'
  <2>1. QED
    BY <1>0, <1>1, <1>4 DEF RepoTypeOK
<1>6. Frame(p)
  <2>1. \A q \in Jobs \ {p} : Busy(q) => ~job[q].whole /\ ~job[p].whole
    BY <1>0, Quiet DEF Busy
  <2>6. QED
    BY <1>1, <1>4, <2>1 DEF Frame
<1>7. Own(p)'
  <2>1. OwnLocks(p)'
    BY <1>0, <1>b, <1>c, <1>1, <1>3, <1>4, RepositoryAssumption DEF OwnLocks, HeldBy, JobShape, Uploading, Removing, Pruning, RepoTypeOK, Jobs
  <2>2. JobShape(p)'
    BY <1>0, <1>b, <1>c, <1>1, <1>3, <1>4, <1>6, RowStarted, RepositoryAssumption DEF JobShape, Uploading, Removing, Pruning, Jobs, Busy
  <2>3. JobKnows(p)'
    <3>1. \A t2 \in Targets : LiveChunks(t2)' = LiveChunks(t2)
      BY <1>1 DEF LiveChunks
    <3>2. QED
      BY <1>c, <1>3, <1>4, <3>1 DEF JobKnows, Pruning
  <2>4. OwnCopies(p)'
    BY <1>0, <1>3, <1>4, <1>6, CopiesStay DEF Uploading
  <2>5. OwnAlone(p)'
    BY <1>0, <1>3, <1>4, <1>6, StaysAlone
  <2>6. QED
    BY <2>1, <2>2, <2>3, <2>4, <2>5 DEF Own
<1>8. SnapshotsComplete'
  BY <1>0, <1>1, <1>6, SameIndex DEF RepoInv, SnapshotsComplete
<1>9. QED
  BY <1>0, <1>5, <1>6, <1>7, <1>8, StepKeeps

LEMMA PruneScanKeeps ==
  ASSUME RepoInv, NEW p \in Jobs, PruneScan(p)
  PROVE  Frame(p) /\ RepoInv'
<1>0. /\ p \in Jobs /\ RepoTypeOK /\ job[p] \in JobRecord /\ JobShape(p) /\ JobKnows(p)
      /\ OwnLocks(p) /\ job[p].pc = "scan"
  BY NoJobRow, Zenon DEF RepoInv, ShapeInv, KnowInv, LockInv, OwnLocks, RepoTypeOK, Jobs, Busy, PruneScan
<1> DEFINE t == job[p].at
           kept == {s \in index[t] : s \cap job[p].live # {}}
<1>b. t \in Targets /\ index[t] \subseteq Pack /\ pack[t] \subseteq Pack
  BY <1>0 DEF JobShape, Pruning, JobRecord, RepoTypeOK
<1> DEFINE e == [job[p] EXCEPT !.pc = "sweep", !.dead = index[t] \ kept, !.packs = pack[t] \ kept]
<1>1. /\ job' = [job EXCEPT ![p] = e]
      /\ pack' = pack /\ index' = index /\ snap' = snap /\ recipe' = recipe /\ row' = row
      /\ lock' = lock /\ reader' = reader /\ doomed' = doomed /\ faults' = faults
  BY <1>0, <1>b, Zenon DEF store, PruneScan
<1>2. e \in JobRecord
  BY <1>0, <1>b, RepositoryAssumption, Zenon DEF JobRecord, JobPC, Pruning, NoPack
<1>3. /\ e.pc = "sweep" /\ e.rest = job[p].rest /\ e.at = job[p].at /\ e.got = job[p].got
      /\ e.known = job[p].known /\ e.cur = job[p].cur /\ e.victim = job[p].victim
      /\ e.touched = job[p].touched /\ e.live = job[p].live /\ e.dead = index[t] \ kept
      /\ e.packs = pack[t] \ kept /\ e.whole = job[p].whole
  BY <1>0 DEF JobRecord, NoPack
<1> HIDE DEF e
<1>4. job' \in [Jobs -> JobRecord] /\ job'[p] = e /\ \A q \in Jobs \ {p} : job'[q] = job[q]
  BY <1>0, <1>1, <1>2, SetJob
<1>5. RepoTypeOK'
  <2>1. QED
    BY <1>0, <1>1, <1>4 DEF RepoTypeOK
<1>6. Frame(p)
  <2>1. \A q \in Jobs \ {p} : Busy(q) => ~job[q].whole /\ ~job[p].whole
    BY <1>0, Quiet DEF Busy
  <2>6. QED
    BY <1>1, <1>4, <2>1 DEF Frame
<1>7. Own(p)'
  <2>1. OwnLocks(p)'
    BY <1>0, <1>b, <1>1, <1>3, <1>4, RepositoryAssumption DEF OwnLocks, HeldBy, JobShape, Uploading, Removing, Pruning, RepoTypeOK, Jobs
  <2>2. JobShape(p)'
    BY <1>0, <1>b, <1>1, <1>3, <1>4, <1>6, RowStarted, RepositoryAssumption DEF JobShape, Uploading, Removing, Pruning, Jobs, Busy
  <2>3. JobKnows(p)'
    <3>1. \A t2 \in Targets : LiveChunks(t2)' = LiveChunks(t2)
      BY <1>1 DEF LiveChunks
    <3>2. job[p].live = LiveChunks(t)
      BY <1>0 DEF JobKnows, Pruning
    <3>3. QED
      BY <1>b, <1>1, <1>3, <1>4, <3>1, <3>2 DEF JobKnows, Pruning
  <2>4. OwnCopies(p)'
    BY <1>0, <1>3, <1>4, <1>6, CopiesStay DEF Uploading
  <2>5. OwnAlone(p)'
    BY <1>0, <1>3, <1>4, <1>6, StaysAlone
  <2>6. QED
    BY <2>1, <2>2, <2>3, <2>4, <2>5 DEF Own
<1>8. SnapshotsComplete'
  BY <1>0, <1>1, <1>6, SameIndex DEF RepoInv, SnapshotsComplete
<1>9. QED
  BY <1>0, <1>5, <1>6, <1>7, <1>8, StepKeeps

LEMMA SweepIndexKeeps ==
  ASSUME RepoInv, NEW p \in Jobs, SweepIndex(p)
  PROVE  Frame(p) /\ RepoInv'
<1>0. /\ p \in Jobs /\ RepoTypeOK /\ job[p] \in JobRecord /\ JobShape(p) /\ JobKnows(p)
      /\ OwnLocks(p) /\ job[p].pc = "sweep"
  BY NoJobRow DEF RepoInv, ShapeInv, KnowInv, LockInv, OwnLocks, RepoTypeOK, Jobs, Busy, SweepIndex
<1>b. PICK s \in job[p].dead :
        /\ index' = [index EXCEPT ![job[p].at] = @ \ {s}]
        /\ job' = [job EXCEPT ![p].pc = "drop", ![p].cur = s, ![p].dead = @ \ {s}]
  BY Zenon DEF SweepIndex
<1>c. job[p].at \in Targets /\ job[p].at \in job[p].got /\ s \in Pack /\ s \subseteq Chunks
  BY <1>0, <1>b DEF JobShape, Pruning, JobRecord, Pack
<1>d. s \cap LiveChunks(job[p].at) = {}
  BY <1>0, <1>b DEF JobKnows, Pruning
<1> DEFINE e == [job[p] EXCEPT !.pc = "drop", !.cur = s, !.dead = @ \ {s}]
<1>1. /\ job' = [job EXCEPT ![p] = e]
      /\ index' = [index EXCEPT ![job[p].at] = @ \ {s}]
      /\ pack' = pack /\ snap' = snap /\ recipe' = recipe /\ row' = row /\ lock' = lock
      /\ reader' = reader /\ doomed' = doomed /\ faults' = faults
  BY <1>0, <1>b, <1>c, <1>d, Zenon DEF store, SweepIndex
<1>2. e \in JobRecord
  BY <1>0, <1>b, <1>c, <1>d, RepositoryAssumption DEF JobRecord, JobPC, Pruning, NoPack
<1>3. /\ e.pc = "drop" /\ e.rest = job[p].rest /\ e.at = job[p].at /\ e.got = job[p].got
      /\ e.known = job[p].known /\ e.cur = s /\ e.victim = job[p].victim
      /\ e.touched = job[p].touched /\ e.live = job[p].live /\ e.dead = job[p].dead \ {s}
      /\ e.packs = job[p].packs /\ e.whole = job[p].whole
  BY <1>0 DEF JobRecord, NoPack
<1> HIDE DEF e
<1>4. job' \in [Jobs -> JobRecord] /\ job'[p] = e /\ \A q \in Jobs \ {p} : job'[q] = job[q]
  BY <1>0, <1>1, <1>2, SetJob
<1>5. RepoTypeOK'
  <2>1. index' \in [Targets -> SUBSET Pack]
    BY <1>0, <1>b, <1>c, <1>d, <1>1 DEF RepoTypeOK
  <2>2. QED
    BY <1>0, <1>1, <1>4, <2>1 DEF RepoTypeOK
<1>6. Frame(p)
  <2>1. \A q \in Jobs \ {p} : Busy(q) => ~job[q].whole /\ ~job[p].whole
    BY <1>0, Quiet DEF Busy
  <2>3. \A t \in Targets : lock[t] # p /\ ~job[p].whole =>
         pack'[t] = pack[t] /\ index'[t] = index[t] /\ snap'[t] = snap[t]
    BY <1>0, <1>b, <1>c, <1>d, <1>1, Mine DEF RepoTypeOK, Uploading, Removing, Pruning
  <2>5. /\ doomed \subseteq doomed'
        /\ \A t \in Targets :
             /\ \A r \in snap[t] : r \in snap'[t] \/ r \in doomed'
             /\ \A r \in snap'[t] : r \in snap[t] \/ row[r].status # "none"
             /\ \A v \in index[t] : v \in index'[t] \/ v \cap LiveChunks(t) = {}
    BY <1>0, <1>b, <1>c, <1>d, <1>1 DEF RepoTypeOK
  <2>6. QED
    BY <1>1, <1>4, <2>1, <2>3, <2>5 DEF Frame
<1>7. Own(p)'
  <2>1. OwnLocks(p)'
    BY <1>0, <1>b, <1>c, <1>d, <1>1, <1>3, <1>4, RepositoryAssumption DEF OwnLocks, HeldBy, JobShape, Uploading, Removing, Pruning, RepoTypeOK, Jobs
  <2>2. JobShape(p)'
    BY <1>0, <1>b, <1>c, <1>d, <1>1, <1>3, <1>4, <1>6, RowStarted, RepositoryAssumption DEF JobShape, Uploading, Removing, Pruning, Jobs, Busy
  <2>3. JobKnows(p)'
    <3>1. \A t2 \in Targets : LiveChunks(t2)' = LiveChunks(t2)
      BY <1>1 DEF LiveChunks
    <3>2. index'[job[p].at] = index[job[p].at] \ {s}
      BY <1>0, <1>c, <1>1 DEF RepoTypeOK
    <3>3. QED
      BY <1>0, <1>b, <1>c, <1>1, <1>3, <1>4, <3>1, <3>2 DEF JobKnows, Pruning
  <2>4. OwnCopies(p)'
    BY <1>0, <1>3, <1>4, <1>6, CopiesStay DEF Uploading
  <2>5. OwnAlone(p)'
    BY <1>0, <1>3, <1>4, <1>6, StaysAlone
  <2>6. QED
    BY <2>1, <2>2, <2>3, <2>4, <2>5 DEF Own
<1>8. SnapshotsComplete'
  <2>1. ASSUME NEW t \in Targets, NEW r \in snap[t], NEW c \in recipe[r]
        PROVE  c \in Indexed(t)'
    <3>1. PICK s2 \in index[t] : c \in s2
      BY <2>1 DEF RepoInv, SnapshotsComplete, Complete, Indexed
    <3>2. t = job[p].at => s2 # s
      BY <1>d, <2>1, <3>1 DEF LiveChunks
    <3>3. s2 \in index'[t]
      BY <1>0, <1>1, <3>1, <3>2 DEF RepoTypeOK
    <3>4. QED
      BY <3>1, <3>3 DEF Indexed
  <2>2. \A t \in Targets : index'[t] \subseteq pack'[t]
    BY <1>0, <1>1 DEF RepoTypeOK, RepoInv, SnapshotsComplete
  <2>3. QED
    BY <1>1, <2>1, <2>2 DEF SnapshotsComplete, Complete
<1>9. QED
  BY <1>0, <1>5, <1>6, <1>7, <1>8, StepKeeps

LEMMA SweepPackKeeps ==
  ASSUME RepoInv, NEW p \in Jobs, SweepPack(p)
  PROVE  Frame(p) /\ RepoInv'
<1>0. /\ p \in Jobs /\ RepoTypeOK /\ job[p] \in JobRecord /\ JobShape(p) /\ JobKnows(p)
      /\ OwnLocks(p) /\ job[p].pc = "drop"
  BY NoJobRow DEF RepoInv, ShapeInv, KnowInv, LockInv, OwnLocks, RepoTypeOK, Jobs, Busy, SweepPack
<1>b. job[p].at \in Targets /\ job[p].at \in job[p].got
  BY <1>0 DEF JobShape, Pruning, JobRecord
<1> DEFINE e == [job[p] EXCEPT !.pc = "sweep", !.packs = @ \ {job[p].cur}, !.cur = NoPack]
<1>1. /\ job' = [job EXCEPT ![p] = e]
      /\ pack' = [pack EXCEPT ![job[p].at] = @ \ {job[p].cur}]
      /\ index' = index /\ snap' = snap /\ recipe' = recipe /\ row' = row /\ lock' = lock
      /\ reader' = reader /\ doomed' = doomed /\ faults' = faults
  BY <1>0, <1>b DEF store, SweepPack
<1>2. e \in JobRecord
  BY <1>0, <1>b, RepositoryAssumption DEF JobRecord, JobPC, Pruning, NoPack
<1>3. /\ e.pc = "sweep" /\ e.rest = job[p].rest /\ e.at = job[p].at /\ e.got = job[p].got
      /\ e.known = job[p].known /\ e.cur = {} /\ e.victim = job[p].victim
      /\ e.touched = job[p].touched /\ e.live = job[p].live /\ e.dead = job[p].dead
      /\ e.packs = job[p].packs \ {job[p].cur} /\ e.whole = job[p].whole
  BY <1>0 DEF JobRecord, NoPack
<1> HIDE DEF e
<1>4. job' \in [Jobs -> JobRecord] /\ job'[p] = e /\ \A q \in Jobs \ {p} : job'[q] = job[q]
  BY <1>0, <1>1, <1>2, SetJob
<1>5. RepoTypeOK'
  <2>1. pack' \in [Targets -> SUBSET Pack]
    BY <1>0, <1>b, <1>1 DEF RepoTypeOK
  <2>2. QED
    BY <1>0, <1>1, <1>4, <2>1 DEF RepoTypeOK
<1>6. Frame(p)
  <2>1. \A q \in Jobs \ {p} : Busy(q) => ~job[q].whole /\ ~job[p].whole
    BY <1>0, Quiet DEF Busy
  <2>3. \A t \in Targets : lock[t] # p /\ ~job[p].whole =>
         pack'[t] = pack[t] /\ index'[t] = index[t] /\ snap'[t] = snap[t]
    BY <1>0, <1>b, <1>1, Mine DEF RepoTypeOK, Uploading, Removing, Pruning
  <2>6. QED
    BY <1>1, <1>4, <2>1, <2>3 DEF Frame
<1>7. Own(p)'
  <2>1. OwnLocks(p)'
    BY <1>0, <1>b, <1>1, <1>3, <1>4, RepositoryAssumption DEF OwnLocks, HeldBy, JobShape, Uploading, Removing, Pruning, RepoTypeOK, Jobs
  <2>2. JobShape(p)'
    BY <1>0, <1>b, <1>1, <1>3, <1>4, <1>6, RowStarted, RepositoryAssumption DEF JobShape, Uploading, Removing, Pruning, Jobs, Busy
  <2>3. JobKnows(p)'
    <3>1. \A t2 \in Targets : LiveChunks(t2)' = LiveChunks(t2)
      BY <1>1 DEF LiveChunks
    <3>2. pack'[job[p].at] = pack[job[p].at] \ {job[p].cur}
      BY <1>0, <1>b, <1>1 DEF RepoTypeOK
    <3>3. QED
      BY <1>0, <1>b, <1>1, <1>3, <1>4, <3>1, <3>2 DEF JobKnows, Pruning
  <2>4. OwnCopies(p)'
    BY <1>0, <1>3, <1>4, <1>6, CopiesStay DEF Uploading
  <2>5. OwnAlone(p)'
    BY <1>0, <1>3, <1>4, <1>6, StaysAlone
  <2>6. QED
    BY <2>1, <2>2, <2>3, <2>4, <2>5 DEF Own
<1>8. SnapshotsComplete'
  <2>1. \A t \in Targets : index[t] \subseteq pack'[t]
    BY <1>0, <1>b, <1>1 DEF RepoTypeOK, RepoInv, SnapshotsComplete, JobKnows
  <2>2. QED
    BY <1>0, <1>1, <1>6, <2>1, SameIndex
<1>9. QED
  BY <1>0, <1>5, <1>6, <1>7, <1>8, StepKeeps

LEMMA SweepOrphanKeeps ==
  ASSUME RepoInv, NEW p \in Jobs, SweepOrphan(p)
  PROVE  Frame(p) /\ RepoInv'
<1>0. /\ p \in Jobs /\ RepoTypeOK /\ job[p] \in JobRecord /\ JobShape(p) /\ JobKnows(p)
      /\ OwnLocks(p) /\ job[p].pc = "sweep" /\ job[p].dead = {}
  BY NoJobRow DEF RepoInv, ShapeInv, KnowInv, LockInv, OwnLocks, RepoTypeOK, Jobs, Busy, SweepOrphan, Goto
<1>b. PICK after \in {"next", "sweep"}, left \in SUBSET job[p].packs :
        /\ job' = [job EXCEPT ![p] = [job[p] EXCEPT !.pc = after, !.packs = left]]
        /\ pack' = [pack EXCEPT ![job[p].at] = @ \ (job[p].packs \ left)]
  <2>1. CASE job[p].packs = {}
    <3>1. [job[p] EXCEPT !.pc = "next"] = [job[p] EXCEPT !.pc = "next", !.packs = {}]
      BY <1>0, <2>1 DEF JobRecord
    <3>2. pack = [pack EXCEPT ![job[p].at] = @ \ ({} \ {})]
      BY <1>0 DEF RepoTypeOK
    <3>3. job' = [job EXCEPT ![p] = [job[p] EXCEPT !.pc = "next", !.packs = {}]] /\ pack' = pack
      BY <2>1, <3>1 DEF SweepOrphan, Goto
    <3>4. QED
      BY <2>1, <3>2, <3>3, Zenon
  <2>2. CASE job[p].packs # {}
    <3>1. PICK s \in job[p].packs : /\ pack' = [pack EXCEPT ![job[p].at] = @ \ {s}]
                                   /\ job' = [job EXCEPT ![p].packs = @ \ {s}]
      BY <2>2 DEF SweepOrphan
    <3>2. [job[p] EXCEPT !.packs = @ \ {s}] = [job[p] EXCEPT !.pc = "sweep", !.packs = job[p].packs \ {s}]
      BY <1>0 DEF JobRecord
    <3>3. job[p].packs \ (job[p].packs \ {s}) = {s}
      BY <3>1
    <3>4. QED
      BY <3>1, <3>2, <3>3, Zenon
  <2>3. QED
    BY <2>1, <2>2, Zenon
<1>c. job[p].at \in Targets /\ job[p].at \in job[p].got
  BY <1>0 DEF JobShape, Pruning, JobRecord
<1> DEFINE e == [job[p] EXCEPT !.pc = after, !.packs = left]
<1>1. /\ job' = [job EXCEPT ![p] = e]
      /\ pack' = [pack EXCEPT ![job[p].at] = @ \ (job[p].packs \ left)]
      /\ index' = index /\ snap' = snap /\ recipe' = recipe /\ row' = row /\ lock' = lock
      /\ reader' = reader /\ doomed' = doomed /\ faults' = faults
  BY <1>0, <1>b, <1>c DEF store, SweepOrphan, Goto
<1>2. e \in JobRecord
  BY <1>0, <1>b, <1>c, RepositoryAssumption DEF JobRecord, JobPC, Pruning, NoPack
<1>3. /\ e.pc = after /\ e.rest = job[p].rest /\ e.at = job[p].at /\ e.got = job[p].got
      /\ e.known = job[p].known /\ e.cur = job[p].cur /\ e.victim = job[p].victim
      /\ e.touched = job[p].touched /\ e.live = job[p].live /\ e.dead = job[p].dead
      /\ e.packs = left /\ e.whole = job[p].whole
  BY <1>0 DEF JobRecord, NoPack
<1> HIDE DEF e
<1>4. job' \in [Jobs -> JobRecord] /\ job'[p] = e /\ \A q \in Jobs \ {p} : job'[q] = job[q]
  BY <1>0, <1>1, <1>2, SetJob
<1>5. RepoTypeOK'
  <2>1. pack' \in [Targets -> SUBSET Pack]
    BY <1>0, <1>b, <1>c, <1>1 DEF RepoTypeOK
  <2>2. QED
    BY <1>0, <1>1, <1>4, <2>1 DEF RepoTypeOK
<1>6. Frame(p)
  <2>1. \A q \in Jobs \ {p} : Busy(q) => ~job[q].whole /\ ~job[p].whole
    BY <1>0, Quiet DEF Busy
  <2>3. \A t \in Targets : lock[t] # p /\ ~job[p].whole =>
         pack'[t] = pack[t] /\ index'[t] = index[t] /\ snap'[t] = snap[t]
    BY <1>0, <1>b, <1>c, <1>1, Mine DEF RepoTypeOK, Uploading, Removing, Pruning
  <2>6. QED
    BY <1>1, <1>4, <2>1, <2>3 DEF Frame
<1>7. Own(p)'
  <2>1. OwnLocks(p)'
    BY <1>0, <1>b, <1>c, <1>1, <1>3, <1>4, RepositoryAssumption DEF OwnLocks, HeldBy, JobShape, Uploading, Removing, Pruning, RepoTypeOK, Jobs
  <2>2. JobShape(p)'
    BY <1>0, <1>b, <1>c, <1>1, <1>3, <1>4, <1>6, RowStarted, RepositoryAssumption DEF JobShape, Uploading, Removing, Pruning, Jobs, Busy
  <2>3. JobKnows(p)'
    <3>1. \A t2 \in Targets : LiveChunks(t2)' = LiveChunks(t2)
      BY <1>1 DEF LiveChunks
    <3>2. pack'[job[p].at] = pack[job[p].at] \ (job[p].packs \ left)
      BY <1>0, <1>c, <1>1 DEF RepoTypeOK
    <3>3. QED
      BY <1>0, <1>b, <1>c, <1>1, <1>3, <1>4, <3>1, <3>2 DEF JobKnows, Pruning
  <2>4. OwnCopies(p)'
    BY <1>0, <1>3, <1>4, <1>6, CopiesStay DEF Uploading
  <2>5. OwnAlone(p)'
    BY <1>0, <1>3, <1>4, <1>6, StaysAlone
  <2>6. QED
    BY <2>1, <2>2, <2>3, <2>4, <2>5 DEF Own
<1>8. SnapshotsComplete'
  <2>1. \A t \in Targets : index[t] \subseteq pack'[t]
    BY <1>0, <1>c, <1>1 DEF RepoTypeOK, RepoInv, SnapshotsComplete, JobKnows
  <2>2. QED
    BY <1>0, <1>1, <1>6, <2>1, SameIndex
<1>9. QED
  BY <1>0, <1>5, <1>6, <1>7, <1>8, StepKeeps

LEMMA PruneFailsKeeps ==
  ASSUME RepoInv, NEW p \in Jobs, PruneFails(p)
  PROVE  Frame(p) /\ RepoInv'
<1>0. /\ p \in Jobs /\ RepoTypeOK /\ job[p] \in JobRecord /\ JobShape(p) /\ JobKnows(p)
      /\ OwnLocks(p) /\ job[p].pc \in {"scan", "sweep", "drop"}
  BY NoJobRow DEF RepoInv, ShapeInv, KnowInv, LockInv, OwnLocks, RepoTypeOK, Jobs, Busy, PruneFails, Fault
<1> DEFINE e == [job[p] EXCEPT !.pc = IF p \in Runs \/ job[p].whole THEN "next" ELSE "end", !.dead = {}, !.packs = {}, !.cur = NoPack]
<1>1. /\ job' = [job EXCEPT ![p] = e]
      /\ faults' = faults + 1
      /\ pack' = pack /\ index' = index /\ snap' = snap /\ recipe' = recipe /\ row' = row
      /\ lock' = lock /\ reader' = reader /\ doomed' = doomed
  BY <1>0 DEF store, PruneFails, Fault
<1>2. e \in JobRecord
  BY <1>0, RepositoryAssumption DEF JobRecord, JobPC, Pruning, NoPack
<1>3. /\ e.pc = IF p \in Runs \/ job[p].whole THEN "next" ELSE "end"
      /\ e.rest = job[p].rest /\ e.at = job[p].at /\ e.got = job[p].got
      /\ e.known = job[p].known /\ e.cur = {} /\ e.victim = job[p].victim
      /\ e.touched = job[p].touched /\ e.live = job[p].live /\ e.dead = {} /\ e.packs = {}
      /\ e.whole = job[p].whole
  BY <1>0 DEF JobRecord, NoPack
<1> HIDE DEF e
<1>4. job' \in [Jobs -> JobRecord] /\ job'[p] = e /\ \A q \in Jobs \ {p} : job'[q] = job[q]
  BY <1>0, <1>1, <1>2, SetJob
<1>5. RepoTypeOK'
  <2>1. faults' \in Nat
    BY <1>0, <1>1 DEF RepoTypeOK
  <2>2. QED
    BY <1>0, <1>1, <1>4, <2>1 DEF RepoTypeOK
<1>6. Frame(p)
  <2>1. \A q \in Jobs \ {p} : Busy(q) => ~job[q].whole /\ ~job[p].whole
    BY <1>0, Quiet DEF Busy
  <2>6. QED
    BY <1>1, <1>4, <2>1 DEF Frame
<1>7. Own(p)'
  <2>1. OwnLocks(p)'
    BY <1>0, <1>1, <1>3, <1>4, RepositoryAssumption DEF OwnLocks, HeldBy, JobShape, Uploading, Removing, Pruning, RepoTypeOK, Jobs
  <2>2. JobShape(p)'
    BY <1>0, <1>1, <1>3, <1>4, <1>6, RowStarted, RepositoryAssumption DEF JobShape, Uploading, Removing, Pruning, Jobs, Busy
  <2>3. JobKnows(p)'
    BY <1>0, <1>1, <1>3, <1>4 DEF JobKnows, Pruning, Indexed, LiveChunks
  <2>4. OwnCopies(p)'
    BY <1>0, <1>3, <1>4, <1>6, CopiesStay DEF Uploading
  <2>5. OwnAlone(p)'
    BY <1>0, <1>3, <1>4, <1>6, StaysAlone
  <2>6. QED
    BY <2>1, <2>2, <2>3, <2>4, <2>5 DEF Own
<1>8. SnapshotsComplete'
  BY <1>0, <1>1, <1>6, SameIndex DEF RepoInv, SnapshotsComplete
<1>9. QED
  BY <1>0, <1>5, <1>6, <1>7, <1>8, StepKeeps

LEMMA FinishKeeps ==
  ASSUME RepoInv, NEW p \in Jobs, Finish(p)
  PROVE  Frame(p) /\ RepoInv'
<1>0. /\ p \in Jobs /\ RepoTypeOK /\ job[p] \in JobRecord /\ JobShape(p) /\ JobKnows(p)
      /\ OwnLocks(p) /\ job[p].pc \in {"end", "next"}
  BY NoJobRow DEF RepoInv, ShapeInv, KnowInv, LockInv, OwnLocks, RepoTypeOK, Jobs, Busy, Finish, Release
<1> DEFINE gone == p \in Deleters /\ ~job[p].whole /\ job[p].pc = "next"
<1>b. TRUE
  OBVIOUS
<1> DEFINE e == [NoJob EXCEPT !.pc = "done"]
<1>1. /\ job' = [job EXCEPT ![p] = e]
      /\ row' = IF gone THEN [row EXCEPT ![job[p].victim].status = "deleted"] ELSE row
      /\ lock' = [t \in Targets |-> IF lock[t] = p THEN Free ELSE lock[t]]
      /\ pack' = pack /\ index' = index /\ snap' = snap /\ recipe' = recipe
      /\ reader' = reader /\ doomed' = doomed /\ faults' = faults
  BY <1>0, <1>b DEF store, Finish, Release
<1>2. e \in JobRecord
  BY <1>0, <1>b, RepositoryAssumption DEF JobRecord, JobPC, Pruning, NoJob, NoPack
<1>3. /\ e.pc = "done" /\ e.rest = {} /\ e.at = NoTarget /\ e.got = {} /\ e.known = {}
      /\ e.cur = {} /\ e.victim = NoRun /\ e.touched = {} /\ e.live = {} /\ e.dead = {}
      /\ e.packs = {} /\ e.whole = FALSE
  BY <1>0 DEF JobRecord, NoJob, NoPack
<1> HIDE DEF e
<1>4. job' \in [Jobs -> JobRecord] /\ job'[p] = e /\ \A q \in Jobs \ {p} : job'[q] = job[q]
  BY <1>0, <1>1, <1>2, SetJob
<1>5. RepoTypeOK'
  <2>1. row' \in [Runs -> RowRecord]
    BY <1>0, <1>b, <1>1, Zenon DEF RepoTypeOK, RowRecord
  <2>2. lock' \in [Targets -> Jobs \cup {Free}]
    BY <1>0, <1>b, <1>1 DEF RepoTypeOK
  <2>3. QED
    BY <1>0, <1>1, <1>4, <2>1, <2>2 DEF RepoTypeOK
<1>6. Frame(p)
  <2>1. \A q \in Jobs \ {p} : Busy(q) => ~job[q].whole /\ ~job[p].whole
    BY <1>0, Quiet DEF Busy
  <2>2. \A q \in Jobs \ {p}, t \in Targets : lock'[t] = q <=> lock[t] = q
    BY <1>0, <1>b, <1>1, RepositoryAssumption DEF RepoTypeOK, Jobs
  <2>4. \A r \in Runs :
         /\ row[r].status # "none" => recipe'[r] = recipe[r] /\ row'[r].status # "none"
         /\ r # p /\ row'[r].status = "none" => row[r].status = "none"
         /\ row'[r].status = "success" =>
              \/ row'[r] = row[r]
              \/ row'[r].copies # {} /\ \A t \in row'[r].copies : r \in snap[t] \/ r \in doomed
    BY <1>0, <1>b, <1>1 DEF RepoTypeOK, RowRecord
  <2>6. QED
    BY <1>1, <1>4, <2>1, <2>2, <2>4 DEF Frame
<1>7. Own(p)'
  <2>1. OwnLocks(p)'
    BY <1>0, <1>b, <1>1, <1>3, <1>4, RepositoryAssumption DEF OwnLocks, HeldBy, JobShape, Uploading, Removing, Pruning, RepoTypeOK, Jobs
  <2>2. JobShape(p)'
    BY <1>0, <1>b, <1>1, <1>3, <1>4, <1>6, RowStarted, RepositoryAssumption DEF JobShape, Uploading, Removing, Pruning, Jobs, Busy
  <2>3. JobKnows(p)'
    BY <1>0, <1>b, <1>1, <1>3, <1>4 DEF JobKnows, Pruning, Indexed, LiveChunks
  <2>4. OwnCopies(p)'
    BY <1>0, <1>3, <1>4, <1>6, CopiesStay DEF Uploading
  <2>5. OwnAlone(p)'
    BY <1>0, <1>3, <1>4, <1>6, StaysAlone
  <2>6. QED
    BY <2>1, <2>2, <2>3, <2>4, <2>5 DEF Own
<1>8. SnapshotsComplete'
  BY <1>0, <1>1, <1>6, SameIndex DEF RepoInv, SnapshotsComplete
<1>9. QED
  BY <1>0, <1>5, <1>6, <1>7, <1>8, StepKeeps


-----------------------------------------------------------------------------
(* A step of a job keeps everything.                                        *)
LEMMA JobKeeps ==
  ASSUME RepoInv, NEW p \in Jobs, JobAction(p), TaskDeletion = "alone",
         "segment" \notin Hazards
  PROVE  Frame(p) /\ RepoInv'
<1>1. CASE p \in Runs /\ (StartRun(p) \/ RunStep(p) \/ SkipTarget(p) \/ UploadFails(p))
  BY <1>1, StartRunKeeps, LockTargetKeeps, LoadIndexKeeps, PutPackKeeps, PutIndexKeeps,
     PutSnapshotKeeps, FinalizeKeeps, ListExpiredKeeps, SkipTargetKeeps, UploadFailsKeeps
     DEF RunStep
<1>2. CASE p \in Deleters /\ (DeleteRecord(p) \/ DeleteTask(p))
  BY <1>2, DeleteRecordKeeps, DeleteTaskKeeps
<1>3. CASE RemovalStep(p) \/ RemoveFails(p) \/ RowFails(p) \/ PruneFails(p)
  BY <1>3, LockAllKeeps, NextVictimKeeps, RemoveObjectKeeps, RemoveRowKeeps, PruneMarkKeeps,
     PruneScanKeeps, SweepIndexKeeps, SweepPackKeeps, SweepOrphanKeeps, FinishKeeps,
     RemoveFailsKeeps, RowFailsKeeps, PruneFailsKeeps
     DEF RemovalStep
<1>4. QED
  BY <1>1, <1>2, <1>3 DEF JobAction

(* A step of a reader changes nothing but that reader.                      *)
LEMMA ReaderOnly ==
  ASSUME RepoInv, NEW d \in Readers, UNCHANGED <<store, recipe, row, lock, job, doomed, faults>>,
         NEW x \in ReaderRecord, reader' = [reader EXCEPT ![d] = x], ReaderKnows(d)'
  PROVE  RepoInv'
<1>1. /\ pack' = pack /\ index' = index /\ snap' = snap /\ recipe' = recipe /\ row' = row
      /\ lock' = lock /\ job' = job /\ doomed' = doomed /\ faults' = faults
  BY DEF store
<1>2. RepoTypeOK'
  BY <1>1 DEF RepoInv, RepoTypeOK
<1>3. LockInv' /\ ShapeInv' /\ AloneInv'
  BY <1>1 DEF RepoInv, LockInv, HeldBy, ShapeInv, JobShape, AloneInv, Busy
<1>4. KnowInv'
  <2>1. \A t : Indexed(t)' = Indexed(t) /\ LiveChunks(t)' = LiveChunks(t)
    BY <1>1 DEF Indexed, LiveChunks
  <2>2. QED
    BY <1>1, <2>1 DEF RepoInv, KnowInv, JobKnows
<1>5. CopiesInv' /\ SnapshotsComplete'
  BY <1>1 DEF RepoInv, CopiesInv, Kept, SnapshotsComplete, Complete, Indexed
<1>6. ReaderInv'
  <2>1. \A c \in Readers \ {d} : reader'[c] = reader[c]
    BY DEF RepoInv, RepoTypeOK
  <2>2. ASSUME NEW c \in Readers \ {d} PROVE ReaderKnows(c)'
    BY <1>1, <2>1 DEF ReaderKnows, RepoInv, ReaderInv
  <2>3. QED
    BY <2>2 DEF ReaderInv
<1>7. QED
  BY <1>2, <1>3, <1>4, <1>5, <1>6 DEF RepoInv

(* What a reader reads under the invariant, it may rely on.                 *)
LEMMA ReaderKeeps ==
  ASSUME RepoInv, NEW d \in Readers, ReaderStep(d)
  PROVE  RepoInv'
<1> DEFINE r == reader[d].run
           at == reader[d].at
<1>0. /\ reader[d] \in ReaderRecord /\ ReaderKnows(d) /\ RepoTypeOK
      /\ reader \in [Readers -> ReaderRecord]
      /\ NoReader \in ReaderRecord
  BY DEF RepoInv, ReaderInv, RepoTypeOK, NoReader, ReaderRecord, ReaderPC
<1>1. CASE OpenSnapshot(d)
  <2>a. PICK q \in Runs :
          /\ row[q].status = "success"
          /\ \E t \in row[q].copies : reader' = [reader EXCEPT ![d] =
              IF q \in snap[t] THEN [NoReader EXCEPT !.pc = "list", !.run = q, !.at = t] ELSE Broken(q)]
    BY <1>1, Zenon DEF OpenSnapshot
  <2>1. PICK t \in row[q].copies : reader' = [reader EXCEPT ![d] =
              IF q \in snap[t] THEN [NoReader EXCEPT !.pc = "list", !.run = q, !.at = t] ELSE Broken(q)]
    BY <2>a, Zenon
  <2>2. t \in Targets /\ Kept(q, t)
    BY <1>0, <2>a, <2>1 DEF RepoInv, CopiesInv, RepoTypeOK, RowRecord
  <2>3. CASE q \in snap[t]
    <3> DEFINE x == [NoReader EXCEPT !.pc = "list", !.run = q, !.at = t]
    <3>1. x \in ReaderRecord /\ x.pc = "list" /\ x.run = q /\ x.at = t /\ x.found = {}
      BY <2>2 DEF NoReader, ReaderRecord, ReaderPC
    <3> HIDE DEF x
    <3>2. reader'[d] = x /\ reader' = [reader EXCEPT ![d] = x] /\ snap' = snap /\ row' = row
      BY <1>0, <1>1, <2>1, <2>3 DEF OpenSnapshot, store, x
    <3>3. ReaderKnows(d)'
      BY <2>a, <2>1, <2>2, <2>3, <3>1, <3>2 DEF ReaderKnows
    <3>4. QED
      BY <1>1, <3>1, <3>2, <3>3, ReaderOnly DEF OpenSnapshot
  <2>4. CASE q \notin snap[t]
    <3>1. Broken(q) \in ReaderRecord /\ Broken(q).pc = "broken" /\ Broken(q).run = q
      BY DEF Broken, NoReader, ReaderRecord, ReaderPC
    <3>2. /\ reader'[d] = Broken(q) /\ reader' = [reader EXCEPT ![d] = Broken(q)]
          /\ doomed' = doomed
      BY <1>0, <1>1, <2>1, <2>4 DEF OpenSnapshot
    <3>3. ReaderKnows(d)'
      BY <2>2, <2>4, <3>1, <3>2 DEF ReaderKnows, Kept
    <3>4. QED
      BY <1>1, <3>1, <3>2, <3>3, ReaderOnly DEF OpenSnapshot
  <2>5. QED
    BY <2>3, <2>4
<1>2. CASE ListIndex(d)
  <2> DEFINE x == [reader[d] EXCEPT !.pc = "read", !.need = index[at]]
  <2>1. r \in Runs /\ at \in Targets /\ row[r].status # "none" /\ reader[d].found = {}
        /\ (r \in doomed \/ r \in snap[at])
    BY <1>0, <1>2 DEF ListIndex, ReaderKnows
  <2>2. x \in ReaderRecord /\ x.pc = "read" /\ x.run = r /\ x.at = at /\ x.found = {} /\ x.need = index[at]
    BY <1>0, <2>1 DEF ReaderRecord, ReaderPC, RepoTypeOK
  <2>3. reader' = [reader EXCEPT ![d] = x]
    BY <1>2 DEF ListIndex
  <2> HIDE DEF x
  <2>4. reader'[d] = x /\ snap' = snap /\ row' = row /\ index' = index /\ recipe' = recipe /\ doomed' = doomed
    BY <1>0, <1>2, <2>3 DEF ListIndex, store
  <2>5. r \in snap[at] => recipe[r] \subseteq UNION index[at]
    BY <2>1 DEF RepoInv, SnapshotsComplete, Complete, Indexed
  <2>6. ReaderKnows(d)'
    BY <2>1, <2>2, <2>4, <2>5 DEF ReaderKnows
  <2>7. QED
    BY <1>2, <2>2, <2>3, <2>6, ReaderOnly DEF ListIndex
<1>3. CASE ReadSegment(d)
  <2>1. PICK p \in reader[d].need :
         reader' = IF p \in index[reader[d].at]
                 THEN [reader EXCEPT ![d].need = @ \ {p},
                                     ![d].found = IF Holds(p, reader[d].run) THEN @ \cup {p} ELSE @]
                 ELSE [reader EXCEPT ![d] = [NoReader EXCEPT !.pc = "stale"]]
    BY <1>3 DEF ReadSegment
  <2>2. /\ reader[d].pc = "read" /\ snap' = snap /\ row' = row /\ index' = index
        /\ recipe' = recipe /\ doomed' = doomed
    BY <1>3 DEF ReadSegment, store
  <2>3. CASE p \in index[at]
    <3> DEFINE more == IF Holds(p, r) THEN reader[d].found \cup {p} ELSE reader[d].found
               x == [reader[d] EXCEPT !.need = @ \ {p}, !.found = more]
    <3>1. reader' = [reader EXCEPT ![d] = x]
      BY <2>1, <2>3
    <3>2. x \in ReaderRecord /\ x.pc = "read" /\ x.run = r /\ x.at = at /\ x.found = more
          /\ x.need = reader[d].need \ {p}
      BY <1>0, <2>1, <2>2 DEF ReaderRecord
    <3> HIDE DEF x
    <3>3. reader'[d] = x
      BY <1>0, <3>1
    <3>4. /\ r \in Runs /\ at \in Targets /\ row[r].status # "none"
          /\ \/ r \in doomed
             \/ /\ r \in snap[at]
                /\ recipe[r] \subseteq UNION (reader[d].need \cup reader[d].found)
                /\ \A s \in reader[d].found : s \in index[at] /\ s \cap recipe[r] # {}
      BY <1>0, <2>2 DEF ReaderKnows
    <3>5. \A c \in recipe[r] : c \in UNION (reader[d].need \cup reader[d].found)
            => c \in UNION ((reader[d].need \ {p}) \cup more)
      BY DEF Holds
    <3>6. ReaderKnows(d)'
      BY <2>2, <2>3, <3>2, <3>3, <3>4, <3>5 DEF ReaderKnows, Holds
    <3>7. QED
      BY <1>3, <3>1, <3>2, <3>6, ReaderOnly DEF ReadSegment
  <2>4. CASE p \notin index[at]
    <3> DEFINE x == [NoReader EXCEPT !.pc = "stale"]
    <3>1. x \in ReaderRecord /\ x.pc = "stale"
      BY DEF NoReader, ReaderRecord, ReaderPC
    <3> HIDE DEF x
    <3>2. reader' = [reader EXCEPT ![d] = x] /\ reader'[d] = x
      BY <1>0, <2>1, <2>4 DEF x
    <3>3. ReaderKnows(d)'
      BY <3>1, <3>2 DEF ReaderKnows
    <3>4. QED
      BY <1>3, <3>1, <3>2, <3>3, ReaderOnly DEF ReadSegment
  <2>5. QED
    BY <2>3, <2>4
<1>4. CASE LocateChunks(d)
  <2>1. /\ reader[d].pc = "read" /\ reader[d].need = {} /\ snap' = snap /\ row' = row
        /\ index' = index /\ recipe' = recipe /\ doomed' = doomed
    BY <1>4, Zenon DEF LocateChunks, store
  <2>2. /\ r \in Runs /\ at \in Targets /\ row[r].status # "none"
        /\ \/ r \in doomed
           \/ /\ r \in snap[at]
              /\ recipe[r] \subseteq UNION reader[d].found
              /\ \A s \in reader[d].found : s \in index[at] /\ s \cap recipe[r] # {}
    BY <1>0, <2>1 DEF ReaderKnows
  <2>3. CASE recipe[r] \subseteq UNION reader[d].found
    <3>1. PICK need \in SUBSET reader[d].found :
            reader' = [reader EXCEPT ![d].pc = "fetch", ![d].need = need, ![d].found = {}]
      BY <1>4, <2>3, Zenon DEF LocateChunks
    <3> DEFINE x == [reader[d] EXCEPT !.pc = "fetch", !.need = need, !.found = {}]
    <3>2. x \in ReaderRecord /\ x.pc = "fetch" /\ x.run = r /\ x.at = at /\ x.found = {} /\ x.need = need
      BY <1>0 DEF ReaderRecord, ReaderPC
    <3>3. reader' = [reader EXCEPT ![d] = x]
      BY <3>1
    <3> HIDE DEF x
    <3>4. reader'[d] = x
      BY <1>0, <3>3
    <3>5. ReaderKnows(d)'
      BY <2>1, <2>2, <3>2, <3>4 DEF ReaderKnows
    <3>6. QED
      BY <1>4, <3>2, <3>3, <3>5, ReaderOnly, Zenon DEF LocateChunks
  <2>4. CASE ~(recipe[r] \subseteq UNION reader[d].found)
    <3>1. Broken(r) \in ReaderRecord /\ Broken(r).pc = "broken" /\ Broken(r).run = r
      BY <2>2 DEF Broken, NoReader, ReaderRecord, ReaderPC
    <3>2. reader' = [reader EXCEPT ![d] = Broken(r)] /\ reader'[d] = Broken(r)
      BY <1>0, <1>4, <2>4 DEF LocateChunks
    <3>3. ReaderKnows(d)'
      BY <2>1, <2>2, <2>4, <3>1, <3>2 DEF ReaderKnows
    <3>4. QED
      BY <1>4, <3>1, <3>2, <3>3, ReaderOnly, Zenon DEF LocateChunks
  <2>5. QED
    BY <2>3, <2>4
<1>5. CASE FetchPack(d)
  <2>1. PICK p \in reader[d].need :
         reader' = IF p \notin pack[reader[d].at]
                 THEN [reader EXCEPT ![d] = Broken(reader[d].run)]
                 ELSE IF reader[d].need # {p}
                 THEN [reader EXCEPT ![d].need = @ \ {p}]
                 ELSE [reader EXCEPT ![d] = [NoReader EXCEPT !.pc = "done"]]
    BY <1>5 DEF FetchPack
  <2>2. /\ reader[d].pc = "fetch" /\ snap' = snap /\ row' = row
        /\ index' = index /\ recipe' = recipe /\ doomed' = doomed
    BY <1>5 DEF FetchPack, store
  <2>3. /\ r \in Runs /\ at \in Targets /\ row[r].status # "none"
        /\ \/ r \in doomed
           \/ /\ r \in snap[at]
              /\ \A s \in reader[d].need \cup reader[d].found : s \in index[at] /\ s \cap recipe[r] # {}
    BY <1>0, <2>2 DEF ReaderKnows
  <2>4. CASE p \notin pack[at]
    <3>1. Broken(r) \in ReaderRecord /\ Broken(r).pc = "broken" /\ Broken(r).run = r
      BY <2>3 DEF Broken, NoReader, ReaderRecord, ReaderPC
    <3>2. reader' = [reader EXCEPT ![d] = Broken(r)] /\ reader'[d] = Broken(r)
      BY <1>0, <2>1, <2>4
    <3>3. r \in doomed
      BY <2>1, <2>3, <2>4 DEF RepoInv, SnapshotsComplete
    <3>4. ReaderKnows(d)'
      BY <2>2, <3>1, <3>2, <3>3 DEF ReaderKnows
    <3>5. QED
      BY <1>5, <3>1, <3>2, <3>4, ReaderOnly DEF FetchPack
  <2>5. CASE p \in pack[at] /\ reader[d].need # {p}
    <3> DEFINE x == [reader[d] EXCEPT !.need = @ \ {p}]
    <3>1. x \in ReaderRecord /\ x.pc = "fetch" /\ x.run = r /\ x.at = at /\ x.found = reader[d].found
          /\ x.need = reader[d].need \ {p}
      BY <1>0, <2>2 DEF ReaderRecord
    <3>2. reader' = [reader EXCEPT ![d] = x]
      BY <2>1, <2>5
    <3> HIDE DEF x
    <3>3. reader'[d] = x
      BY <1>0, <3>2
    <3>4. ReaderKnows(d)'
      BY <2>2, <2>3, <3>1, <3>3 DEF ReaderKnows
    <3>5. QED
      BY <1>5, <3>1, <3>2, <3>4, ReaderOnly DEF FetchPack
  <2>6. CASE p \in pack[at] /\ reader[d].need = {p}
    <3> DEFINE x == [NoReader EXCEPT !.pc = "done"]
    <3>1. x \in ReaderRecord /\ x.pc = "done"
      BY DEF NoReader, ReaderRecord, ReaderPC
    <3>2. reader' = [reader EXCEPT ![d] = x]
      BY <2>1, <2>6
    <3> HIDE DEF x
    <3>3. reader'[d] = x
      BY <1>0, <3>2
    <3>4. ReaderKnows(d)'
      BY <3>1, <3>3 DEF ReaderKnows
    <3>5. QED
      BY <1>5, <3>1, <3>2, <3>4, ReaderOnly DEF FetchPack
  <2>7. QED
    BY <2>4, <2>5, <2>6
<1>6. QED
  BY <1>1, <1>2, <1>3, <1>4, <1>5 DEF ReaderStep

(* A restart forgets the jobs and their mutexes; the store stays.           *)
LEMMA RestartKeeps ==
  ASSUME RepoInv, Restart
  PROVE  RepoInv'
<1>1. /\ pack' = pack /\ index' = index /\ snap' = snap /\ recipe' = recipe /\ doomed' = doomed
      /\ faults' = faults + 1
      /\ lock' = [t \in Targets |-> Free]
      /\ job' = [p \in Jobs |-> IF job[p].pc = "idle" THEN NoJob ELSE [NoJob EXCEPT !.pc = "done"]]
  BY DEF Restart, Fault, store
<1>2. RepoTypeOK
  BY DEF RepoInv
<1>3. \A p \in Jobs : /\ job'[p] \in JobRecord
                      /\ job'[p].pc \in {"idle", "done"} /\ ~job'[p].whole
                      /\ job[p].pc = "idle" => job'[p] = NoJob
  BY <1>1, Zenon DEF NoJob, JobRecord, JobPC, NoPack
<1>4. \A r \in Runs : /\ row'[r] \in RowRecord
                      /\ row'[r].status = "none" => row[r].status = "none"
                      /\ row[r].status # "none" => row'[r].status # "none"
                      /\ row'[r].status = "success" => row'[r] = row[r]
  BY <1>2 DEF Restart, RepoTypeOK, RowRecord
<1>5. \A d \in Readers : /\ reader'[d] \in ReaderRecord
                         /\ reader'[d].pc \in {"idle", "broken", "done"}
                         /\ reader'[d].pc = "broken" => reader'[d] = reader[d]
  <2>1. [NoReader EXCEPT !.pc = "done"] \in ReaderRecord
    BY DEF NoReader, ReaderRecord, ReaderPC
  <2>2. [NoReader EXCEPT !.pc = "done"].pc = "done"
    BY DEF NoReader
  <2>3. QED
    BY <1>2, <2>1, <2>2 DEF Restart, RepoTypeOK
<1>6. RepoTypeOK'
  <2>1. job' \in [Jobs -> JobRecord]
    BY <1>1, <1>3
  <2>2. row' \in [Runs -> RowRecord]
    BY <1>4 DEF Restart
  <2>3. reader' \in [Readers -> ReaderRecord]
    BY <1>5 DEF Restart
  <2>4. lock' \in [Targets -> Jobs \cup {Free}]
    BY <1>1
  <2>5. QED
    BY <1>1, <1>2, <2>1, <2>2, <2>3, <2>4 DEF RepoTypeOK
<1>7. LockInv'
  BY <1>1, <1>3, RepositoryAssumption DEF LockInv, HeldBy, Uploading, Removing, Pruning, Jobs
<1>8. ShapeInv'
  <2>1. \A p \in Runs : row'[p].status = "none" => job'[p] = NoJob
    <3>1. \A p \in Runs : row[p].status = "none" => job[p] = NoJob
      BY NoJobRow
    <3>2. ASSUME NEW p \in Runs, row'[p].status = "none"
          PROVE  job'[p] = NoJob
      <4>1. job[p] = NoJob /\ p \in Jobs
        BY <1>4, <3>1, <3>2 DEF Jobs
      <4>2. job[p].pc = "idle"
        BY <4>1 DEF NoJob
      <4>3. QED
        BY <1>3, <4>1, <4>2
    <3>3. QED
      BY <3>2
  <2>2. QED
    BY <1>3, <2>1 DEF ShapeInv, JobShape, Uploading, Removing, Pruning
<1>9. AloneInv' /\ KnowInv'
  BY <1>3 DEF AloneInv, Busy, KnowInv, JobKnows, Pruning
<1>10. CopiesInv'
  <2>1. \A t \in Targets : snap[t] \subseteq Runs
    BY <1>2 DEF RepoTypeOK
  <2>2. \A r \in Runs : job'[r].pc \notin Uploading \cup {"target"}
    BY <1>3 DEF Uploading, Jobs
  <2>3. \A r \in Runs, t \in Targets : Kept(r, t)' <=> Kept(r, t)
    BY <1>1 DEF Kept
  <2>4. \A r \in Runs : row[r].copies \subseteq Targets
    BY <1>2 DEF RepoTypeOK, RowRecord
  <2>5. ASSUME NEW r \in Runs, row'[r].status = "success"
        PROVE  row'[r].copies # {} /\ \A t \in row'[r].copies : Kept(r, t)'
    BY <1>4, <2>3, <2>4, <2>5 DEF RepoInv, CopiesInv
  <2>6. \A t \in Targets : \A r \in snap'[t] : row'[r].status # "none"
    BY <1>1, <1>4, <2>1 DEF RepoInv, CopiesInv
  <2>7. QED
    BY <2>2, <2>5, <2>6 DEF CopiesInv
<1>11. SnapshotsComplete'
  BY <1>1 DEF RepoInv, SnapshotsComplete, Complete, Indexed
<1>12. ReaderInv'
  BY <1>1, <1>5 DEF RepoInv, ReaderInv, ReaderKnows
<1>13. QED
  BY <1>6, <1>7, <1>8, <1>9, <1>10, <1>11, <1>12 DEF RepoInv

LEMMA RepoStarts == RepoInit => RepoInv
<1> SUFFICES ASSUME RepoInit PROVE RepoInv
  OBVIOUS
<1> USE DEF RepoInit
<1>1. NoJob \in JobRecord /\ NoJob.pc = "idle" /\ ~NoJob.whole
  BY DEF NoJob, JobRecord, JobPC, NoPack
<1>2. NoReader \in ReaderRecord /\ NoReader.pc = "idle"
  BY DEF NoReader, ReaderRecord, ReaderPC
<1>3. RepoTypeOK
  BY <1>1, <1>2 DEF RepoTypeOK, RowRecord
<1>4. LockInv /\ ShapeInv /\ AloneInv /\ KnowInv
  BY <1>1, RepositoryAssumption DEF LockInv, HeldBy, ShapeInv, JobShape, AloneInv, Busy, KnowInv,
     JobKnows, Uploading, Removing, Pruning, Jobs
<1>5. CopiesInv /\ SnapshotsComplete
  BY <1>1 DEF CopiesInv, SnapshotsComplete, Complete, Uploading, Jobs
<1>6. ReaderInv
  BY <1>2 DEF ReaderInv, ReaderKnows
<1>7. QED
  BY <1>3, <1>4, <1>5, <1>6 DEF RepoInv

(* Every step keeps the invariant.                                          *)
LEMMA RepoKeeps ==
  ASSUME TaskDeletion = "alone", "segment" \notin Hazards, RepoInv, [RepoNext]_vars
  PROVE  RepoInv'
<1>1. CASE UNCHANGED vars
  <2>1. /\ pack' = pack /\ index' = index /\ snap' = snap /\ recipe' = recipe /\ row' = row
        /\ lock' = lock /\ job' = job /\ reader' = reader /\ doomed' = doomed /\ faults' = faults
    BY <1>1 DEF vars
  <2>2. \A t : Indexed(t)' = Indexed(t) /\ LiveChunks(t)' = LiveChunks(t)
    BY <2>1 DEF Indexed, LiveChunks
  <2>3. RepoTypeOK' /\ LockInv' /\ ShapeInv' /\ AloneInv'
    BY <2>1 DEF RepoInv, RepoTypeOK, LockInv, HeldBy, ShapeInv, JobShape, AloneInv, Busy
  <2>4. KnowInv'
    BY <2>1, <2>2 DEF RepoInv, KnowInv, JobKnows
  <2>5. CopiesInv' /\ SnapshotsComplete' /\ ReaderInv'
    BY <2>1 DEF RepoInv, CopiesInv, Kept, SnapshotsComplete, Complete, Indexed, ReaderInv, ReaderKnows
  <2>6. QED
    BY <2>3, <2>4, <2>5 DEF RepoInv
<1>2. QED
  BY <1>1, NextCases, JobKeeps, ReaderKeeps, RestartKeeps

(* All parts of the invariant hold together; tasks are deleted while        *)
(* nothing else changes the repository.                                     *)
THEOREM RepoInvariant ==
  TaskDeletion = "alone" /\ "segment" \notin Hazards => (RepoSpec => []RepoInv)
<1> SUFFICES ASSUME TaskDeletion = "alone", "segment" \notin Hazards PROVE RepoSpec => []RepoInv
  OBVIOUS
<1>1. RepoInv /\ [RepoNext]_vars => RepoInv'
  BY RepoKeeps
<1>2. QED
  BY <1>1, RepoStarts, PTL DEF RepoSpec

(* Variables keep their shapes: no step leaves a job, a reader or a row in  *)
(* a state the code does not know.                                          *)
THEOREM RepoTyped ==
  TaskDeletion = "alone" /\ "segment" \notin Hazards => (RepoSpec => []RepoTypeOK)
<1> SUFFICES ASSUME TaskDeletion = "alone", "segment" \notin Hazards PROVE RepoSpec => []RepoTypeOK
  OBVIOUS
<1>1. RepoInv => RepoTypeOK
  BY DEF RepoInv
<1>2. QED
  BY <1>1, RepoInvariant, PTL

(* Upload and Prune: a snapshot that is in a target can be read there, for  *)
(* any number of runs, deletions, targets and tasks that share them, and    *)
(* any number of failed accesses and restarts.                              *)
THEOREM SnapshotsCompleteHolds ==
  TaskDeletion = "alone" /\ "segment" \notin Hazards => (RepoSpec => []SnapshotsComplete)
<1> SUFFICES ASSUME TaskDeletion = "alone", "segment" \notin Hazards PROVE RepoSpec => []SnapshotsComplete
  OBVIOUS
<1>1. RepoInv => SnapshotsComplete
  BY DEF RepoInv
<1>2. QED
  BY <1>1, RepoInvariant, PTL

(* Restore, Verify and ExportTar take no lock: what the snapshot they read  *)
(* names is never collected under them, unless its record is removed.       *)
THEOREM ReadersFinishHolds ==
  TaskDeletion = "alone" /\ "segment" \notin Hazards => (RepoSpec => []ReadersFinish)
<1> SUFFICES ASSUME TaskDeletion = "alone", "segment" \notin Hazards PROVE RepoSpec => []ReadersFinish
  OBVIOUS
<1>1. RepoInv => ReadersFinish
  BY DEF RepoInv, ReaderInv, ReaderKnows, ReadersFinish
<1>2. QED
  BY <1>1, RepoInvariant, PTL

(* Whoever holds several mutexes took them in the order of the targets'     *)
(* ids: among jobs that all wait, one that waits for the greatest target    *)
(* waits for none of the others. This is where targets must be finite.      *)
LEMMA NoCircle == RepoInv => NoCircularWait
<1> SUFFICES ASSUME RepoInv, NEW S \in (SUBSET Jobs) \ {{}}
             PROVE  \E p \in S : \A q \in S : ~Blocks(q, p)
  BY DEF NoCircularWait
<1>1. CASE \E p \in S : ~Waits(p)
  BY <1>1 DEF Blocks
<1>2. CASE \A p \in S : Waits(p)
  <2> DEFINE For(p) == Least(job[p].rest)
             W == {For(p) : p \in S}
  <2>1. \A p \in S : For(p) \in job[p].rest /\ For(p) \in Targets /\ \A u \in job[p].rest : For(p) <= u
    BY <1>2, LeastTarget DEF Waits, RepoInv, RepoTypeOK, JobRecord
  <2> HIDE DEF For
  <2>2. W \in SUBSET Nat /\ W # {} /\ W \subseteq Targets
    <3>1. W \subseteq Targets
      BY <2>1
    <3>2. PICK p \in S : TRUE
      OBVIOUS
    <3>3. For(p) \in W
      BY <3>2
    <3>4. QED
      BY <3>1, <3>3, RepositoryAssumption
  <2>3. IsFiniteSet(W)
    BY <2>2, FS_Subset, RepositoryAssumption
  <2>4. PICK m \in W : \A u \in W : u <= m
    BY <2>2, <2>3, GreatestOf
  <2>5. PICK p \in S : m = For(p)
    OBVIOUS
  <2>6. ASSUME NEW q \in S, Blocks(q, p)
        PROVE  FALSE
    <3>1. For(p) \in HeldBy(q) /\ q \in Jobs
      BY <2>1, <2>6 DEF Blocks, RepoInv, LockInv, For
    <3>2. job[q].pc \in {"target", "lock"} /\ JobShape(q)
      BY <1>2 DEF Waits, RepoInv, ShapeInv
    <3> USE DEF For
    <3>3. job[q].pc = "lock" /\ For(p) \in job[q].got \ job[q].rest
      BY <3>1, <3>2 DEF HeldBy, Uploading, Removing, Pruning
    <3>4. For(p) < For(q)
      BY <2>1, <3>2, <3>3 DEF JobShape
    <3>5. For(q) <= For(p)
      BY <2>4, <2>5
    <3>6. For(p) \in Nat /\ For(q) \in Nat
      BY <2>2
    <3> HIDE DEF For
    <3>7. QED
      BY <3>4, <3>5, <3>6
  <2>7. QED
    BY <2>6
<1>3. QED
  BY <1>1, <1>2

(* Runs and deletions never wait for each other in a circle.                *)
THEOREM NoCircularWaitHolds ==
  TaskDeletion = "alone" /\ "segment" \notin Hazards => (RepoSpec => []NoCircularWait)
<1> SUFFICES ASSUME TaskDeletion = "alone", "segment" \notin Hazards PROVE RepoSpec => []NoCircularWait
  OBVIOUS
<1>1. QED
  BY NoCircle, RepoInvariant, PTL

(* Only the last step of a prune that is not cut short leads from the       *)
(* sweep to the next target.                                                *)
LEMMA SweepEnds ==
  ASSUME RepoInv, NEW p \in Jobs, JobAction(p), job[p].pc = "sweep", job'[p].pc = "next",
         faults' = faults
  PROVE  job[p].dead = {} /\ job[p].packs = {}
<1>0. job \in [Jobs -> JobRecord] /\ faults \in Nat /\ job[p] \in JobRecord
  BY DEF RepoInv, RepoTypeOK
<1>1. CASE p \in Runs /\ (StartRun(p) \/ RunStep(p) \/ SkipTarget(p) \/ UploadFails(p))
  <2>1. ASSUME p \in Runs, StartRun(p)
        PROVE  FALSE
    <3>1. job[p] = NoJob
      BY <2>1, NoJobRow DEF StartRun
    <3>2. QED
      BY <3>1 DEF NoJob
  <2>2. QED
    BY <1>1, <2>1 DEF RunStep, LockTarget, LoadIndex, PutPack, PutIndex, PutSnapshot, Finalize,
       ListExpired, SkipTarget, UploadFails
<1>2. CASE p \in Deleters /\ (DeleteRecord(p) \/ DeleteTask(p))
  BY <1>2 DEF DeleteRecord, DeleteTask
<1>3. CASE RemovalStep(p) \/ RemoveFails(p) \/ RowFails(p) \/ PruneFails(p)
  <2>1. ~PruneFails(p)
    BY <1>0 DEF PruneFails, Fault
  <2>2. SweepIndex(p) \/ SweepOrphan(p)
    BY <1>3, <2>1 DEF RemovalStep, LockAll, NextVictim, RemoveObject, RemoveRow, PruneMark,
       PruneScan, SweepPack, Finish, RemoveFails, RowFails
  <2>3. ASSUME SweepIndex(p)
        PROVE  FALSE
    <3>1. PICK s \in job[p].dead :
            job' = [job EXCEPT ![p].pc = "drop", ![p].cur = s, ![p].dead = @ \ {s}]
      BY <2>3, Zenon DEF SweepIndex
    <3>2. job'[p] = [job[p] EXCEPT !.pc = "drop", !.cur = s, !.dead = @ \ {s}]
      BY <1>0, <3>1
    <3>3. job'[p].pc = "drop"
      BY <1>0, <3>2 DEF JobRecord
    <3>4. QED
      BY <3>3
  <2>4. job[p].packs # {} => job'[p].pc = "sweep"
    BY <1>0, <2>2, <2>3 DEF SweepOrphan, JobRecord
  <2>5. QED
    BY <2>2, <2>3, <2>4 DEF SweepOrphan
<1>4. QED
  BY <1>1, <1>2, <1>3 DEF JobAction

(* Then everything that is left holds a live chunk.                         *)
LEMMA Reclaims ==
  ASSUME TaskDeletion = "alone", "segment" \notin Hazards, RepoInv, RepoNext, NEW p \in Jobs,
         job[p].pc = "sweep", job'[p].pc = "next", faults' = faults
  PROVE  \A s \in pack[job[p].at] \cup index[job[p].at] : s \cap LiveChunks(job[p].at) # {}
<1>1. PICK q \in Jobs : JobAction(q)
  <2>1. \A d \in Readers : ~ReaderStep(d)
    BY Zenon DEF ReaderStep, OpenSnapshot, ListIndex, ReadSegment, LocateChunks, FetchPack
  <2>2. ~Restart
    BY DEF Restart, Fault, RepoInv, RepoTypeOK
  <2>3. QED
    BY <2>1, <2>2, NextCases
<1>2. q = p
  BY <1>1, JobKeeps DEF Frame
<1>3. job[p].dead = {} /\ job[p].packs = {}
  BY <1>1, <1>2, SweepEnds
<1>4. JobKnows(p) /\ JobShape(p)
  BY DEF RepoInv, KnowInv, ShapeInv
<1>5. job[p].at \in Targets
  BY <1>4 DEF JobShape, Pruning, RepoInv, RepoTypeOK, JobRecord
<1>6. QED
  BY <1>3, <1>4, <1>5 DEF JobKnows, Pruning, RepoInv, SnapshotsComplete

(* Prune: when it ends without a fault, every pack and every segment of     *)
(* its target holds a chunk that some snapshot names.                       *)
THEOREM PruneReclaimsHolds ==
  TaskDeletion = "alone" /\ "segment" \notin Hazards => (RepoSpec => PruneReclaims)
<1> SUFFICES ASSUME TaskDeletion = "alone", "segment" \notin Hazards PROVE RepoSpec => PruneReclaims
  OBVIOUS
<1>1. RepoInv /\ [RepoNext]_vars =>
        [\A p \in Jobs :
           job[p].pc = "sweep" /\ job'[p].pc = "next" /\ faults' = faults /\ ~job[p].whole
             => \A s \in pack[job[p].at] \cup index[job[p].at] :
                  s \cap LiveChunks(job[p].at) # {}]_vars
  BY Reclaims
<1>2. QED
  BY <1>1, RepoInvariant, PTL DEF RepoSpec, PruneReclaims

-----------------------------------------------------------------------------
(* The refinement. Under the invariant every snapshot can be read, so that  *)
(* what the abstract store holds is what is in snapshots/.                  *)
Held == [t \in Targets |-> {r \in snap[t] : Complete(t, r) /\ index[t] \subseteq pack[t]}]

(* Who touches a snapshot touches one at a time.                            *)
LEMMA SnapStep ==
  ASSUME RepoInv, RepoNext
  PROVE  \/ snap' = snap
         \/ \E t \in Targets, r \in Runs :
              \/ snap' = [snap EXCEPT ![t] = @ \cup {r}]
              \/ snap' = [snap EXCEPT ![t] = @ \ {r}]
<1>1. CASE \E p \in Jobs : JobAction(p)
  <2> SUFFICES ASSUME NEW p \in Jobs, JobAction(p), snap' # snap
               PROVE  \E t \in Targets, r \in Runs :
                        \/ snap' = [snap EXCEPT ![t] = @ \cup {r}]
                        \/ snap' = [snap EXCEPT ![t] = @ \ {r}]
    BY <1>1
  <2>1. job[p] \in JobRecord /\ JobShape(p)
    BY DEF RepoInv, RepoTypeOK, ShapeInv
  <2>2. \/ p \in Runs /\ (PutSnapshot(p) \/ UploadFails(p))
        \/ RemoveObject(p) \/ RemoveFails(p)
    BY Zenon DEF JobAction, RunStep, RemovalStep, StartRun, LockTarget, LoadIndex, PutPack, PutIndex,
       Finalize, ListExpired, SkipTarget, DeleteRecord, DeleteTask, LockAll, NextVictim,
       RemoveRow, PruneMark, PruneScan, SweepIndex, SweepPack, SweepOrphan, Finish, RowFails,
       PruneFails, store
  <2>3. CASE p \in Runs /\ (PutSnapshot(p) \/ UploadFails(p))
    <3>1. job[p].at \in Targets
      BY <2>1, <2>3 DEF JobShape, Uploading, PutSnapshot, UploadFails
    <3>2. snap' = [snap EXCEPT ![job[p].at] = @ \cup {p}]
      BY <2>3 DEF PutSnapshot, UploadFails, store
    <3>3. QED
      BY <2>3, <3>1, <3>2
  <2>4. CASE RemoveObject(p) \/ RemoveFails(p)
    <3>1. Least(job[p].rest) \in Targets /\ job[p].victim \in Runs
      BY <2>1, <2>4, LeastTarget DEF JobRecord, JobShape, RemoveObject, RemoveFails
    <3>2. snap' = [snap EXCEPT ![Least(job[p].rest)] = @ \ {job[p].victim}]
      BY <2>4 DEF RemoveObject, RemoveFails
    <3>3. QED
      BY <3>1, <3>2
  <2>5. QED
    BY <2>2, <2>3, <2>4
<1>2. CASE \E d \in Readers : ReaderStep(d)
  BY <1>2, Zenon DEF ReaderStep, OpenSnapshot, ListIndex, ReadSegment, LocateChunks, FetchPack, store
<1>3. CASE Restart
  BY <1>3 DEF Restart, store
<1>4. QED
  BY <1>1, <1>2, <1>3, NextCases

(* The repository implements SnapshotSets.                                  *)
THEOREM Implementation ==
  TaskDeletion = "alone" /\ "segment" \notin Hazards => (RepoSpec => ImplementsSnapshotSets)
<1> SUFFICES ASSUME TaskDeletion = "alone", "segment" \notin Hazards PROVE RepoSpec => ImplementsSnapshotSets
  OBVIOUS
<1>1. RepoInit => Snapshots!Init
  BY DEF RepoInit, Snapshots!Init
<1>2. RepoInv /\ RepoInv' /\ [RepoNext]_vars => [Snapshots!Next]_Held
  <2> SUFFICES ASSUME RepoInv, RepoInv', [RepoNext]_vars PROVE [Snapshots!Next]_Held
    OBVIOUS
  <2>1. Held = snap /\ Held' = snap'
    BY DEF RepoInv, RepoTypeOK, SnapshotsComplete, Held
  <2>2. CASE UNCHANGED vars
    BY <2>1, <2>2 DEF vars
  <2>3. CASE RepoNext
    BY <2>1, <2>3, SnapStep DEF Snapshots!Next, Snapshots!Store, Snapshots!Remove, Held
  <2>4. QED
    BY <2>2, <2>3
<1>3. QED
  BY <1>1, <1>2, RepoInvariant, PTL DEF RepoSpec, ImplementsSnapshotSets, Snapshots!Spec, Held
=============================================================================
