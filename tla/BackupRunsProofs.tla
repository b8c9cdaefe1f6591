---------------------------- MODULE BackupRunsProofs ----------------------------
(***************************************************************************)
(* Proofs about BackupRuns for every number of records and callers.  Types,*)
(* one run at a time and the target a record names: for any targets and    *)
(* operators, and every kind and number of faults.  Locks, the chain of    *)
(* differentials, the catalog and the objects in storage: for one operator *)
(* between the runs, under hypotheses that grow with what is claimed;      *)
(* each of them leaves out a behaviour that breaks the claim.              *)
(***************************************************************************)
EXTENDS BackupRuns, FiniteSetTheorems, WellFoundedInduction, TLAPS

-----------------------------------------------------------------------------
(* Type correctness.                                                       *)

LEMMA SelectedType ==
  ASSUME NEW C \in SUBSET Targets
  PROVE  Selected(C) \subseteq Targets
  BY BackupRunsAssumption DEF Selected, First

LEMMA FinalType ==
  ASSUME TypeOK, NEW r \in Records, NEW t \in Targets \cup {NoTarget}
  PROVE  Final(r, t) \in Row /\ Final(r, t).status \in Finished
<1>1. exec[r].seen \in Row /\ exec[r].copies \in SUBSET Targets
        /\ exec[r].base \in Records \cup {NoRec} /\ clock + 1 \in Nat
  BY DEF TypeOK, Exec
<1>2. Closed(r, t) \in Row /\ Closed(r, t).status = "failed"
  BY <1>1 DEF Closed, Row, Exists, Finished
<1>3. Succeeded(r, t) \in Row /\ Succeeded(r, t).status = "success"
  BY <1>1, <1>2 DEF Succeeded, Row, Exists, Finished
<1> QED BY <1>2, <1>3 DEF Final, Finished

LEMMA FaultType ==
  ASSUME TypeOK, NoFault \/ \E k : Fault(k)
  PROVE  faults' \in 0..MaxFaults
  BY BackupRunsAssumption DEF TypeOK, NoFault, Fault

LEMMA BlankTypes ==
  /\ Blank \in Row
  /\ NoExec \in Exec
  /\ NoUpload \in Upload
  /\ NoCall \in Call
  /\ NoOp \in Op
<1>1. Blank \in Row
  BY DEF Blank, Row
<1>2. NoExec \in Exec
  BY <1>1 DEF NoExec, Exec
<1> QED BY <1>1, <1>2 DEF NoUpload, Upload, NoCall, Call, NoOp, Op

LEMMA TypeInit == Init => TypeOK
  BY BlankTypes, BackupRunsAssumption DEF Init, TypeOK

LEMMA SetUploadType ==
  ASSUME TypeOK, NEW r \in Records, NEW t \in Targets,
         NEW pc \in {"sending", "listing", "cleaning", "dropping", "ok", "failed"},
         NEW todo \in SUBSET Records, SetUpload(r, t, pc, todo)
  PROVE  upload' \in [Records -> [Targets -> Upload]]
<1>1. [pc |-> pc, todo |-> todo] \in Upload
  BY DEF Upload
<1> QED BY <1>1 DEF SetUpload, TypeOK

LEMMA SetExecType ==
  ASSUME TypeOK, NEW r \in Records, NEW e \in Exec, SetExec(r, e)
  PROVE  exec' \in [Records -> Exec]
  BY DEF SetExec, TypeOK

LEMMA DeleteType ==
  ASSUME TypeOK, NEW q, row' = [row EXCEPT ![q].status = "deleted"] \/ UNCHANGED row
  PROVE  row' \in [Records -> Row]
<1>1. row \in [Records -> Row]
  BY DEF TypeOK
<1>2. [row EXCEPT ![q].status = "deleted"] \in [Records -> Row]
  BY <1>1 DEF Row
<1> QED BY <1>1, <1>2

LEMMA TypeStart ==
  ASSUME TypeOK, NEW c \in Callers, StartStep(c)
  PROVE  TypeOK'
<1>0. faults' \in 0..MaxFaults
  BY FaultType DEF StartStep, StartCheck, StartCreate, StartLaunch, StartAborted
<1>a. /\ row \in [Records -> Row] /\ caller \in [Callers -> Call]
      /\ exec \in [Records -> Exec] /\ lock \in Callers \cup {None}
  BY DEF TypeOK
<1>1. CASE StartCheck(c)
  <2>1. caller' \in [Callers -> Call] /\ lock' \in Callers \cup {None}
    BY <1>a, <1>1 DEF StartCheck, Call
  <2> QED BY <1>0, <1>1, <2>1 DEF StartCheck, TypeOK
<1>2. CASE StartCreate(c)
  <2>1. caller' \in [Callers -> Call] /\ lock' \in Callers \cup {None}
    BY <1>a, <1>2, BlankTypes DEF StartCreate, Release, Call
  <2>2. row' \in [Records -> Row]
    <3>1. \A r \in Records : [row EXCEPT ![r].status = "running"] \in [Records -> Row]
      BY <1>a DEF Row, Exists
    <3> QED BY <1>a, <1>2, <3>1 DEF StartCreate
  <2> QED BY <1>0, <1>2, <2>1, <2>2 DEF StartCreate, TypeOK
<1>3. CASE StartLaunch(c)
  <2>1. exec' \in [Records -> Exec]
    BY <1>a, <1>3 DEF StartLaunch, Exec
  <2>2. caller' \in [Callers -> Call] /\ lock' \in Callers \cup {None}
    BY <1>a, <1>3, BlankTypes DEF StartLaunch, Release, Call
  <2> QED BY <1>0, <1>3, <2>1, <2>2 DEF StartLaunch, TypeOK
<1>4. CASE StartAborted(c)
  BY <1>0, <1>4, BlankTypes DEF StartAborted, Release, TypeOK
<1> QED BY <1>1, <1>2, <1>3, <1>4 DEF StartStep

LEMMA TypeUpload ==
  ASSUME TypeOK, NEW r \in Records, NEW t \in Targets, UploadStep(r, t)
  PROVE  TypeOK'
<1>0. faults' \in 0..MaxFaults
  BY FaultType DEF UploadStep, Send, CleanList, CleanObject, CleanRow
<1>a. upload[r][t].todo \in SUBSET Records
  BY DEF TypeOK, Upload
<1>1. CASE Send(r, t)
  <2>1. upload' \in [Records -> [Targets -> Upload]]
    BY <1>1, SetUploadType DEF Send
  <2>2. stored' \in SUBSET (Records \X Targets)
    BY <1>1 DEF Send, TypeOK
  <2> QED BY <1>0, <1>1, <2>1, <2>2 DEF Send, ExecOnly, TypeOK
<1>2. CASE CleanList(r, t)
  <2>1. Candidates \in SUBSET Records
    BY DEF Candidates, Expired, Successful
  <2>2. upload' \in [Records -> [Targets -> Upload]]
    BY <1>2, <2>1, SetUploadType DEF CleanList
  <2> QED BY <1>0, <1>2, <2>2 DEF CleanList, ExecOnly, TypeOK
<1>3. CASE CleanObject(r, t)
  <2>1. \A q : upload[r][t].todo \ {q} \in SUBSET Records
    BY <1>a
  <2>2. upload' \in [Records -> [Targets -> Upload]]
    <3>1. PICK pc \in {"ok", "dropping", "cleaning"}, todo \in SUBSET Records :
            SetUpload(r, t, pc, todo)
      BY <1>a, <1>3, <2>1 DEF CleanObject
    <3> QED BY <3>1, SetUploadType
  <2>3. stored' \in SUBSET (Records \X Targets)
    BY <1>3 DEF CleanObject, TypeOK
  <2> QED BY <1>0, <1>3, <2>2, <2>3 DEF CleanObject, ExecOnly, TypeOK
<1>4. CASE CleanRow(r, t)
  <2>1. \A q : upload[r][t].todo \ {q} \in SUBSET Records
    BY <1>a
  <2>2. upload' \in [Records -> [Targets -> Upload]]
    <3>1. PICK todo \in SUBSET Records : SetUpload(r, t, "cleaning", todo)
      BY <1>4, <2>1 DEF CleanRow
    <3> QED BY <3>1, SetUploadType
  <2>3. row' \in [Records -> Row]
    BY <1>4, DeleteType DEF CleanRow
  <2> QED BY <1>0, <1>4, <2>2, <2>3 DEF CleanRow, ExecOnly, TypeOK
<1> QED BY <1>1, <1>2, <1>3, <1>4 DEF UploadStep

LEMMA TypeExec ==
  ASSUME TypeOK, NEW r \in Records, ExecStep(r)
  PROVE  TypeOK'
<1>0. faults' \in 0..MaxFaults
  BY FaultType DEF ExecStep, Resolve, Collect, Hooks, FinalRead, FinalSave
<1>a. exec[r] \in Exec /\ row[r] \in Row
  BY DEF TypeOK
<1>1. CASE Resolve(r)
  <2>1. \A b \in Bases : [exec[r] EXCEPT !.pc = "uploading", !.base = b] \in Exec
    BY <1>a DEF Exec, Bases, Fulls, Successful
  <2>2. [exec[r] EXCEPT !.pc = "closing"] \in Exec
    BY <1>a DEF Exec
  <2>3. exec' \in [Records -> Exec]
    BY <1>1, <2>1, <2>2, SetExecType DEF Resolve
  <2>4. [t \in Targets |-> [NoUpload EXCEPT !.pc = "sending"]] \in [Targets -> Upload]
    BY DEF NoUpload, Upload
  <2>5. upload' \in [Records -> [Targets -> Upload]]
    BY <1>1, <2>4 DEF Resolve, TypeOK
  <2> QED BY <1>0, <1>1, <2>3, <2>5 DEF Resolve, ExecOnly, TypeOK
<1>2. CASE Collect(r)
  <2> DEFINE good == {t \in Targets : upload[r][t].pc = "ok"}
             e == [exec[r] EXCEPT !.copies = good, !.sent = TRUE,
                                  !.pc = IF good = {} THEN "closing" ELSE "hooks"]
  <2>1. e \in Exec
    BY <1>a DEF Exec
  <2>2. SetExec(r, e)
    BY <1>2 DEF Collect
  <2>3. exec' \in [Records -> Exec]
    BY <2>1, <2>2, SetExecType
  <2>4. upload' \in [Records -> [Targets -> Upload]]
    BY <1>2, BlankTypes DEF Collect, TypeOK
  <2> QED BY <1>0, <1>2, <2>3, <2>4 DEF Collect, ExecOnly, TypeOK
<1>3. CASE Hooks(r)
  <2>1. [exec[r] EXCEPT !.pc = "closing"] \in Exec
    BY <1>a DEF Exec
  <2>2. exec' \in [Records -> Exec]
    BY <1>3, <2>1, SetExecType DEF Hooks
  <2> QED BY <1>0, <1>3, <2>2 DEF Hooks, ExecOnly, TypeOK
<1>4. CASE FinalRead(r)
  <2>1. [exec[r] EXCEPT !.pc = "saving", !.seen = row[r]] \in Exec
    BY <1>a DEF Exec
  <2>2. exec' \in [Records -> Exec]
    BY <1>4, <2>1, BlankTypes, SetExecType DEF FinalRead
  <2> QED BY <1>0, <1>4, <2>2 DEF FinalRead, ExecOnly, TypeOK
<1>5. CASE FinalSave(r)
  <2>1. row' \in [Records -> Row] /\ clock' \in Nat
    <3>1. CASE UNCHANGED <<row, clock>>
      BY <3>1 DEF TypeOK
    <3>2. CASE ~(UNCHANGED <<row, clock>>)
      <4>1. exec[r].copies \in SUBSET Targets
        BY <1>a DEF Exec
      <4>2. PICK t \in Targets \cup {NoTarget} : row' = [row EXCEPT ![r] = Final(r, t)]
        BY <1>5, <3>2, <4>1, SelectedType DEF FinalSave
      <4>3. Final(r, t) \in Row
        BY FinalType
      <4> QED BY <1>5, <3>2, <4>2, <4>3 DEF FinalSave, TypeOK
    <3> QED BY <3>1, <3>2
  <2>2. exec' \in [Records -> Exec]
    BY <1>5, BlankTypes, SetExecType DEF FinalSave
  <2> QED BY <1>0, <1>5, <2>1, <2>2 DEF FinalSave, ExecOnly, TypeOK
<1> QED BY <1>1, <1>2, <1>3, <1>4, <1>5 DEF ExecStep

LEMMA TypeOp ==
  ASSUME TypeOK, NEW o \in Operators, OpStep(o)
  PROVE  TypeOK'
<1>0. faults' \in 0..MaxFaults
  BY FaultType DEF OpStep, DeleteRead, DeleteCheck, DeleteObject, DeleteRow, LockRead, LockSave, Take
<1>a. op \in [Operators -> Op] /\ op[o].seen \in Row
  BY DEF TypeOK, Op
<1>1. CASE DeleteRead(o) \/ LockRead(o)
  <2>1. op' \in [Operators -> Op]
    BY <1>1 DEF DeleteRead, LockRead, Take, Op, TypeOK
  <2> QED BY <1>0, <1>1, <2>1 DEF DeleteRead, LockRead, Take, OpOnly, TypeOK
<1>2. CASE DeleteCheck(o)
  <2>1. op' \in [Operators -> Op]
    BY <1>a, <1>2, BlankTypes DEF DeleteCheck, Done, Op
  <2> QED BY <1>0, <1>2, <2>1 DEF DeleteCheck, OpOnly, TypeOK
<1>3. CASE DeleteObject(o)
  <2>1. op' \in [Operators -> Op]
    BY <1>a, <1>3, BlankTypes DEF DeleteObject, Done, Op
  <2>2. stored' \in SUBSET (Records \X Targets)
    BY <1>3 DEF DeleteObject, TypeOK
  <2> QED BY <1>0, <1>3, <2>1, <2>2 DEF DeleteObject, OpOnly, TypeOK
<1>4. CASE DeleteRow(o)
  <2>1. op' \in [Operators -> Op]
    BY <1>a, <1>4, BlankTypes DEF DeleteRow, Done
  <2>2. row' \in [Records -> Row]
    BY <1>4, DeleteType DEF DeleteRow
  <2> QED BY <1>0, <1>4, <2>1, <2>2 DEF DeleteRow, OpOnly, TypeOK
<1>5. CASE LockSave(o)
  <2>1. [op[o].seen EXCEPT !.locked = ~@] \in Row
    BY <1>a DEF Row
  <2>2. row' \in [Records -> Row]
    BY <1>5, <2>1 DEF LockSave, TypeOK
  <2>3. op' \in [Operators -> Op]
    BY <1>a, <1>5, BlankTypes DEF LockSave, Done
  <2> QED BY <1>0, <1>5, <2>2, <2>3 DEF LockSave, OpOnly, TypeOK
<1> QED BY <1>1, <1>2, <1>3, <1>4, <1>5 DEF OpStep

LEMMA TypeRestart ==
  ASSUME TypeOK, MasterRestart
  PROVE  TypeOK'
<1>1. faults' \in 0..MaxFaults
  BY FaultType DEF MasterRestart
<1>2. row' \in [Records -> Row]
  <2>1. row \in [Records -> Row]
    BY DEF TypeOK
  <2>2. \A w \in Row : [w EXCEPT !.status = "failed"] \in Row
    BY DEF Row, Exists, Finished
  <2>3. \A r \in Records : row[r] \in Row /\ [row[r] EXCEPT !.status = "failed"] \in Row
    BY <2>1, <2>2
  <2> QED BY <2>3 DEF MasterRestart
<1> QED BY <1>1, <1>2, BlankTypes DEF MasterRestart, TypeOK

LEMMA TypeNext == TypeOK /\ [Next]_vars => TypeOK'
<1> SUFFICES ASSUME TypeOK, [Next]_vars PROVE TypeOK'
  OBVIOUS
<1>1. CASE Age
  BY <1>1, FaultType DEF Age, TypeOK
<1>2. CASE UNCHANGED vars
  BY <1>2 DEF TypeOK, vars
<1> QED BY <1>1, <1>2, TypeStart, TypeUpload, TypeExec, TypeOp, TypeRestart DEF Next

(* The rows, the goroutines and the storage keep their types: finalisation *)
(* and lock requests, which save whole rows, write rows.                   *)
THEOREM TypeCorrect == Spec => []TypeOK
<1>1. Init => TypeOK
  BY TypeInit
<1>2. TypeOK /\ [Next]_vars => TypeOK'
  BY TypeNext
<1> QED BY <1>1, <1>2, PTL DEF Spec

-----------------------------------------------------------------------------
(* One run at a time.  OneRun is not inductive: that a run in progress has *)
(* a running record, which is what startTask looks for, holds only because *)
(* nobody else changes a running record.  Retention and operators work on  *)
(* rows they read earlier, so their invariants say that what they hold has *)
(* been settled since, which no step undoes.                               *)

Settled == {r \in Records : row[r].status \in Finished \cup {"deleted"}}

(* The start lock has one holder; what it found and created is still so.   *)
CallerInv ==
  \A c \in Callers :
    /\ caller[c].pc # "idle" => lock = c
    /\ caller[c].pc = "checked" => Running = {}
    /\ caller[c].pc = "created" => caller[c].rec \in Running \ Executing

(* A run in progress has a running record, and there is one such record.   *)
RecordInv ==
  /\ Executing \subseteq Running
  /\ \A r, q \in Running : r = q

(* Retention and operators hold settled records only.                      *)
CleanInv == \A r \in Records, t \in Targets : upload[r][t].todo \subseteq Settled
OpInv ==
  \A o \in Operators : op[o].pc # "idle" =>
    op[o].rec \in Settled /\ op[o].seen.status \in Finished

RunInv == TypeOK /\ CallerInv /\ RecordInv /\ CleanInv /\ OpInv

LEMMA RunInit == Init => RunInv
<1> SUFFICES ASSUME Init PROVE RunInv
  OBVIOUS
<1>1. TypeOK
  BY TypeInit
<1>2. Running = {} /\ Executing = {}
  BY DEF Init, Running, Executing, Blank, NoExec
<1>3. CallerInv /\ RecordInv
  BY <1>2 DEF CallerInv, RecordInv, Init, NoCall
<1>4. CleanInv /\ OpInv
  BY DEF CleanInv, OpInv, Init, NoUpload, NoOp
<1> QED BY <1>1, <1>3, <1>4 DEF RunInv

(* A step that leaves the start lock alone, adds no run and keeps the      *)
(* running records keeps what startTask relies on.                         *)
LEMMA KeepCallers ==
  ASSUME RunInv, UNCHANGED <<lock, caller>>, Running' = Running, Executing' \subseteq Executing
  PROVE  CallerInv' /\ RecordInv'
<1>1. CallerInv'
  BY DEF RunInv, CallerInv
<1>2. RecordInv'
  BY DEF RunInv, RecordInv
<1> QED BY <1>1, <1>2

LEMMA KeepClean ==
  ASSUME RunInv, UNCHANGED upload, Settled \subseteq Settled'
  PROVE  CleanInv'
  BY DEF RunInv, CleanInv

LEMMA KeepOp ==
  ASSUME RunInv, UNCHANGED op, Settled \subseteq Settled'
  PROVE  OpInv'
  BY DEF RunInv, OpInv

LEMMA SameRows ==
  ASSUME UNCHANGED row
  PROVE  Running' = Running /\ Settled' = Settled /\ Successful' = Successful
  BY DEF Running, Settled, Successful

LEMMA OthersIdle ==
  ASSUME RunInv, NEW c \in Callers, caller[c].pc # "idle"
  PROVE  \A d \in Callers \ {c} : caller[d].pc = "idle"
  BY DEF RunInv, CallerInv

LEMMA RunStart ==
  ASSUME RunInv, NEW c \in Callers, StartStep(c), TypeOK'
  PROVE  RunInv'
<1>a. caller \in [Callers -> Call] /\ exec \in [Records -> Exec] /\ row \in [Records -> Row]
  BY DEF RunInv, TypeOK
<1>1. CASE StartCheck(c)
  <2>1. Running' = {} /\ Running = {} /\ Settled' = Settled
    BY <1>1, SameRows DEF StartCheck
  <2>2. \A d \in Callers : caller[d].pc = "idle"
    BY <1>1, BackupRunsAssumption DEF StartCheck, RunInv, CallerInv
  <2>3. lock' = c /\ \A d \in Callers : caller'[d].pc # "idle" => d = c /\ caller'[d].pc = "checked"
    BY <1>a, <1>1, <2>2 DEF StartCheck
  <2>4. CallerInv'
    BY <2>1, <2>3 DEF CallerInv
  <2>5. RecordInv'
    BY <1>1, <2>1 DEF StartCheck, RunInv, RecordInv, Executing
  <2> QED BY <1>1, <2>1, <2>4, <2>5, KeepClean, KeepOp DEF StartCheck, RunInv
<1>2. CASE StartCreate(c)
  <2>1. Running = {} /\ Executing = {} /\ lock = c
    BY <1>2 DEF StartCreate, RunInv, CallerInv, RecordInv
  <2>2. \A d \in Callers \ {c} : caller[d].pc = "idle"
    BY <1>2, OthersIdle DEF StartCreate
  <2>3. Executing' = {}
    BY <1>2, <2>1 DEF StartCreate, Executing
  <2>4. CASE UNCHANGED row
    <3>1. Release(c)
      <4>1. \A r \in Records : row[r].status = "none" => row # [row EXCEPT ![r].status = "running"]
        BY <1>a DEF Row
      <4> QED BY <1>2, <2>4, <4>1 DEF StartCreate
    <3>2. \A d \in Callers : caller'[d].pc = "idle"
      BY <1>a, <2>2, <3>1 DEF Release, NoCall
    <3>3. CallerInv' /\ RecordInv'
      BY <2>1, <2>3, <2>4, <3>2, SameRows DEF CallerInv, RecordInv
    <3> QED BY <1>2, <2>4, <3>3, SameRows, KeepClean, KeepOp DEF StartCreate, RunInv
  <2>5. CASE ~(UNCHANGED row)
    <3>1. PICK r \in Records :
            /\ row[r].status = "none"
            /\ row' = [row EXCEPT ![r].status = "running"]
            /\ caller' = [caller EXCEPT ![c] = [pc |-> "created", rec |-> r]]
            /\ UNCHANGED lock
      BY <1>2, <2>5 DEF StartCreate
    <3>2. Running' = {r}
      BY <1>a, <2>1, <3>1 DEF Running
    <3>3. Settled' = Settled
      BY <1>a, <3>1 DEF Settled, Finished
    <3>4. caller'[c] = [pc |-> "created", rec |-> r] /\ \A d \in Callers \ {c} : caller'[d].pc = "idle"
      BY <1>a, <2>2, <3>1
    <3>5. CallerInv'
      BY <2>1, <2>3, <3>1, <3>2, <3>4 DEF CallerInv
    <3>6. RecordInv'
      BY <2>3, <3>2 DEF RecordInv
    <3> QED BY <1>2, <3>3, <3>5, <3>6, KeepClean, KeepOp DEF StartCreate, RunInv
  <2> QED BY <2>4, <2>5
<1>3. CASE StartLaunch(c)
  <2>1. lock = c /\ caller[c].rec \in Running
    BY <1>3 DEF StartLaunch, RunInv, CallerInv
  <2>2. \A d \in Callers \ {c} : caller[d].pc = "idle"
    BY <1>3, OthersIdle DEF StartLaunch
  <2>3. Executing' \subseteq Executing \cup {caller[c].rec}
    BY <1>a, <1>3 DEF StartLaunch, Executing
  <2>4. Running' = Running /\ Settled' = Settled
    BY <1>3, SameRows DEF StartLaunch
  <2>5. \A d \in Callers : caller'[d].pc = "idle" \/ (d = c /\ caller'[d].pc = "aborting" /\ lock' = c)
    <3>1. CASE Release(c)
      BY <1>a, <2>2, <3>1 DEF Release, NoCall
    <3>2. CASE caller' = [caller EXCEPT ![c].pc = "aborting"] /\ UNCHANGED lock
      <4>1. caller'[c].pc = "aborting" /\ \A d \in Callers \ {c} : caller'[d] = caller[d]
        BY <1>a, <3>2 DEF Call
      <4> QED BY <2>1, <2>2, <3>2, <4>1
    <3> QED BY <1>3, <3>1, <3>2 DEF StartLaunch
  <2>6. CallerInv'
    BY <2>5 DEF CallerInv
  <2>7. RecordInv'
    BY <2>1, <2>3, <2>4 DEF RecordInv, RunInv
  <2> QED BY <1>3, <2>4, <2>6, <2>7, KeepClean, KeepOp DEF StartLaunch, RunInv
<1>4. CASE StartAborted(c)
  <2>1. \A d \in Callers \ {c} : caller[d].pc = "idle"
    BY <1>4, OthersIdle DEF StartAborted
  <2>2. \A d \in Callers : caller'[d].pc = "idle"
    BY <1>a, <1>4, <2>1 DEF StartAborted, Release, NoCall
  <2>3. CallerInv'
    BY <2>2 DEF CallerInv
  <2>4. RecordInv'
    BY <1>4, SameRows DEF StartAborted, RunInv, RecordInv, Executing
  <2> QED BY <1>4, <2>3, <2>4, SameRows, KeepClean, KeepOp DEF StartAborted, RunInv
<1> QED BY <1>1, <1>2, <1>3, <1>4 DEF StartStep

(* Writing one row that is and stays settled.                              *)
LEMMA SettledWrite ==
  ASSUME TypeOK, TypeOK', NEW q \in Settled,
         \A p \in Records \ {q} : row'[p] = row[p], q \in Settled'
  PROVE  Running' = Running /\ Settled' = Settled
  BY DEF Running, Settled, Finished

LEMMA RunUpload ==
  ASSUME RunInv, NEW r \in Records, NEW t \in Targets, UploadStep(r, t), TypeOK'
  PROVE  RunInv'
<1>1. Running' = Running /\ Settled' = Settled
  <2>1. CASE UNCHANGED row
    BY <2>1, SameRows
  <2>2. CASE ~(UNCHANGED row)
    <3>1. CleanRow(r, t)
      BY <2>2 DEF UploadStep, Send, CleanList, CleanObject
    <3>2. PICK q \in upload[r][t].todo : row' = [row EXCEPT ![q].status = "deleted"]
      BY <2>2, <3>1 DEF CleanRow, NextOf
    <3>3. q \in Settled
      BY DEF RunInv, CleanInv
    <3>4. q \in Settled' /\ \A p \in Records \ {q} : row'[p] = row[p]
      BY <3>2, <3>3 DEF Settled, RunInv, TypeOK, Row
    <3> QED BY <3>3, <3>4, SettledWrite DEF RunInv
  <2> QED BY <2>1, <2>2
<1>2. UNCHANGED <<lock, caller, op, exec>>
  BY DEF UploadStep, Send, CleanList, CleanObject, CleanRow, ExecOnly
<1>3. CallerInv' /\ RecordInv'
  BY <1>1, <1>2, KeepCallers DEF Executing
<1>4. CleanInv'
  <2>1. Candidates \subseteq Settled
    BY DEF Candidates, Expired, Successful, Settled, Finished
  <2>2. PICK todo \in SUBSET Settled, pc \in {"listing", "cleaning", "dropping", "ok", "failed"} : SetUpload(r, t, pc, todo)
    <3>1. upload[r][t].todo \subseteq Settled
      BY DEF RunInv, CleanInv
    <3>2. \A q : upload[r][t].todo \ {q} \subseteq Settled
      BY <3>1
    <3> QED BY <2>1, <3>1, <3>2 DEF UploadStep, Send, CleanList, CleanObject, CleanRow
  <2>3. SUFFICES ASSUME NEW x \in Records, NEW u \in Targets
                 PROVE  upload'[x][u].todo \subseteq Settled
    BY <1>1 DEF CleanInv
  <2>4. upload[x][u].todo \subseteq Settled
    BY DEF RunInv, CleanInv
  <2>5. upload \in [Records -> [Targets -> Upload]]
    BY DEF RunInv, TypeOK
  <2>6. CASE x = r /\ u = t
    <3>1. upload'[x][u] = [pc |-> pc, todo |-> todo]
      BY <2>2, <2>5, <2>6 DEF SetUpload
    <3> QED BY <3>1
  <2>7. CASE ~(x = r /\ u = t)
    <3>1. upload'[x][u] = upload[x][u]
      BY <2>2, <2>5, <2>7 DEF SetUpload
    <3> QED BY <2>4, <3>1
  <2> QED BY <2>6, <2>7
<1> QED BY <1>1, <1>2, <1>3, <1>4, KeepOp DEF RunInv

LEMMA RunExec ==
  ASSUME RunInv, NEW r \in Records, ExecStep(r), TypeOK'
  PROVE  RunInv'
<1>a. exec \in [Records -> Exec] /\ row \in [Records -> Row]
  BY DEF RunInv, TypeOK
<1>b. r \in Executing
  BY DEF Executing, ExecStep, Resolve, Collect, Hooks, FinalRead, FinalSave
<1>c. UNCHANGED <<lock, caller, op>>
  BY DEF ExecStep, Resolve, Collect, Hooks, FinalRead, FinalSave, ExecOnly
<1>1. Executing' \subseteq Executing
  <2>1. \E e : SetExec(r, e)
    BY DEF ExecStep, Resolve, Collect, Hooks, FinalRead, FinalSave
  <2>2. \A q \in Records \ {r} : exec'[q] = exec[q]
    BY <1>a, <2>1 DEF SetExec
  <2> QED BY <1>b, <2>2 DEF Executing
<1>2. CASE UNCHANGED row
  <2>1. CallerInv' /\ RecordInv'
    BY <1>1, <1>2, <1>c, SameRows, KeepCallers
  <2>2. CleanInv'
    <3>1. CASE UNCHANGED upload
      BY <1>2, <3>1, SameRows, KeepClean
    <3>2. CASE ~(UNCHANGED upload)
      <4>1. PICK f \in [Targets -> [pc : {"sending", "idle"}, todo : {{}}]] : upload' = [upload EXCEPT ![r] = f]
        <5>1. [t \in Targets |-> NoUpload] \in [Targets -> [pc : {"sending", "idle"}, todo : {{}}]]
          BY DEF NoUpload
        <5>2. [t \in Targets |-> [NoUpload EXCEPT !.pc = "sending"]] \in [Targets -> [pc : {"sending", "idle"}, todo : {{}}]]
          BY DEF NoUpload
        <5> QED BY <3>2, <5>1, <5>2 DEF ExecStep, Resolve, Collect, Hooks, FinalRead, FinalSave
      <4>2. upload \in [Records -> [Targets -> Upload]]
        BY DEF RunInv, TypeOK
      <4>3. \A x \in Records, u \in Targets : upload'[x][u].todo = {} \/ upload'[x][u] = upload[x][u]
        BY <4>1, <4>2
      <4> QED BY <1>2, <4>3, SameRows DEF RunInv, CleanInv
    <3> QED BY <3>1, <3>2
  <2> QED BY <1>2, <1>c, <2>1, <2>2, SameRows, KeepOp DEF RunInv
<1>3. CASE ~(UNCHANGED row)
  <2>1. FinalSave(r)
    BY <1>3 DEF ExecStep, Resolve, Collect, Hooks, FinalRead
  <2>2. PICK t \in Targets \cup {NoTarget} : row' = [row EXCEPT ![r] = Final(r, t)]
    <3>1. exec[r].copies \in SUBSET Targets
      BY <1>a DEF Exec
    <3> QED BY <1>3, <2>1, <3>1, SelectedType DEF FinalSave
  <2>3. Final(r, t).status \in Finished
    BY FinalType DEF RunInv
  <2>4. Running' = Running \ {r} /\ Settled \subseteq Settled'
    BY <1>a, <2>2, <2>3 DEF Running, Settled, Finished
  <2>5. Executing' = {}
    <3>1. r \notin Executing'
      BY <1>a, <2>1 DEF FinalSave, SetExec, NoExec, Executing
    <3>2. \A q \in Executing : q = r
      BY <1>b DEF RunInv, RecordInv
    <3> QED BY <1>1, <3>1, <3>2
  <2>6. RecordInv'
    BY <2>4, <2>5 DEF RunInv, RecordInv
  <2>7. CallerInv'
    <3>1. SUFFICES ASSUME NEW c \in Callers
                   PROVE  /\ caller[c].pc # "idle" => lock = c
                          /\ caller[c].pc = "checked" => Running' = {}
                          /\ caller[c].pc = "created" => caller[c].rec \in Running' \ Executing'
      BY <1>c DEF CallerInv
    <3>2. CASE caller[c].pc = "created"
      BY <1>b, <2>4, <2>5, <3>2 DEF RunInv, CallerInv
    <3>3. CASE caller[c].pc # "created"
      BY <2>4, <3>3 DEF RunInv, CallerInv
    <3> QED BY <3>2, <3>3
  <2>8. UNCHANGED upload
    BY <2>1 DEF FinalSave
  <2> QED BY <1>c, <2>4, <2>6, <2>7, <2>8, KeepClean, KeepOp DEF RunInv
<1> QED BY <1>2, <1>3

LEMMA RunOp ==
  ASSUME Reach # "any", RunInv, NEW o \in Operators, OpStep(o), TypeOK'
  PROVE  RunInv'
<1>a. op \in [Operators -> Op] /\ row \in [Records -> Row]
  BY DEF RunInv, TypeOK
<1>b. UNCHANGED <<lock, caller, exec, upload>>
  BY DEF OpStep, DeleteRead, DeleteCheck, DeleteObject, DeleteRow, LockRead, LockSave, Take, OpOnly
<1>1. Running' = Running /\ Settled' = Settled
  <2>1. CASE UNCHANGED row
    BY <2>1, SameRows
  <2>2. CASE ~(UNCHANGED row)
    <3>1. op[o].pc # "idle"
      BY <2>2 DEF OpStep, DeleteRead, DeleteCheck, DeleteObject, DeleteRow, LockRead, LockSave, Take
    <3>2. op[o].rec \in Settled /\ op[o].seen.status \in Finished
      BY <3>1 DEF RunInv, OpInv
    <3>3. \/ row' = [row EXCEPT ![op[o].rec].status = "deleted"]
          \/ row' = [row EXCEPT ![op[o].rec] = [op[o].seen EXCEPT !.locked = ~@]]
      BY <2>2 DEF OpStep, DeleteRead, DeleteCheck, DeleteObject, DeleteRow, LockRead, LockSave, Take
    <3>4. \A p \in Records \ {op[o].rec} : row'[p] = row[p]
      BY <1>a, <3>3
    <3>5. op[o].rec \in Settled'
      <4>1. op[o].rec \in Records /\ op[o].seen \in Row
        BY <1>a, <3>2 DEF Settled, Op
      <4>2. CASE row' = [row EXCEPT ![op[o].rec].status = "deleted"]
        BY <1>a, <4>1, <4>2 DEF Settled, Row
      <4>3. CASE row' = [row EXCEPT ![op[o].rec] = [op[o].seen EXCEPT !.locked = ~@]]
        <5>1. [op[o].seen EXCEPT !.locked = ~@].status = op[o].seen.status
          BY <4>1 DEF Row
        <5> QED BY <1>a, <3>2, <4>1, <4>3, <5>1 DEF Settled
      <4> QED BY <3>3, <4>2, <4>3
    <3> QED BY <3>2, <3>4, <3>5, SettledWrite DEF RunInv
  <2> QED BY <2>1, <2>2
<1>2. CallerInv' /\ RecordInv'
  BY <1>1, <1>b, KeepCallers DEF Executing
<1>3. OpInv'
  <2>1. SUFFICES ASSUME NEW p \in Operators, op'[p].pc # "idle"
                 PROVE  op'[p].rec \in Settled /\ op'[p].seen.status \in Finished
    BY <1>1 DEF OpInv
  <2>2. CASE op'[p] = op[p]
    BY <2>1, <2>2 DEF RunInv, OpInv
  <2>3. CASE op'[p] # op[p]
    <3>1. CASE \E r \in Records, pc \in {"check", "lock"} : Take(o, r, pc)
      <4>1. PICK r \in Records, pc \in {"check", "lock"} : Take(o, r, pc)
        BY <3>1
      <4>2. p = o /\ op'[p] = [pc |-> pc, rec |-> r, seen |-> row[r]]
        BY <1>a, <2>3, <4>1 DEF Take
      <4>3. row[r].status \in Finished
        BY <4>1, BackupRunsAssumption DEF Take, May
      <4> QED BY <4>2, <4>3 DEF Settled
    <3>2. CASE ~\E r \in Records, pc \in {"check", "lock"} : Take(o, r, pc)
      <4>1. op[o].pc # "idle" /\ (Done(o) \/ \E pc : op' = [op EXCEPT ![o].pc = pc])
        BY <3>2 DEF OpStep, DeleteRead, DeleteCheck, DeleteObject, DeleteRow, LockRead, LockSave
      <4>2. p = o /\ op'[p].rec = op[p].rec /\ op'[p].seen = op[p].seen
        BY <1>a, <2>1, <2>3, <4>1 DEF Done, NoOp, Op
      <4> QED BY <4>1, <4>2 DEF RunInv, OpInv
    <3> QED BY <3>1, <3>2
  <2> QED BY <2>2, <2>3
<1> QED BY <1>1, <1>2, <1>3, <1>b, KeepClean DEF RunInv

LEMMA RunRestart ==
  ASSUME RunInv, MasterRestart, TypeOK'
  PROVE  RunInv'
<1>1. row \in [Records -> Row]
  BY DEF RunInv, TypeOK
<1>2. Running' = {} /\ Executing' = {}
  BY <1>1 DEF MasterRestart, Running, Executing, NoExec, Row
<1>3. CallerInv' /\ RecordInv'
  BY <1>2 DEF MasterRestart, CallerInv, RecordInv, NoCall
<1>4. CleanInv' /\ OpInv'
  BY DEF MasterRestart, CleanInv, OpInv, NoUpload, NoOp
<1> QED BY <1>3, <1>4 DEF RunInv

LEMMA RunNext ==
  ASSUME Reach # "any", RunInv, [Next]_vars
  PROVE  RunInv'
<1>0. TypeOK'
  BY TypeNext DEF RunInv
<1>1. CASE Age \/ UNCHANGED vars
  <2>1. UNCHANGED <<row, lock, caller, exec, upload, op>>
    BY <1>1 DEF Age, vars
  <2>2. CallerInv' /\ RecordInv'
    BY <2>1, SameRows, KeepCallers DEF Executing
  <2> QED BY <1>0, <2>1, <2>2, SameRows, KeepClean, KeepOp DEF RunInv
<1> QED BY <1>0, <1>1, RunStart, RunUpload, RunExec, RunOp, RunRestart DEF Next

(* startTask never runs the task twice at a time: not with any number of   *)
(* callers, restarts, database and storage errors, and not with operators  *)
(* that delete and lock finished records meanwhile.                        *)
THEOREM OneRunHolds ==
  ASSUME Reach # "any"
  PROVE  Spec => []OneRun
<1>1. Init => RunInv
  BY RunInit
<1>2. RunInv /\ [Next]_vars => RunInv'
  BY RunNext
<1>3. RunInv => OneRun
  BY DEF RunInv, RecordInv, OneRun
<1> QED BY <1>1, <1>2, <1>3, PTL DEF Spec

-----------------------------------------------------------------------------
(* A successful record names a target its run reached.  Whole rows are     *)
(* saved from copies that runs and lock requests keep, so the copies must  *)
(* be good as well.                                                        *)
Good(w) == w.status = "success" => w.primary \in w.copies

RowsGood == \A r \in Records : Good(row[r])
OpsGood  == \A o \in Operators : Good(op[o].seen)
ExecGood == \A r \in Records : exec[r].copies # {} => exec[r].sent

CopyInv == TypeOK /\ RowsGood /\ OpsGood /\ ExecGood

LEMMA CopyInit == Init => CopyInv
  BY TypeInit DEF Init, CopyInv, RowsGood, OpsGood, ExecGood, Good, Blank, NoExec, NoOp

LEMMA GoodChange ==
  ASSUME NEW w \in Row
  PROVE  /\ \A x : x # "success" => Good([w EXCEPT !.status = x])
         /\ \A b : Good(w) => Good([w EXCEPT !.locked = b])
  BY DEF Good, Row

(* What the summary of the targets selects is a target that was reached.   *)
LEMMA SelectedReached ==
  ASSUME NEW C \in SUBSET Targets, C # {}
  PROVE  Selected(C) \subseteq C
  BY DEF Selected, First

LEMMA GoodFinal ==
  ASSUME CopyInv, NEW r \in Records,
         NEW t \in IF exec[r].sent THEN Selected(exec[r].copies) ELSE {NoTarget}
  PROVE  Good(Final(r, t))
<1>1. exec[r].copies \in SUBSET Targets /\ exec[r].seen \in Row
  BY DEF CopyInv, TypeOK, Exec
<1>2. CASE exec[r].copies = {}
  <2>1. Closed(r, t).status = "failed"
    BY <1>1 DEF Closed, Row
  <2> QED BY <1>2, <2>1 DEF Final, Good
<1>3. CASE exec[r].copies # {}
  <2>1. t \in exec[r].copies
    BY <1>1, <1>3, SelectedReached DEF CopyInv, ExecGood
  <2>2. Closed(r, t).primary = t /\ Closed(r, t).copies = exec[r].copies
    BY <1>1 DEF Closed, Row
  <2>3. Succeeded(r, t).primary = Closed(r, t).primary /\ Succeeded(r, t).copies = Closed(r, t).copies
    BY <1>1 DEF Succeeded, Closed, Row
  <2> QED BY <1>3, <2>1, <2>2, <2>3 DEF Final, Good
<1> QED BY <1>2, <1>3

LEMMA CopyRows == CopyInv /\ [Next]_vars => RowsGood'
<1> SUFFICES ASSUME CopyInv, [Next]_vars PROVE RowsGood'
  OBVIOUS
<1>a. row \in [Records -> Row] /\ \A r \in Records : row[r] \in Row /\ Good(row[r])
  BY DEF CopyInv, TypeOK, RowsGood
<1>b. ASSUME NEW q, NEW w, Good(w), row' = [row EXCEPT ![q] = w]
      PROVE  RowsGood'
  BY <1>a, <1>b DEF RowsGood
<1>c. ASSUME UNCHANGED row
      PROVE  RowsGood'
  BY <1>a, <1>c DEF RowsGood
<1>d. ASSUME NEW q, NEW x, x # "success", row' = [row EXCEPT ![q].status = x]
      PROVE  RowsGood'
  <2>1. \A r \in Records : row'[r] = row[r] \/ row'[r] = [row[r] EXCEPT !.status = x]
    BY <1>a, <1>d
  <2> QED BY <1>a, <1>d, <2>1, GoodChange DEF RowsGood
<1>1. ASSUME NEW c \in Callers, StartStep(c) PROVE RowsGood'
  BY <1>1, <1>c, <1>d DEF StartStep, StartCheck, StartCreate, StartLaunch, StartAborted
<1>2. ASSUME NEW r \in Records, ExecStep(r) PROVE RowsGood'
  <2>1. CASE FinalSave(r)
    BY <1>b, <1>c, <2>1, GoodFinal DEF FinalSave
  <2>2. CASE ~FinalSave(r)
    BY <1>2, <1>c, <2>2 DEF ExecStep, Resolve, Collect, Hooks, FinalRead
  <2> QED BY <2>1, <2>2
<1>3. ASSUME NEW r \in Records, NEW t \in Targets, UploadStep(r, t) PROVE RowsGood'
  <2>1. CASE CleanRow(r, t)
    BY <1>c, <1>d, <2>1 DEF CleanRow
  <2>2. CASE ~CleanRow(r, t)
    BY <1>3, <1>c, <2>2 DEF UploadStep, Send, CleanList, CleanObject
  <2> QED BY <2>1, <2>2
<1>4. ASSUME NEW o \in Operators, OpStep(o) PROVE RowsGood'
  <2>1. CASE DeleteRow(o)
    BY <1>c, <1>d, <2>1 DEF DeleteRow
  <2>2. CASE LockSave(o)
    <3>1. op[o].seen \in Row /\ Good(op[o].seen)
      BY DEF CopyInv, TypeOK, Op, OpsGood
    <3>2. Good([op[o].seen EXCEPT !.locked = ~@])
      BY <3>1, GoodChange
    <3> QED BY <1>b, <1>c, <2>2, <3>2 DEF LockSave
  <2>3. CASE ~DeleteRow(o) /\ ~LockSave(o)
    BY <1>4, <1>c, <2>3 DEF OpStep, DeleteRead, DeleteCheck, DeleteObject, LockRead, Take
  <2> QED BY <2>1, <2>2, <2>3
<1>5. CASE MasterRestart
  <2>1. \A r \in Records : row'[r] = row[r] \/ row'[r] = [row[r] EXCEPT !.status = "failed"]
    BY <1>5 DEF MasterRestart
  <2>2. \A r \in Records : Good([row[r] EXCEPT !.status = "failed"])
    BY <1>a, GoodChange
  <2> QED BY <1>a, <2>1, <2>2 DEF RowsGood
<1>6. CASE Age \/ UNCHANGED vars
  BY <1>6, <1>c DEF Age, vars
<1> QED BY <1>1, <1>2, <1>3, <1>4, <1>5, <1>6 DEF Next

LEMMA CopyOps == CopyInv /\ [Next]_vars => OpsGood'
<1> SUFFICES ASSUME CopyInv, [Next]_vars PROVE OpsGood'
  OBVIOUS
<1>a. op \in [Operators -> Op] /\ \A r \in Records : Good(row[r])
  BY DEF CopyInv, TypeOK, RowsGood
<1>b. Good(NoOp.seen)
  BY DEF Good, NoOp, Blank
<1>1. ASSUME NEW o \in Operators, OpStep(o) PROVE OpsGood'
  <2>1. \A p \in Operators \ {o} : op'[p] = op[p]
    BY <1>a, <1>1 DEF OpStep, DeleteRead, DeleteCheck, DeleteObject, DeleteRow, LockRead, LockSave, Take, Done
  <2>2. Good(op'[o].seen)
    <3>1. CASE \E r \in Records : \E pc : Take(o, r, pc)
      <4>1. \E r \in Records : op'[o].seen = row[r]
        BY <1>a, <3>1 DEF Take
      <4> QED BY <1>a, <4>1
    <3>2. CASE Done(o)
      BY <1>a, <1>b, <3>2 DEF Done
    <3>3. CASE \E pc \in {"remove", "drop"} : op' = [op EXCEPT ![o].pc = pc]
      <4>1. op'[o].seen = op[o].seen
        BY <1>a, <3>3 DEF Op
      <4> QED BY <4>1 DEF CopyInv, OpsGood
    <3> QED BY <1>1, <3>1, <3>2, <3>3 DEF OpStep, DeleteRead, DeleteCheck, DeleteObject, DeleteRow, LockRead, LockSave
  <2> QED BY <2>1, <2>2 DEF CopyInv, OpsGood
<1>2. CASE MasterRestart
  BY <1>2, <1>b DEF MasterRestart, OpsGood
<1>3. CASE UNCHANGED op
  BY <1>3 DEF CopyInv, OpsGood
<1>4. ASSUME NEW c \in Callers, StartStep(c) PROVE UNCHANGED op
  BY <1>4 DEF StartStep, StartCheck, StartCreate, StartLaunch, StartAborted
<1>5. ASSUME NEW r \in Records, ExecStep(r) PROVE UNCHANGED op
  BY <1>5 DEF ExecStep, Resolve, Collect, Hooks, FinalRead, FinalSave, ExecOnly
<1>6. ASSUME NEW r \in Records, NEW t \in Targets, UploadStep(r, t) PROVE UNCHANGED op
  BY <1>6 DEF UploadStep, Send, CleanList, CleanObject, CleanRow, ExecOnly
<1>7. CASE Age \/ UNCHANGED vars
  BY <1>3, <1>7 DEF Age, vars
<1> QED BY <1>1, <1>2, <1>3, <1>4, <1>5, <1>6, <1>7 DEF Next

LEMMA CopyExec == CopyInv /\ [Next]_vars => ExecGood'
<1> SUFFICES ASSUME CopyInv, [Next]_vars PROVE ExecGood'
  OBVIOUS
<1>a. exec \in [Records -> Exec] /\ ExecGood
  BY DEF CopyInv, TypeOK
<1>b. ASSUME NEW q, NEW e, e.copies # {} => e.sent, exec' = [exec EXCEPT ![q] = e]
      PROVE  ExecGood'
  BY <1>a, <1>b DEF ExecGood
<1>c. ASSUME UNCHANGED exec PROVE ExecGood'
  BY <1>a, <1>c DEF ExecGood
<1>1. ASSUME NEW r \in Records, ExecStep(r) PROVE ExecGood'
  <2>a. exec[r] \in Exec /\ (exec[r].copies # {} => exec[r].sent)
    BY <1>a DEF ExecGood
  <2>b. \A pc, b : LET e == [exec[r] EXCEPT !.pc = pc, !.base = b] IN e.copies # {} => e.sent
    BY <2>a DEF Exec
  <2>1. CASE Resolve(r)
    <3>1. \A pc : LET e == [exec[r] EXCEPT !.pc = pc] IN e.copies # {} => e.sent
      BY <2>a DEF Exec
    <3> QED BY <1>b, <2>1, <2>b, <3>1 DEF Resolve, SetExec
  <2>2. CASE Collect(r)
    <3>1. \A g, pc : [exec[r] EXCEPT !.copies = g, !.sent = TRUE, !.pc = pc].sent
      BY <2>a DEF Exec
    <3> QED BY <1>b, <2>2, <3>1 DEF Collect, SetExec
  <2>3. CASE Hooks(r)
    <3>1. LET e == [exec[r] EXCEPT !.pc = "closing"] IN e.copies # {} => e.sent
      BY <2>a DEF Exec
    <3> QED BY <1>b, <2>3, <3>1 DEF Hooks, SetExec
  <2>4. NoExec.copies # {} => NoExec.sent
    BY DEF NoExec
  <2>5. CASE FinalRead(r)
    <3>1. LET e == [exec[r] EXCEPT !.pc = "saving", !.seen = row[r]] IN e.copies # {} => e.sent
      BY <2>a DEF Exec
    <3> QED BY <1>b, <2>4, <2>5, <3>1 DEF FinalRead, SetExec
  <2>6. CASE FinalSave(r)
    BY <1>b, <2>4, <2>6 DEF FinalSave, SetExec
  <2> QED BY <1>1, <2>1, <2>2, <2>3, <2>5, <2>6 DEF ExecStep
<1>2. ASSUME NEW c \in Callers, StartStep(c) PROVE ExecGood'
  <2>1. CASE StartLaunch(c)
    <3>1. \E pc \in {"queued", "closing"} : exec' = [exec EXCEPT ![caller[c].rec].pc = pc]
      BY <2>1 DEF StartLaunch
    <3>2. \A r \in Records : exec'[r].copies = exec[r].copies /\ exec'[r].sent = exec[r].sent
      BY <1>a, <3>1 DEF Exec
    <3> QED BY <1>a, <3>2 DEF ExecGood
  <2>2. CASE ~StartLaunch(c)
    BY <1>2, <1>c, <2>2 DEF StartStep, StartCheck, StartCreate, StartAborted
  <2> QED BY <2>1, <2>2
<1>3. CASE MasterRestart
  BY <1>3 DEF MasterRestart, ExecGood, NoExec
<1>4. ASSUME NEW r \in Records, NEW t \in Targets, UploadStep(r, t) PROVE ExecGood'
  BY <1>4, <1>c DEF UploadStep, Send, CleanList, CleanObject, CleanRow
<1>5. ASSUME NEW o \in Operators, OpStep(o) PROVE ExecGood'
  BY <1>5, <1>c DEF OpStep, DeleteRead, DeleteCheck, DeleteObject, DeleteRow, LockRead, LockSave, Take, OpOnly
<1>6. CASE Age \/ UNCHANGED vars
  BY <1>6, <1>c DEF Age, vars
<1> QED BY <1>1, <1>2, <1>3, <1>4, <1>5, <1>6 DEF Next

(* The target a successful record leads to holds, or held, its artifact:   *)
(* the choice executeTask makes among the results of its uploads survives  *)
(* every save of a whole row, in any order.                                *)
THEOREM NamesACopyHolds == Spec => []NamesACopy
<1>1. Init => CopyInv
  BY CopyInit
<1>2. CopyInv /\ [Next]_vars => CopyInv'
  BY TypeNext, CopyRows, CopyOps, CopyExec DEF CopyInv
<1>3. CopyInv => NamesACopy
  BY DEF CopyInv, RowsGood, Good, NamesACopy, Successful
<1> QED BY <1>1, <1>2, <1>3, PTL DEF Spec

-----------------------------------------------------------------------------
(* Between the runs.  When operators work only while the task is idle, a   *)
(* request and a run exclude each other, and with one operator a request   *)
(* works on a row nobody else changes.  Deletion and retention then hold   *)
(* what they read: the rows of their records are still unlocked.           *)
OneOperator == \A o, p \in Operators : o = p

\* A request has the task to itself, and its row is the one it read.
HandsInv ==
  \A o \in Operators : op[o].pc # "idle" =>
    /\ lock = None /\ Executing = {}
    /\ op[o].seen = row[op[o].rec]
    /\ op[o].pc # "lock" => ~op[o].seen.locked

\* Uploads and what a run holds belong to a stage of executeTask.
StageInv ==
  /\ \A r \in Records, t \in Targets : upload[r][t] # NoUpload => exec[r].pc = "uploading"
  /\ \A r \in Records : exec[r].pc = "none" => exec[r] = NoExec
  /\ \A r \in Records : exec[r].pc = "saving" => exec[r].seen = row[r]

\* What retention is about to delete is not locked.
UnlockedInv == \A r \in Records, t \in Targets : \A q \in upload[r][t].todo : ~row[q].locked

HoldInv == RunInv /\ HandsInv /\ StageInv /\ UnlockedInv

LEMMA HoldInit == Init => HoldInv
  BY RunInit DEF Init, HoldInv, HandsInv, StageInv, UnlockedInv, NoOp, NoExec, NoUpload

(* A caller that holds the start lock, or a run, leaves no request open.   *)
LEMMA HandsIdle ==
  ASSUME HoldInv, lock # None \/ Executing # {}
  PROVE  \A o \in Operators : op[o].pc = "idle"
  BY DEF HoldInv, HandsInv

LEMMA StartTypes ==
  ASSUME TypeOK
  PROVE  /\ row \in [Records -> Row] /\ \A r \in Records : row[r] \in Row
         /\ exec \in [Records -> Exec] /\ \A r \in Records : exec[r] \in Exec
         /\ upload \in [Records -> [Targets -> Upload]]
         /\ op \in [Operators -> Op] /\ \A o \in Operators : op[o] \in Op
         /\ caller \in [Callers -> Call]
  BY DEF TypeOK

LEMMA HoldStart ==
  ASSUME Reach = "idle", HoldInv, NEW c \in Callers, StartStep(c)
  PROVE  HandsInv' /\ StageInv' /\ UnlockedInv'
<1>a. TypeOK
  BY DEF HoldInv, RunInv
<1>b. UNCHANGED <<op, upload>>
  BY DEF StartStep, StartCheck, StartCreate, StartLaunch, StartAborted
<1>c. \A o \in Operators : op[o].pc = "idle"
  <2>1. CASE StartCheck(c)
    BY <2>1 DEF StartCheck
  <2>2. CASE ~StartCheck(c)
    <3>1. caller[c].pc # "idle"
      BY <2>2 DEF StartStep, StartCreate, StartLaunch, StartAborted
    <3>2. lock # None
      BY <3>1, BackupRunsAssumption DEF HoldInv, RunInv, CallerInv
    <3> QED BY <3>2, HandsIdle
  <2> QED BY <2>1, <2>2
<1>d. HandsInv'
  BY <1>b, <1>c DEF HandsInv
<1>e. \A r \in Records, t \in Targets : upload[r][t].todo \subseteq Settled
  BY DEF HoldInv, RunInv, CleanInv
<1>f. StageInv /\ UnlockedInv
  BY DEF HoldInv
<1>1. CASE StartCreate(c) /\ ~(UNCHANGED row)
  <2>1. PICK r \in Records : row[r].status = "none" /\ row' = [row EXCEPT ![r].status = "running"]
    BY <1>1 DEF StartCreate
  <2>2. UNCHANGED exec /\ \A q \in Records \ {r} : row'[q] = row[q]
    BY <1>a, <1>1, <2>1, StartTypes DEF StartCreate
  <2>3. r \notin Settled /\ r \notin Executing
    BY <2>1 DEF HoldInv, RunInv, RecordInv, Settled, Running, Finished
  <2>4. UnlockedInv'
    <3>1. \A q \in Settled : row'[q] = row[q]
      BY <2>2, <2>3 DEF Settled
    <3> QED BY <1>b, <1>e, <1>f, <3>1 DEF UnlockedInv
  <2>5. StageInv'
    <3>1. exec[r].pc # "saving"
      BY <2>3 DEF Executing
    <3> QED BY <1>b, <1>f, <2>2, <3>1 DEF StageInv
  <2> QED BY <1>d, <2>4, <2>5
<1>2. CASE StartLaunch(c)
  <2> DEFINE r == caller[c].rec
  <2>1. r \in Records /\ exec[r].pc = "none"
    BY <1>2 DEF StartLaunch, HoldInv, RunInv, CallerInv, Running, Executing
  <2>2. PICK pc \in {"queued", "closing"} : exec' = [exec EXCEPT ![r].pc = pc]
    BY <1>2 DEF StartLaunch
  <2>3. exec'[r].pc = pc /\ \A q \in Records \ {r} : exec'[q] = exec[q]
    BY <1>a, <2>1, <2>2, StartTypes DEF Exec
  <2>4. UNCHANGED row
    BY <1>2 DEF StartLaunch
  <2>5. \A t \in Targets : upload[r][t] = NoUpload
    BY <1>f, <2>1 DEF StageInv
  <2>6. StageInv'
    BY <1>b, <1>f, <2>1, <2>3, <2>4, <2>5 DEF StageInv
  <2> QED BY <1>b, <1>d, <1>f, <2>4, <2>6 DEF UnlockedInv
<1>3. CASE ~StartLaunch(c) /\ UNCHANGED row
  <2>1. UNCHANGED exec
    BY <1>3 DEF StartStep, StartCheck, StartCreate, StartAborted
  <2> QED BY <1>b, <1>d, <1>f, <1>3, <2>1 DEF StageInv, UnlockedInv
<1>4. StartCreate(c) \/ StartLaunch(c) \/ UNCHANGED row
  BY DEF StartStep, StartCheck, StartAborted
<1> QED BY <1>1, <1>2, <1>3, <1>4

(* What a step of an upload goroutine leaves alone.                        *)
LEMMA UploadFrame ==
  ASSUME TypeOK, StageInv, NEW r \in Records, NEW t \in Targets, UploadStep(r, t)
  PROVE  /\ UNCHANGED <<lock, caller, op, aged, exec, replicas, clock>>
         /\ upload[r][t].pc \notin {"idle", "ok", "failed"}
         /\ exec[r].pc = "uploading" /\ r \in Executing
         /\ \A x \in Records, u \in Targets : x # r \/ u # t => upload'[x][u] = upload[x][u]
         /\ \E pc \in {"listing", "cleaning", "dropping", "ok", "failed"} :
              \E todo : upload'[r][t] = [pc |-> pc, todo |-> todo]
<1>1. UNCHANGED <<lock, caller, op, aged, exec, replicas, clock>>
  BY DEF UploadStep, Send, CleanList, CleanObject, CleanRow, ExecOnly
<1>2. upload[r][t].pc \notin {"idle", "ok", "failed"}
  BY DEF UploadStep, Send, CleanList, CleanObject, CleanRow
<1>3. exec[r].pc = "uploading"
  BY <1>2 DEF StageInv, NoUpload
<1>4. PICK pc \in {"listing", "cleaning", "dropping", "ok", "failed"} :
        \E todo : SetUpload(r, t, pc, todo)
  BY DEF UploadStep, Send, CleanList, CleanObject, CleanRow
<1>5. PICK todo : SetUpload(r, t, pc, todo)
  BY <1>4
<1>6. upload'[r][t] = [pc |-> pc, todo |-> todo]
  BY <1>5, StartTypes DEF SetUpload
<1>7. \A x \in Records, u \in Targets : x # r \/ u # t => upload'[x][u] = upload[x][u]
  BY <1>5, StartTypes DEF SetUpload
<1> QED BY <1>1, <1>2, <1>3, <1>6, <1>7 DEF Executing

LEMMA HoldUpload ==
  ASSUME HoldInv, NEW r \in Records, NEW t \in Targets, UploadStep(r, t)
  PROVE  HandsInv' /\ StageInv' /\ UnlockedInv'
<1>a. TypeOK /\ StageInv /\ UnlockedInv /\ RunInv
  BY DEF HoldInv, RunInv
<1>b. /\ UNCHANGED <<op, exec>> /\ r \in Executing /\ exec[r].pc = "uploading"
      /\ \A x \in Records, u \in Targets : x # r \/ u # t => upload'[x][u] = upload[x][u]
  BY <1>a, UploadFrame
<1>1. HandsInv'
  BY <1>b, HandsIdle DEF HandsInv
<1>2. StageInv'
  <2>1. \A x \in Records : exec[x].pc # "saving"
    BY <1>a, <1>b DEF RunInv, RecordInv, Executing
  <2> QED BY <1>a, <1>b, <2>1 DEF StageInv
<1>3. \A q \in Records : row'[q].locked = row[q].locked
  <2>1. UNCHANGED row \/ \E q : row' = [row EXCEPT ![q].status = "deleted"]
    BY DEF UploadStep, Send, CleanList, CleanObject, CleanRow
  <2> QED BY <1>a, <2>1, StartTypes DEF Row
<1>4. \A q \in upload'[r][t].todo : q \in Records /\ ~row[q].locked
  <2>1. \A q \in upload[r][t].todo : q \in Records /\ ~row[q].locked
    BY <1>a DEF UnlockedInv, RunInv, CleanInv, Settled
  <2>2. \A q \in Candidates : q \in Records /\ ~row[q].locked
    BY DEF Candidates, Expired, Successful
  <2>3. \E pc, todo : SetUpload(r, t, pc, todo) /\ (todo = Candidates \/ todo \subseteq upload[r][t].todo)
    <3>1. CASE Send(r, t) \/ CleanList(r, t)
      BY <3>1 DEF Send, CleanList
    <3>2. CASE CleanObject(r, t) \/ CleanRow(r, t)
      <4> DEFINE todo == upload[r][t].todo
      <4>1. {} \in SUBSET todo /\ todo \in SUBSET todo /\ \A q : todo \ {q} \in SUBSET todo
        OBVIOUS
      <4> HIDE DEF todo
      <4>2. \E pc \in {"ok", "dropping", "cleaning"}, x \in SUBSET todo : SetUpload(r, t, pc, x)
        BY <3>2, <4>1 DEF CleanObject, CleanRow, todo
      <4> QED BY <4>2 DEF todo
    <3> QED BY <3>1, <3>2 DEF UploadStep
  <2>4. upload'[r][t].todo = Candidates \/ upload'[r][t].todo \subseteq upload[r][t].todo
    BY <1>a, <2>3, StartTypes DEF SetUpload
  <2> QED BY <2>1, <2>2, <2>4
<1>5. UnlockedInv'
  <2>1. \A x \in Records, u \in Targets : \A q \in upload[x][u].todo : q \in Records /\ ~row[q].locked
    BY <1>a DEF UnlockedInv, RunInv, CleanInv, Settled
  <2> QED BY <1>b, <1>3, <1>4, <2>1 DEF UnlockedInv
<1> QED BY <1>1, <1>2, <1>5

(* What a step of executeTask leaves alone.                                *)
LEMMA ExecFrame ==
  ASSUME TypeOK, NEW r \in Records, ExecStep(r)
  PROVE  /\ UNCHANGED <<lock, caller, op, aged, stored>>
         /\ r \in Executing
         /\ \A q \in Records \ {r} :
              exec'[q] = exec[q] /\ upload'[q] = upload[q] /\ row'[q] = row[q]
<1>1. UNCHANGED <<lock, caller, op, aged, stored>> /\ r \in Executing
  BY DEF ExecStep, Resolve, Collect, Hooks, FinalRead, FinalSave, ExecOnly, Executing
<1>2. \A q \in Records \ {r} : exec'[q] = exec[q]
  <2>1. \E e : SetExec(r, e)
    BY DEF ExecStep, Resolve, Collect, Hooks, FinalRead, FinalSave
  <2> QED BY <2>1, StartTypes DEF SetExec
<1>3. \A q \in Records \ {r} : upload'[q] = upload[q]
  <2>1. UNCHANGED upload \/ \E f : upload' = [upload EXCEPT ![r] = f]
    BY DEF ExecStep, Resolve, Collect, Hooks, FinalRead, FinalSave
  <2> QED BY <2>1, StartTypes
<1>4. \A q \in Records \ {r} : row'[q] = row[q]
  <2>1. UNCHANGED row \/ \E w : row' = [row EXCEPT ![r] = w]
    BY DEF ExecStep, Resolve, Collect, Hooks, FinalRead, FinalSave
  <2> QED BY <2>1, StartTypes
<1> QED BY <1>1, <1>2, <1>3, <1>4

(* The stages of executeTask, for the record it works on.                  *)
LEMMA ExecStages ==
  ASSUME HoldInv, NEW r \in Records, ExecStep(r)
  PROVE  /\ \A t \in Targets : upload'[r][t] # NoUpload => exec'[r].pc = "uploading"
         /\ exec'[r].pc = "none" => exec'[r] = NoExec
         /\ exec'[r].pc = "saving" => exec'[r].seen = row'[r]
         /\ \A t \in Targets : upload'[r][t].todo = {} \/ upload'[r][t] = upload[r][t]
<1>a. TypeOK /\ StageInv
  BY DEF HoldInv, RunInv
<1>b. exec[r] \in Exec /\ \A e : SetExec(r, e) => exec'[r] = e
  BY <1>a, StartTypes DEF SetExec
<1>c. exec[r].pc # "uploading" => \A t \in Targets : upload[r][t] = NoUpload
  BY <1>a DEF StageInv
<1>1. CASE Resolve(r)
  <2>1. CASE UNCHANGED upload /\ SetExec(r, [exec[r] EXCEPT !.pc = "closing"])
    <3>1. exec'[r].pc = "closing"
      BY <1>b, <2>1 DEF Exec
    <3> QED BY <1>1, <1>c, <2>1, <3>1 DEF Resolve
  <2>2. CASE ~(UNCHANGED upload /\ SetExec(r, [exec[r] EXCEPT !.pc = "closing"]))
    <3>1. PICK b \in Bases : SetExec(r, [exec[r] EXCEPT !.pc = "uploading", !.base = b])
      BY <1>1, <2>2 DEF Resolve
    <3>2. exec'[r].pc = "uploading"
      BY <1>b, <3>1 DEF Exec
    <3>3. upload' = [upload EXCEPT ![r] = [t \in Targets |-> [NoUpload EXCEPT !.pc = "sending"]]]
      BY <1>1, <2>2 DEF Resolve
    <3>4. \A t \in Targets : upload'[r][t].todo = {}
      BY <1>a, <3>3, StartTypes DEF NoUpload
    <3> QED BY <3>2, <3>4
  <2> QED BY <2>1, <2>2
<1>2. CASE Collect(r)
  <2>1. \A t \in Targets : upload'[r][t] = NoUpload
    BY <1>a, <1>2, StartTypes DEF Collect
  <2>2. exec'[r].pc \in {"closing", "hooks"}
    BY <1>b, <1>2 DEF Collect, Exec
  <2> QED BY <2>1, <2>2 DEF NoUpload
<1>3. CASE Hooks(r)
  <2>1. exec'[r].pc = "closing" /\ UNCHANGED upload
    BY <1>b, <1>3 DEF Hooks, Exec
  <2> QED BY <1>3, <1>c, <2>1 DEF Hooks
<1>4. CASE FinalRead(r)
  <2>1. UNCHANGED <<upload, row>> /\ \A t \in Targets : upload[r][t] = NoUpload
    BY <1>4, <1>c DEF FinalRead
  <2>2. \/ exec'[r] = NoExec
        \/ exec'[r].pc = "saving" /\ exec'[r].seen = row[r]
    <3>1. LET e == [exec[r] EXCEPT !.pc = "saving", !.seen = row[r]] IN
            e.pc = "saving" /\ e.seen = row[r]
      BY <1>b DEF Exec
    <3> QED BY <1>4, <1>b, <3>1 DEF FinalRead
  <2> QED BY <2>1, <2>2 DEF NoExec
<1>5. CASE FinalSave(r)
  <2>1. UNCHANGED upload /\ \A t \in Targets : upload[r][t] = NoUpload
    BY <1>5, <1>c DEF FinalSave
  <2>2. exec'[r] = NoExec
    BY <1>5, <1>b DEF FinalSave
  <2> QED BY <2>1, <2>2 DEF NoExec
<1> QED BY <1>1, <1>2, <1>3, <1>4, <1>5 DEF ExecStep

LEMMA HoldExec ==
  ASSUME HoldInv, NEW r \in Records, ExecStep(r)
  PROVE  HandsInv' /\ StageInv' /\ UnlockedInv'
<1>a. TypeOK /\ StageInv /\ UnlockedInv /\ RunInv
  BY DEF HoldInv, RunInv
<1>b. /\ UNCHANGED op /\ r \in Executing
      /\ \A q \in Records \ {r} :
           exec'[q] = exec[q] /\ upload'[q] = upload[q] /\ row'[q] = row[q]
  BY <1>a, ExecFrame
<1>1. HandsInv'
  BY <1>b, HandsIdle DEF HandsInv
<1>2. StageInv'
  BY <1>a, <1>b, ExecStages DEF StageInv
<1>3. UnlockedInv'
  <2>1. r \notin Settled
    BY <1>a, <1>b DEF RunInv, RecordInv, Running, Settled, Finished
  <2>2. \A x \in Records, t \in Targets : \A q \in upload[x][t].todo : q \in Records \ {r} /\ ~row[q].locked
    BY <1>a, <2>1 DEF UnlockedInv, RunInv, CleanInv, Settled
  <2> QED BY <1>b, <2>2, ExecStages DEF UnlockedInv
<1> QED BY <1>1, <1>2, <1>3

(* A request runs while nobody else does.                                  *)
LEMMA OpFrame ==
  ASSUME Reach = "idle", HoldInv, NEW o \in Operators, OpStep(o)
  PROVE  /\ UNCHANGED <<aged, replicas, lock, caller, exec, upload, clock>>
         /\ lock = None /\ Executing = {}
         /\ \A r \in Records, t \in Targets : upload[r][t] = NoUpload
<1>1. UNCHANGED <<aged, replicas, lock, caller, exec, upload, clock>>
  BY DEF OpStep, DeleteRead, DeleteCheck, DeleteObject, DeleteRow, LockRead, LockSave, Take, OpOnly
<1>2. lock = None /\ Executing = {}
  <2>1. CASE op[o].pc = "idle"
    <3>1. \E r \in Records : May(r)
      BY <2>1 DEF OpStep, DeleteRead, DeleteCheck, DeleteObject, DeleteRow, LockRead, LockSave, Take
    <3> QED BY <3>1 DEF May
  <2>2. CASE op[o].pc # "idle"
    BY <2>2 DEF HoldInv, HandsInv
  <2> QED BY <2>1, <2>2
<1>3. \A r \in Records, t \in Targets : upload[r][t] = NoUpload
  BY <1>2 DEF HoldInv, StageInv, Executing
<1> QED BY <1>1, <1>2, <1>3

LEMMA HoldOp ==
  ASSUME Reach = "idle", OneOperator, HoldInv, NEW o \in Operators, OpStep(o)
  PROVE  HandsInv' /\ StageInv' /\ UnlockedInv'
<1>a. TypeOK /\ StageInv /\ HandsInv /\ RunInv
  BY DEF HoldInv, RunInv
<1>b. /\ UNCHANGED <<lock, exec, upload>> /\ lock = None /\ Executing = {}
      /\ \A r \in Records, t \in Targets : upload[r][t] = NoUpload
  BY OpFrame
<1>1. StageInv'
  BY <1>a, <1>b DEF StageInv, Executing
<1>2. UnlockedInv'
  BY <1>b DEF UnlockedInv, NoUpload
<1>3. lock' = None /\ Executing' = {}
  BY <1>b DEF Executing
<1>4. op'[o].pc # "idle" => /\ op'[o].seen = row'[op'[o].rec]
                            /\ op'[o].pc # "lock" => ~op'[o].seen.locked
  <2>1. ASSUME NEW r \in Records, NEW pc \in {"check", "lock"}, Take(o, r, pc), pc = "check" => ~row[r].locked
        PROVE  op'[o].seen = row'[op'[o].rec] /\ (op'[o].pc # "lock" => ~op'[o].seen.locked)
    <3>1. op'[o] = [pc |-> pc, rec |-> r, seen |-> row[r]] /\ UNCHANGED row
      BY <1>a, <2>1, StartTypes DEF Take
    <3> QED BY <2>1, <3>1
  <2>2. ASSUME NEW pc \in {"remove", "drop"}, op' = [op EXCEPT ![o].pc = pc],
               op[o].pc \in {"check", "remove"}, UNCHANGED row
        PROVE  op'[o].seen = row'[op'[o].rec] /\ ~op'[o].seen.locked
    <3>1. op'[o].seen = op[o].seen /\ op'[o].rec = op[o].rec
      BY <1>a, <2>2, StartTypes DEF Op
    <3> QED BY <1>a, <2>2, <3>1 DEF HandsInv
  <2>3. Done(o) => op'[o].pc = "idle"
    BY <1>a, StartTypes DEF Done, NoOp
  <2>4. CASE DeleteRead(o) \/ LockRead(o)
    BY <2>1, <2>4 DEF DeleteRead, LockRead
  <2>5. CASE DeleteCheck(o)
    BY <2>2, <2>3, <2>5 DEF DeleteCheck
  <2>6. CASE DeleteObject(o)
    BY <2>2, <2>3, <2>6 DEF DeleteObject
  <2>7. CASE DeleteRow(o) \/ LockSave(o)
    BY <2>3, <2>7 DEF DeleteRow, LockSave
  <2> QED BY <2>4, <2>5, <2>6, <2>7 DEF OpStep
<1>5. HandsInv'
  BY <1>3, <1>4 DEF HandsInv, OneOperator
<1> QED BY <1>1, <1>2, <1>5

LEMMA HoldNext ==
  ASSUME Reach = "idle", OneOperator, HoldInv, [Next]_vars
  PROVE  HoldInv'
<1>1. RunInv'
  BY RunNext DEF HoldInv
<1>2. HandsInv' /\ StageInv' /\ UnlockedInv'
  <2>1. CASE MasterRestart
    BY <2>1 DEF MasterRestart, HandsInv, StageInv, UnlockedInv, NoOp, NoExec, NoUpload
  <2>2. CASE Age \/ UNCHANGED vars
    <3>1. UNCHANGED <<row, lock, exec, upload, op>>
      BY <2>2 DEF Age, vars
    <3> QED BY <3>1 DEF HoldInv, HandsInv, StageInv, UnlockedInv, Executing
  <2> QED BY <2>1, <2>2, HoldStart, HoldUpload, HoldExec, HoldOp DEF Next
<1> QED BY <1>1, <1>2 DEF HoldInv

(* The records a step deletes are unlocked.                                *)
LEMMA LockedStays ==
  ASSUME Reach = "idle", HoldInv, [Next]_vars,
         NEW r \in Records, row[r].locked, row[r].status \in Exists
  PROVE  row'[r].status # "deleted"
<1>a. TypeOK /\ RunInv
  BY DEF HoldInv, RunInv
<1>b. row \in [Records -> Row] /\ row[r].status # "deleted"
  BY <1>a, StartTypes DEF Exists, Finished
<1>c. UNCHANGED row => row'[r].status # "deleted"
  BY <1>b
<1>d. \A q \in Records : q # r /\ row' = [row EXCEPT ![q].status = "deleted"] => row'[r].status # "deleted"
  BY <1>b
<1>1. ASSUME NEW c \in Callers, StartStep(c) PROVE row'[r].status # "deleted"
  <2>1. UNCHANGED row \/ \E q : row' = [row EXCEPT ![q].status = "running"]
    BY <1>1 DEF StartStep, StartCheck, StartCreate, StartLaunch, StartAborted
  <2> QED BY <1>b, <2>1 DEF Row
<1>2. ASSUME NEW x \in Records, ExecStep(x) PROVE row'[r].status # "deleted"
  <2>1. CASE UNCHANGED row
    BY <1>c, <2>1
  <2>2. CASE ~(UNCHANGED row)
    <3>1. FinalSave(x)
      BY <1>2, <2>2 DEF ExecStep, Resolve, Collect, Hooks, FinalRead
    <3>2. exec[x].copies \in SUBSET Targets
      BY <1>a, StartTypes DEF Exec
    <3>3. PICK t \in Targets \cup {NoTarget} : row' = [row EXCEPT ![x] = Final(x, t)]
      BY <2>2, <3>1, <3>2, SelectedType DEF FinalSave
    <3>4. Final(x, t).status \in Finished
      BY <1>a, FinalType
    <3> QED BY <1>b, <3>3, <3>4 DEF Finished
  <2> QED BY <2>1, <2>2
<1>3. ASSUME NEW x \in Records, NEW t \in Targets, UploadStep(x, t) PROVE row'[r].status # "deleted"
  <2>1. UNCHANGED row \/ \E q \in upload[x][t].todo : row' = [row EXCEPT ![q].status = "deleted"]
    BY <1>3 DEF UploadStep, Send, CleanList, CleanObject, CleanRow, NextOf
  <2>2. \A q \in upload[x][t].todo : q \in Records /\ ~row[q].locked
    BY <1>a DEF HoldInv, UnlockedInv, RunInv, CleanInv, Settled
  <2> QED BY <1>c, <1>d, <2>1, <2>2
<1>4. ASSUME NEW o \in Operators, OpStep(o) PROVE row'[r].status # "deleted"
  <2>a. op[o].pc # "idle" => op[o].rec \in Records /\ op[o].seen \in Row /\ op[o].seen.status \in Finished
    BY <1>a, StartTypes DEF RunInv, OpInv, Settled, Op
  <2>1. CASE DeleteRow(o)
    <3>1. op[o].rec \in Records /\ ~row[op[o].rec].locked
      BY <2>1, <2>a DEF DeleteRow, HoldInv, HandsInv
    <3> QED BY <1>c, <1>d, <2>1, <3>1 DEF DeleteRow
  <2>2. CASE LockSave(o)
    <3>1. [op[o].seen EXCEPT !.locked = ~@].status \in Finished
      BY <2>2, <2>a DEF LockSave, Row
    <3> QED BY <1>b, <1>c, <2>2, <3>1 DEF LockSave, Finished
  <2>3. CASE ~DeleteRow(o) /\ ~LockSave(o)
    BY <1>4, <1>c, <2>3 DEF OpStep, DeleteRead, DeleteCheck, DeleteObject, LockRead, Take
  <2> QED BY <2>1, <2>2, <2>3
<1>5. CASE MasterRestart
  <2>1. row'[r] = row[r] \/ row'[r] = [row[r] EXCEPT !.status = "failed"]
    BY <1>5 DEF MasterRestart
  <2> QED BY <1>b, <2>1 DEF Row
<1>6. CASE Age \/ UNCHANGED vars
  BY <1>6, <1>c DEF Age, vars
<1> QED BY <1>1, <1>2, <1>3, <1>4, <1>5, <1>6 DEF Next

(* A locked record is not removed, whatever faults strike the runs, when   *)
(* one operator works between them: neither retention nor DeleteRecord     *)
(* acts on a row that has been locked since it was read.                   *)
THEOREM LockedIsKeptHolds ==
  ASSUME Reach = "idle", OneOperator
  PROVE  Spec => LockedIsKept
<1>1. Init => HoldInv
  BY HoldInit
<1>2. HoldInv /\ [Next]_vars => HoldInv'
  BY HoldNext
<1>3. HoldInv /\ [Next]_vars =>
        [\A r \in Records : row[r].locked /\ row[r].status \in Exists => row'[r].status # "deleted"]_vars
  BY LockedStays
<1> QED BY <1>1, <1>2, <1>3, PTL DEF Spec, LockedIsKept

-----------------------------------------------------------------------------
(* The chain of differential backups.  A run keeps the base it resolved    *)
(* although retention works before the run itself counts: the newest full  *)
(* backup is followed by unlocked records beyond MaxBackups only if one of *)
(* those that stay is a differential, whose base it then is.  Storage and  *)
(* database errors are left out, and ageing: with either a base is lost    *)
(* (see the README's known behaviours).                                    *)
Undisturbed == Hazards \cap {"age", "db", "storage"} = {}

\* Successful records are told apart by the time they were completed.
TimesInv ==
  \A r \in Successful :
    /\ row[r].at \in 1..clock
    /\ \A q \in Successful : row[q].at = row[r].at => q = r

\* A differential is based on the full backup that was the newest before it.
ChainInv ==
  \A d \in Successful :
    IF row[d].kind = "full" THEN row[d].base = NoRec
    ELSE /\ row[d].base \in Fulls
         /\ row[row[d].base].at < row[d].at
         /\ \A f \in Fulls : row[f].at < row[d].at => row[f].at <= row[row[d].base].at

\* The base of the run in progress is still the newest full backup.
NewestFull(b) == b \in Fulls /\ \A f \in Fulls : row[f].at <= row[b].at
BaseInv == \A r \in Executing : exec[r].base # NoRec => NewestFull(exec[r].base)

\* What retention is about to delete for run r is not the base of r and is
\* deleted after all that depends on it.
Releasable(r, T) ==
  \A q \in T :
    /\ row[q].status \in {"success", "deleted"}
    /\ q # exec[r].base
    /\ \A d \in Successful : row[d].base = q => d \in T /\ row[q].at < row[d].at
TodoInv == \A r \in Records, t \in Targets : Releasable(r, upload[r][t].todo)

\* What DeleteRecord has decided to delete has no dependents.
DeleteInv ==
  \A o \in Operators : op[o].pc \in {"remove", "drop"} =>
    \A d \in Successful : row[d].base # op[o].rec

KeptInv == HoldInv /\ aged = {} /\ TimesInv /\ ChainInv /\ BaseInv /\ TodoInv /\ DeleteInv

LEMMA KeptInit == Init => KeptInv
<1> SUFFICES ASSUME Init PROVE KeptInv
  OBVIOUS
<1>1. Successful = {} /\ Executing = {}
  BY DEF Init, Successful, Executing, Blank, NoExec
<1>2. TimesInv /\ ChainInv /\ BaseInv
  BY <1>1 DEF TimesInv, ChainInv, BaseInv
<1>3. TodoInv /\ DeleteInv /\ aged = {}
  BY DEF TodoInv, Releasable, DeleteInv, Init, NoUpload, NoOp
<1> QED BY <1>2, <1>3, HoldInit DEF KeptInv

LEMMA SuccessTypes ==
  ASSUME TypeOK
  PROVE  /\ Successful \subseteq Records /\ Fulls \subseteq Successful
         /\ \A r \in Records : /\ row[r].at \in Nat /\ row[r].base \in Records \cup {NoRec}
                               /\ row[r].kind \in {"full", "differential"}
         /\ NoRec \notin Records /\ clock \in Nat
  BY BackupRunsAssumption DEF TypeOK, Row, Successful, Fulls, NoRec

(* Retention spares the base of the run it works for.                      *)
LEMMA LeastNumber ==
  ASSUME NEW S \in SUBSET Nat, S # {}
  PROVE  \E n \in S : \A m \in S : n <= m
<1>1. IsWellFoundedOn(OpToRel(<, Nat), Nat)
  BY NatLessThanWellFounded
<1>2. PICK n \in S : \A m \in S : ~(<<m, n>> \in OpToRel(<, Nat))
  BY <1>1, WFMin
<1>3. \A m \in S : ~(m < n)
  BY <1>2 DEF OpToRel
<1> QED BY <1>3

LEMMA NewestExists ==
  ASSUME TypeOK, TimesInv, NEW U \in SUBSET Successful, U # {}
  PROVE  \E n \in U : \A p \in U : row[p].at <= row[n].at
<1> DEFINE S == {clock - row[p].at : p \in U}
<1>1. \A p \in U : row[p].at \in Nat /\ clock - row[p].at \in Nat
  BY SuccessTypes DEF TimesInv
<1>2. S \in SUBSET Nat /\ S # {}
  BY <1>1
<1>3. PICK m \in S : \A k \in S : m <= k
  BY <1>2, LeastNumber
<1>4. PICK n \in U : m = clock - row[n].at
  OBVIOUS
<1>5. \A p \in U : clock - row[n].at <= clock - row[p].at
  BY <1>3, <1>4
<1>6. \A p \in U : row[p].at <= row[n].at
  BY <1>1, <1>5, SuccessTypes
<1> QED BY <1>6

LEMMA BaseSpared ==
  ASSUME TypeOK, TimesInv, ChainInv, aged = {}, NEW b, NewestFull(b)
  PROVE  b \notin Candidates
<1> SUFFICES ASSUME b \in Candidates PROVE FALSE
  OBVIOUS
<1> DEFINE U == {q \in Successful : ~row[q].locked}
           After(q) == {p \in U : row[p].at > row[q].at}
<1>1. b \in Fulls /\ b \in Successful /\ row[b].kind = "full" /\ \A f \in Fulls : row[f].at <= row[b].at
  BY DEF NewestFull, Fulls
<1>2. b \in Expired /\ b \notin Protected(Expired)
  BY <1>1 DEF Candidates
<1>3. MaxBackups > 0 /\ Cardinality(After(b)) >= MaxBackups
  BY <1>2 DEF Expired
<1>4. Cardinality({}) = 0
  BY FS_EmptySet
<1>5. After(b) # {}
  BY <1>3, <1>4, BackupRunsAssumption
<1>6. PICK n \in U : \A p \in U : row[p].at <= row[n].at
  <2>1. U \in SUBSET Successful /\ U # {}
    BY <1>5
  <2> QED BY <2>1, NewestExists
<1>7. n \in Successful /\ row[b].at < row[n].at
  <2>1. PICK p \in U : row[p].at > row[b].at
    BY <1>5
  <2>2. row[p].at <= row[n].at /\ {row[p].at, row[n].at, row[b].at} \subseteq Nat
    BY <1>1, <1>6, <2>1, SuccessTypes
  <2> QED BY <2>1, <2>2
<1>8. n \notin Expired
  <2>1. \A p \in U : ~(row[p].at > row[n].at)
    BY <1>6, SuccessTypes
  <2>2. After(n) = {}
    BY <2>1
  <2>3. ~(Cardinality(After(n)) >= MaxBackups)
    BY <1>3, <1>4, <2>2, BackupRunsAssumption
  <2> QED BY <2>3 DEF Expired
<1>9. row[n].kind = "differential"
  <2>1. n \notin Fulls
    BY <1>1, <1>7, SuccessTypes
  <2> QED BY <1>7, <2>1, SuccessTypes DEF Fulls
<1>10. row[n].base = b
  <2>1. row[n].base \in Fulls /\ row[b].at <= row[row[n].base].at
    BY <1>1, <1>7, <1>9 DEF ChainInv
  <2>2. row[row[n].base].at = row[b].at
    BY <1>1, <2>1, SuccessTypes
  <2> QED BY <1>1, <2>1, <2>2, SuccessTypes DEF TimesInv
<1>11. b \in Protected(Expired)
  BY <1>7, <1>8, <1>9, <1>10 DEF Protected
<1> QED BY <1>2, <1>11

(* What retention lists can be released.                                   *)
LEMMA CandidatesReleasable ==
  ASSUME TypeOK, TimesInv, ChainInv, aged = {}, NEW r \in Records,
         exec[r].base # NoRec => NewestFull(exec[r].base)
  PROVE  Releasable(r, Candidates)
<1> SUFFICES ASSUME NEW q \in Candidates
             PROVE  /\ row[q].status \in {"success", "deleted"}
                    /\ q # exec[r].base
                    /\ \A d \in Successful : row[d].base = q => d \in Candidates /\ row[q].at < row[d].at
  BY DEF Releasable
<1>1. q \in Successful /\ q \in Records /\ q # NoRec /\ row[q].status = "success"
  BY SuccessTypes DEF Candidates, Expired, Successful
<1>2. q # exec[r].base
  BY <1>1, BaseSpared
<1>3. ASSUME NEW d \in Successful, row[d].base = q
      PROVE  d \in Candidates /\ row[q].at < row[d].at
  <2>1. row[d].kind = "differential" /\ q \in Fulls /\ row[q].at < row[d].at
    BY <1>1, <1>3, SuccessTypes DEF ChainInv
  <2>2. q \notin Protected(Expired)
    BY <2>1 DEF Candidates, Fulls
  <2>3. d \in Expired
    BY <1>3, <2>1, <2>2 DEF Protected
  <2> QED BY <2>1, <2>3 DEF Candidates
<1> QED BY <1>1, <1>2, <1>3

(* Steps that leave the successful records and their order alone.          *)
LEMMA SameSuccess ==
  ASSUME TypeOK, TimesInv, ChainInv, Successful' = Successful,
         \A r \in Successful : /\ row'[r].at = row[r].at /\ row'[r].kind = row[r].kind
                               /\ row'[r].base = row[r].base,
         UNCHANGED clock
  PROVE  TimesInv' /\ ChainInv' /\ Fulls' = Fulls
<1>1. Fulls' = Fulls /\ Fulls \subseteq Successful
  BY DEF Fulls
<1>2. TimesInv'
  BY DEF TimesInv
<1>3. ChainInv'
  <2> SUFFICES ASSUME NEW d \in Successful
               PROVE  IF row'[d].kind = "full" THEN row'[d].base = NoRec
                      ELSE /\ row'[d].base \in Fulls'
                           /\ row'[row'[d].base].at < row'[d].at
                           /\ \A f \in Fulls' : row'[f].at < row'[d].at => row'[f].at <= row'[row'[d].base].at
    BY DEF ChainInv
  <2>1. CASE row[d].kind = "full"
    BY <2>1 DEF ChainInv
  <2>2. CASE row[d].kind # "full"
    <3>1. /\ row[d].base \in Fulls /\ row[row[d].base].at < row[d].at
          /\ \A f \in Fulls : row[f].at < row[d].at => row[f].at <= row[row[d].base].at
      BY <2>2 DEF ChainInv
    <3>2. \A f \in Fulls : row'[f].at = row[f].at
      BY <1>1
    <3> QED BY <1>1, <2>2, <3>1, <3>2
  <2> QED BY <2>1, <2>2
<1> QED BY <1>1, <1>2, <1>3

(* The deletion of a record nothing is based on.                           *)
LEMMA OneDeleted ==
  ASSUME TypeOK, TimesInv, ChainInv, NEW q \in Records,
         row' = [row EXCEPT ![q].status = "deleted"], UNCHANGED clock,
         \A d \in Successful : row[d].base # q
  PROVE  /\ TimesInv' /\ ChainInv'
         /\ Successful' = Successful \ {q} /\ Fulls' = Fulls \ {q}
         /\ \A p \in Records : /\ row'[p].at = row[p].at /\ row'[p].base = row[p].base
                               /\ row'[p].kind = row[p].kind
                               /\ row'[p].status = IF p = q THEN "deleted" ELSE row[p].status
<1>1. \A p \in Records : /\ row'[p].at = row[p].at /\ row'[p].base = row[p].base
                         /\ row'[p].kind = row[p].kind
                         /\ row'[p].status = IF p = q THEN "deleted" ELSE row[p].status
  BY StartTypes DEF Row
<1>2. Successful' = Successful \ {q}
  BY <1>1 DEF Successful
<1>3. Fulls' = Fulls \ {q}
  BY <1>1, <1>2, SuccessTypes DEF Fulls
<1>4. TimesInv'
  BY <1>1, <1>2, SuccessTypes DEF TimesInv
<1>5. ChainInv'
  <2> SUFFICES ASSUME NEW d \in Successful \ {q}
               PROVE  IF row'[d].kind = "full" THEN row'[d].base = NoRec
                      ELSE /\ row'[d].base \in Fulls'
                           /\ row'[row'[d].base].at < row'[d].at
                           /\ \A f \in Fulls' : row'[f].at < row'[d].at => row'[f].at <= row'[row'[d].base].at
    BY <1>2 DEF ChainInv
  <2>0. d \in Records /\ row'[d].kind = row[d].kind /\ row'[d].base = row[d].base /\ row'[d].at = row[d].at
    BY <1>1, SuccessTypes
  <2>1. CASE row[d].kind = "full"
    BY <2>0, <2>1 DEF ChainInv
  <2>2. CASE row[d].kind # "full"
    <3>1. /\ row[d].base \in Fulls /\ row[row[d].base].at < row[d].at
          /\ \A f \in Fulls : row[f].at < row[d].at => row[f].at <= row[row[d].base].at
      BY <2>2 DEF ChainInv
    <3>2. \A f \in Fulls : row'[f].at = row[f].at
      BY <1>1, SuccessTypes
    <3> QED BY <1>3, <2>0, <2>2, <3>1, <3>2
  <2> QED BY <2>1, <2>2
<1> QED BY <1>1, <1>2, <1>3, <1>4, <1>5

(* What a list of retention relies on outlives a step that adds no         *)
(* successful record.                                                      *)
LEMMA StillReleasable ==
  ASSUME NEW x \in Records, NEW T, Releasable(x, T), exec'[x].base = exec[x].base,
         Successful' \subseteq Successful,
         \A d \in Successful' : row'[d].base = row[d].base /\ row'[d].at = row[d].at,
         \A q \in T : row'[q].at = row[q].at /\ row'[q].status \in {row[q].status, "deleted"}
  PROVE  Releasable(x, T)'
<1> SUFFICES ASSUME NEW q \in T
             PROVE  /\ row'[q].status \in {"success", "deleted"}
                    /\ q # exec'[x].base
                    /\ \A d \in Successful' : row'[d].base = q => d \in T /\ row'[q].at < row'[d].at
  BY DEF Releasable
<1>1. /\ row[q].status \in {"success", "deleted"} /\ q # exec[x].base
      /\ \A d \in Successful : row[d].base = q => d \in T /\ row[q].at < row[d].at
  BY DEF Releasable
<1> QED BY <1>1

LEMMA NoFaults ==
  ASSUME Undisturbed, NEW k \in {"age", "db", "storage"}
  PROVE  ~Fault(k) /\ k \notin Hazards
  BY DEF Undisturbed, Fault

LEMMA KeptStart ==
  ASSUME Reach = "idle", KeptInv, NEW c \in Callers, StartStep(c), HoldInv'
  PROVE  KeptInv'
<1>a. TypeOK /\ StageInv /\ RunInv /\ HoldInv /\ TimesInv /\ ChainInv
  BY DEF KeptInv, HoldInv, RunInv
<1>b. UNCHANGED <<upload, op, aged, clock>>
  BY DEF StartStep, StartCheck, StartCreate, StartLaunch, StartAborted
<1>1. /\ Successful' = Successful
      /\ \A r \in Records : row[r].status # "none" => row'[r] = row[r]
  <2>1. CASE UNCHANGED row
    BY <2>1, SameRows
  <2>2. CASE ~(UNCHANGED row)
    <3>1. PICK r \in Records : row[r].status = "none" /\ row' = [row EXCEPT ![r].status = "running"]
      BY <2>2 DEF StartStep, StartCheck, StartCreate, StartLaunch, StartAborted
    <3>2. row'[r].status = "running" /\ \A q \in Records \ {r} : row'[q] = row[q]
      BY <1>a, <3>1, StartTypes DEF Row
    <3> QED BY <3>1, <3>2 DEF Successful
  <2> QED BY <2>1, <2>2
<1>2. \A r \in Successful : row'[r] = row[r]
  BY <1>1 DEF Successful
<1>3. TimesInv' /\ ChainInv' /\ Fulls' = Fulls
  BY <1>a, <1>b, <1>1, <1>2, SameSuccess
<1>4. \A r \in Records : exec'[r].base = exec[r].base
  <2>1. UNCHANGED exec \/ \E r, pc : exec' = [exec EXCEPT ![r].pc = pc]
    BY DEF StartStep, StartCheck, StartCreate, StartLaunch, StartAborted
  <2> QED BY <1>a, <2>1, StartTypes DEF Exec
<1>5. BaseInv'
  <2> SUFFICES ASSUME NEW r \in Records, exec'[r].base # NoRec
               PROVE  exec'[r].base \in Fulls' /\ \A f \in Fulls' : row'[f].at <= row'[exec'[r].base].at
    BY DEF BaseInv, NewestFull, Executing
  <2>1. exec[r].base # NoRec
    BY <1>4
  <2>2. r \in Executing
    BY <1>a, <2>1 DEF StageInv, NoExec, Executing
  <2>3. NewestFull(exec[r].base)
    BY <2>1, <2>2 DEF KeptInv, BaseInv
  <2>4. Fulls' = Fulls /\ \A f \in Fulls : row'[f] = row[f]
    BY <1>2, <1>3 DEF Fulls
  <2> QED BY <1>4, <2>3, <2>4 DEF NewestFull
<1>6. TodoInv'
  <2> SUFFICES ASSUME NEW x \in Records, NEW t \in Targets
               PROVE  Releasable(x, upload[x][t].todo)'
    BY DEF TodoInv
  <2>1. \A q \in upload[x][t].todo : row'[q] = row[q]
    BY <1>a, <1>1 DEF RunInv, CleanInv, Settled, Finished
  <2>2. Releasable(x, upload[x][t].todo)
    BY DEF KeptInv, TodoInv
  <2> QED BY <1>b, <1>1, <1>2, <1>4, <2>1, <2>2, StillReleasable DEF Releasable
<1>7. DeleteInv'
  <2>1. CASE UNCHANGED row
    BY <1>b, <2>1, SameRows DEF KeptInv, DeleteInv
  <2>2. CASE ~(UNCHANGED row)
    <3>1. caller[c].pc = "checked"
      BY <2>2 DEF StartStep, StartCheck, StartCreate, StartLaunch, StartAborted
    <3>2. lock # None
      BY <1>a, <3>1, BackupRunsAssumption DEF RunInv, CallerInv
    <3>3. \A o \in Operators : op[o].pc = "idle"
      BY <1>a, <3>2, HandsIdle
    <3> QED BY <1>b, <3>3 DEF DeleteInv
  <2> QED BY <2>1, <2>2
<1> QED BY <1>b, <1>3, <1>5, <1>6, <1>7 DEF KeptInv

LEMMA KeptUpload ==
  ASSUME Undisturbed, KeptInv, NEW r \in Records, NEW t \in Targets, UploadStep(r, t), HoldInv'
  PROVE  KeptInv'
<1>a. /\ TypeOK /\ StageInv /\ RunInv /\ HoldInv /\ TimesInv /\ ChainInv /\ aged = {}
      /\ BaseInv /\ TodoInv
  BY DEF KeptInv, HoldInv, RunInv
<1>b. /\ UNCHANGED <<op, aged, exec, clock>> /\ r \in Executing
      /\ upload[r][t].pc \notin {"idle", "ok", "failed"}
      /\ \A x \in Records, u \in Targets : x # r \/ u # t => upload'[x][u] = upload[x][u]
  BY <1>a, UploadFrame
<1>c. \A o \in Operators : op[o].pc = "idle"
  BY <1>a, <1>b, HandsIdle
<1>d. DeleteInv'
  BY <1>b, <1>c DEF DeleteInv
<1>e. \A pc, todo : SetUpload(r, t, pc, todo) => upload'[r][t].todo = todo
  BY <1>a, StartTypes DEF SetUpload
<1>f. \A x \in Records, u \in Targets : upload[x][u].todo \subseteq Records /\ Releasable(x, upload[x][u].todo)
  BY <1>a DEF RunInv, CleanInv, Settled, TodoInv
<1>g. exec[r].base # NoRec => NewestFull(exec[r].base)
  BY <1>a, <1>b DEF BaseInv
<1>1. CASE UNCHANGED row
  <2>1. Successful' = Successful
    BY <1>1, SameRows
  <2>2. TimesInv' /\ ChainInv' /\ Fulls' = Fulls
    BY <1>1, <1>a, <1>b, <2>1, SameSuccess
  <2>3. BaseInv'
    BY <1>1, <1>a, <1>b, <2>2 DEF BaseInv, NewestFull, Executing
  <2>5. \/ upload'[r][t].todo \in {{}, Candidates, upload[r][t].todo}
        \/ CleanRow(r, t)
    <3>1. CASE Send(r, t)
      BY <1>e, <3>1 DEF Send
    <3>2. CASE CleanList(r, t)
      BY <1>e, <3>2 DEF CleanList
    <3>3. CASE CleanObject(r, t)
      BY <1>e, <3>3, NoFaults DEF CleanObject
    <3> QED BY <3>1, <3>2, <3>3 DEF UploadStep
  <2>6. ASSUME CleanRow(r, t) PROVE Releasable(r, upload'[r][t].todo)
    <3>1. PICK q \in upload[r][t].todo : 
            /\ upload'[r][t].todo = upload[r][t].todo \ {q}
            /\ row' = [row EXCEPT ![q].status = "deleted"]
      BY <1>e, <2>6, NoFaults DEF CleanRow, NextOf
    <3>2. row[q].status = "deleted"
      BY <1>1, <1>a, <1>f, <3>1, StartTypes DEF Row
    <3>3. q \notin Successful
      BY <3>2 DEF Successful
    <3> QED BY <1>f, <3>1, <3>3 DEF Releasable
  <2>7. Releasable(r, {}) /\ Releasable(r, Candidates)
    BY <1>a, <1>g, CandidatesReleasable DEF Releasable
  <2>8. Releasable(r, upload'[r][t].todo)
    BY <1>f, <2>5, <2>6, <2>7
  <2>9. \A x \in Records, u \in Targets : Releasable(x, upload'[x][u].todo)
    BY <1>b, <1>f, <2>8
  <2>10. TodoInv'
    <3> SUFFICES ASSUME NEW x \in Records, NEW u \in Targets
                 PROVE  Releasable(x, upload[x][u].todo)'
      BY DEF TodoInv
    <3>1. Releasable(x, upload'[x][u].todo)
      BY <2>9
    <3> QED BY <1>1, <1>b, <2>1, <3>1 DEF Releasable
  <2> QED BY <1>b, <1>a, <1>d, <2>2, <2>3, <2>10 DEF KeptInv
<1>2. CASE ~(UNCHANGED row)
  <2>1. PICK q \in NextOf(upload[r][t].todo) :
          /\ upload'[r][t].todo = upload[r][t].todo \ {q}
          /\ row' = [row EXCEPT ![q].status = "deleted"]
    BY <1>2, <1>e, NoFaults DEF UploadStep, Send, CleanList, CleanObject, CleanRow
  <2>2. q \in Records /\ q \in upload[r][t].todo /\ q # exec[r].base
    BY <1>f, <2>1 DEF NextOf, Releasable
  <2>3. \A d \in Successful : row[d].base # q
    <3> SUFFICES ASSUME NEW d \in Successful, row[d].base = q PROVE FALSE
      OBVIOUS
    <3>1. d \in upload[r][t].todo /\ row[q].at < row[d].at
      BY <1>f, <2>2 DEF Releasable
    <3>2. row[d].at <= row[q].at
      BY <2>1, <3>1 DEF NextOf
    <3> QED BY <1>a, <1>f, <2>2, <3>1, <3>2, SuccessTypes
  <2>4. /\ TimesInv' /\ ChainInv'
        /\ Successful' = Successful \ {q} /\ Fulls' = Fulls \ {q}
        /\ \A p \in Records : /\ row'[p].at = row[p].at /\ row'[p].base = row[p].base
                              /\ row'[p].status = IF p = q THEN "deleted" ELSE row[p].status
    BY <1>a, <1>b, <2>1, <2>2, <2>3, OneDeleted
  <2>5. BaseInv'
    <3> SUFFICES ASSUME NEW x \in Executing, exec[x].base # NoRec
                 PROVE  exec[x].base \in Fulls' /\ \A f \in Fulls' : row'[f].at <= row'[exec[x].base].at
      BY <1>b DEF BaseInv, Executing, NewestFull
    <3>1. x = r
      BY <1>a, <1>b DEF RunInv, RecordInv
    <3>2. exec[x].base \in Fulls /\ \A f \in Fulls : row[f].at <= row[exec[x].base].at
      BY <1>g, <3>1 DEF NewestFull
    <3>3. Fulls \subseteq Records
      BY <1>a, SuccessTypes
    <3> QED BY <2>2, <2>4, <3>1, <3>2, <3>3
  <2>6. ASSUME NEW x \in Records, NEW u \in Targets
        PROVE  Releasable(x, upload[x][u].todo)'
    <3> DEFINE T == upload'[x][u].todo
    <3>1. T \subseteq upload[x][u].todo /\ T \subseteq Records
      BY <1>b, <1>f, <2>1
    <3>2. \A p \in T : /\ row[p].status \in {"success", "deleted"} /\ p # exec[x].base
                       /\ \A d \in Successful' : row[d].base = p => d \in T /\ row[p].at < row[d].at
      <4>1. CASE x = r /\ u = t
        BY <1>f, <2>1, <2>4, <4>1 DEF Releasable
      <4>2. CASE x # r \/ u # t
        BY <1>b, <1>f, <2>4, <4>2 DEF Releasable
      <4> QED BY <4>1, <4>2
    <3>3. Successful' \subseteq Records
      BY <1>a, <2>4, SuccessTypes
    <3> QED BY <1>b, <2>4, <3>1, <3>2, <3>3 DEF Releasable
  <2>7. TodoInv'
    BY <2>6 DEF TodoInv
  <2> QED BY <1>a, <1>b, <1>d, <2>4, <2>5, <2>7 DEF KeptInv
<1> QED BY <1>1, <1>2

(* The record of a run that ends.                                          *)
LEMMA FinalFields ==
  ASSUME TypeOK, NEW r \in Records, NEW t \in Targets \cup {NoTarget}
  PROVE  IF exec[r].copies = {} THEN /\ Final(r, t).status = "failed"
                                     /\ Final(r, t).base = exec[r].seen.base
         ELSE /\ Final(r, t).status = "success"
              /\ Final(r, t).base = exec[r].base
              /\ Final(r, t).at = clock + 1
              /\ Final(r, t).kind = IF exec[r].base = NoRec THEN "full" ELSE "differential"
<1>1. exec[r].seen \in Row
  BY DEF TypeOK, Exec
<1>2. Closed(r, t).status = "failed" /\ Closed(r, t).base = exec[r].seen.base
        /\ Closed(r, t).at = clock + 1
  BY <1>1 DEF Closed, Row
<1>3. /\ Succeeded(r, t).status = "success" /\ Succeeded(r, t).base = exec[r].base
      /\ Succeeded(r, t).at = Closed(r, t).at
      /\ Succeeded(r, t).kind = IF exec[r].base = NoRec THEN "full" ELSE "differential"
  BY <1>1 DEF Succeeded, Closed, Row
<1> QED BY <1>2, <1>3 DEF Final

(* A new successful record joins the chain.                                *)
LEMMA OneCompleted ==
  ASSUME TypeOK, TimesInv, ChainInv, NEW r \in Records \ Successful, NEW w, NEW b,
         b = NoRec \/ NewestFull(b),
         w.status = "success", w.base = b, w.at = clock + 1,
         w.kind = IF b = NoRec THEN "full" ELSE "differential",
         row' = [row EXCEPT ![r] = w], clock' = clock + 1
  PROVE  TimesInv' /\ ChainInv'
<1>1. row'[r] = w /\ \A p \in Records \ {r} : row'[p] = row[p]
  BY StartTypes
<1>2. Successful' = Successful \cup {r}
  BY <1>1 DEF Successful
<1>3. \A p \in Successful : row'[p] = row[p] /\ row[p].at \in Nat /\ row[p].at <= clock /\ row[p].at \in 1..clock
  BY <1>1, SuccessTypes DEF TimesInv
<1>4. clock \in Nat /\ NoRec \notin Records
  BY SuccessTypes
<1>5. TimesInv'
  <2> SUFFICES ASSUME NEW p \in Successful \cup {r}
               PROVE  /\ row'[p].at \in 1..(clock + 1)
                      /\ \A q \in Successful \cup {r} : row'[q].at = row'[p].at => q = p
    BY <1>2 DEF TimesInv
  <2>1. row'[p].at \in 1..(clock + 1)
    BY <1>1, <1>3, <1>4
  <2>2. \A q \in Successful \cup {r} : row'[q].at = row'[p].at => q = p
    BY <1>1, <1>3, <1>4 DEF TimesInv
  <2> QED BY <2>1, <2>2
<1>6. Fulls \subseteq Successful /\ Fulls \subseteq Fulls' /\ Fulls' \subseteq Fulls \cup {r}
  BY <1>1, <1>2, <1>3 DEF Fulls
<1>7. ChainInv'
  <2> SUFFICES ASSUME NEW d \in Successful \cup {r}
               PROVE  IF row'[d].kind = "full" THEN row'[d].base = NoRec
                      ELSE /\ row'[d].base \in Fulls'
                           /\ row'[row'[d].base].at < row'[d].at
                           /\ \A f \in Fulls' : row'[f].at < row'[d].at => row'[f].at <= row'[row'[d].base].at
    BY <1>2 DEF ChainInv
  <2>1. CASE d = r
    <3>1. CASE b = NoRec
      BY <1>1, <2>1, <3>1
    <3>2. CASE b # NoRec
      <4>1. b \in Fulls /\ \A f \in Fulls : row[f].at <= row[b].at
        BY <3>2 DEF NewestFull
      <4>2. row'[b].at < row'[d].at
        BY <1>1, <1>3, <1>4, <1>6, <2>1, <4>1
      <4>3. \A f \in Fulls' : row'[f].at < row'[d].at => row'[f].at <= row'[b].at
        BY <1>1, <1>3, <1>6, <2>1, <4>1
      <4> QED BY <1>1, <1>6, <2>1, <3>2, <4>1, <4>2, <4>3
    <3> QED BY <3>1, <3>2
  <2>2. CASE d \in Successful /\ row[d].kind = "full"
    BY <1>3, <2>2 DEF ChainInv
  <2>3. CASE d \in Successful /\ row[d].kind # "full"
    <3>1. /\ row[d].base \in Fulls /\ row[row[d].base].at < row[d].at
          /\ \A f \in Fulls : row[f].at < row[d].at => row[f].at <= row[row[d].base].at
      BY <2>3 DEF ChainInv
    <3>2. \A f \in Fulls' : row'[f].at < row'[d].at => f \in Fulls
      BY <1>1, <1>3, <1>4, <1>6, <2>3
    <3>3. \A f \in Fulls : row'[f] = row[f]
      BY <1>3, <1>6
    <3> QED BY <1>3, <1>6, <2>3, <3>1, <3>2, <3>3
  <2> QED BY <2>1, <2>2, <2>3
<1> QED BY <1>5, <1>7

(* Without database errors a run ends with its record saved.               *)
LEMMA FinalSaved ==
  ASSUME TypeOK, Undisturbed, NEW r \in Records, FinalSave(r)
  PROVE  /\ \E t \in Targets \cup {NoTarget} : row' = [row EXCEPT ![r] = Final(r, t)]
         /\ clock' = clock + 1 /\ exec[r].pc = "saving" /\ exec'[r] = NoExec
<1>1. exec[r].copies \in SUBSET Targets
  BY StartTypes DEF Exec
<1>2. PICK t \in Targets \cup {NoTarget} : row' = [row EXCEPT ![r] = Final(r, t)] /\ clock' = clock + 1
  BY <1>1, SelectedType, NoFaults DEF FinalSave
<1> QED BY <1>2, StartTypes DEF FinalSave, SetExec

LEMMA KeptExec ==
  ASSUME Undisturbed, KeptInv, NEW r \in Records, ExecStep(r), HoldInv'
  PROVE  KeptInv'
<1>a. /\ TypeOK /\ StageInv /\ RunInv /\ HoldInv /\ TimesInv /\ ChainInv /\ aged = {}
      /\ BaseInv
  BY DEF KeptInv, HoldInv, RunInv
<1>b. /\ UNCHANGED <<op, aged>> /\ r \in Executing
      /\ \A q \in Records \ {r} :
           exec'[q] = exec[q] /\ upload'[q] = upload[q] /\ row'[q] = row[q]
  BY <1>a, ExecFrame
<1>c. \A q \in Records \ {r} : q \notin Executing
  BY <1>a, <1>b DEF RunInv, RecordInv
<1>d. DeleteInv'
  BY <1>a, <1>b, HandsIdle DEF DeleteInv
<1>e. \A t \in Targets : upload'[r][t].todo = {}
  <2>1. CASE Collect(r)
    <3>1. \A t \in Targets : upload'[r][t] = NoUpload
      BY <1>a, <2>1, StartTypes DEF Collect
    <3> QED BY <3>1 DEF NoUpload
  <2>2. CASE ~Collect(r)
    <3>1. exec[r].pc # "uploading"
      BY <2>2 DEF ExecStep, Resolve, Hooks, FinalRead, FinalSave
    <3>2. \A t \in Targets : upload[r][t] = NoUpload
      BY <1>a, <3>1 DEF StageInv
    <3> QED BY <1>a, <3>2, ExecStages DEF NoUpload
  <2> QED BY <2>1, <2>2
<1>f. \A x \in Records, t \in Targets : upload'[x][t].todo = {}
  <2>1. \A x \in Records \ {r}, t \in Targets : upload[x][t] = NoUpload
    BY <1>a, <1>c DEF StageInv, Executing
  <2> QED BY <1>b, <1>e, <2>1 DEF NoUpload
<1>g. TodoInv'
  BY <1>f DEF TodoInv, Releasable
<1>1. CASE ~FinalSave(r)
  <2>1. UNCHANGED <<row, clock>>
    BY <1>1 DEF ExecStep, Resolve, Collect, Hooks, FinalRead
  <2>2. Successful' = Successful
    BY <2>1, SameRows
  <2>3. TimesInv' /\ ChainInv' /\ Fulls' = Fulls
    BY <1>a, <2>1, <2>2, SameSuccess
  <2>4. exec'[r].base = NoRec \/ NewestFull(exec'[r].base)
    <3>1. exec[r].base = NoRec \/ NewestFull(exec[r].base)
      BY <1>a, <1>b DEF BaseInv
    <3>2. \A e : SetExec(r, e) => exec'[r] = e
      BY <1>a, StartTypes DEF SetExec
    <3>3. CASE Resolve(r)
      <4>1. \A b \in Bases : b = NoRec \/ NewestFull(b)
        BY DEF Bases, NewestFull
      <4>2. CASE SetExec(r, [exec[r] EXCEPT !.pc = "closing"])
        BY <1>a, <3>1, <3>2, <4>2, StartTypes DEF Exec
      <4>3. CASE \E b \in Bases : SetExec(r, [exec[r] EXCEPT !.pc = "uploading", !.base = b])
        <5>1. PICK b \in Bases : SetExec(r, [exec[r] EXCEPT !.pc = "uploading", !.base = b])
          BY <4>3
        <5>2. exec'[r].base = b
          BY <1>a, <3>2, <5>1, StartTypes DEF Exec
        <5> QED BY <4>1, <5>2
      <4> QED BY <3>3, <4>2, <4>3 DEF Resolve
    <3>a. exec[r] \in Exec
      BY <1>a, StartTypes
    <3>4. CASE Collect(r) \/ Hooks(r)
      <4>2. exec'[r].base = exec[r].base
        <5>1. CASE Collect(r)
          <6>1. PICK g, pc : SetExec(r, [exec[r] EXCEPT !.copies = g, !.sent = TRUE, !.pc = pc])
            BY <5>1 DEF Collect
          <6>2. [exec[r] EXCEPT !.copies = g, !.sent = TRUE, !.pc = pc].base = exec[r].base
            BY <3>a DEF Exec
          <6>3. exec'[r] = [exec[r] EXCEPT !.copies = g, !.sent = TRUE, !.pc = pc]
            BY <3>2, <6>1
          <6> QED BY <6>2, <6>3
        <5>2. CASE Hooks(r)
          <6>1. [exec[r] EXCEPT !.pc = "closing"].base = exec[r].base
            BY <3>a DEF Exec
          <6>2. exec'[r] = [exec[r] EXCEPT !.pc = "closing"]
            BY <3>2, <5>2 DEF Hooks
          <6> QED BY <6>1, <6>2
        <5> QED BY <3>4, <5>1, <5>2
      <4> QED BY <3>1, <4>2
    <3>5. CASE FinalRead(r)
      <4>0. [exec[r] EXCEPT !.pc = "saving", !.seen = row[r]].base = exec[r].base
        BY <3>a DEF Exec
      <4>1. exec'[r].base = exec[r].base \/ exec'[r] = NoExec
        BY <3>2, <3>5, <4>0 DEF FinalRead
      <4> QED BY <3>1, <4>1 DEF NoExec
    <3> QED BY <1>1, <3>3, <3>4, <3>5 DEF ExecStep
  <2>5. BaseInv'
    <3> SUFFICES ASSUME NEW x \in Records, x \in Executing', exec'[x].base # NoRec
                 PROVE  exec'[x].base \in Fulls' /\ \A f \in Fulls' : row'[f].at <= row'[exec'[x].base].at
      BY DEF BaseInv, NewestFull, Executing
    <3>1. x = r
      BY <1>b, <1>c DEF Executing
    <3> QED BY <2>1, <2>3, <2>4, <3>1 DEF NewestFull
  <2> QED BY <1>a, <1>b, <1>d, <1>g, <2>3, <2>5 DEF KeptInv
<1>2. CASE FinalSave(r)
  <2>1. PICK t \in Targets \cup {NoTarget} : row' = [row EXCEPT ![r] = Final(r, t)]
    BY <1>2, <1>a, FinalSaved
  <2>2. clock' = clock + 1 /\ exec'[r] = NoExec
    BY <1>2, <1>a, FinalSaved
  <2>3. r \in Records \ Successful
    BY <1>a, <1>b DEF RunInv, RecordInv, Running, Successful
  <2>4. BaseInv'
    BY <1>b, <1>c, <2>2 DEF BaseInv, Executing, NoExec
  <2>5. TimesInv' /\ ChainInv'
    <3>1. CASE exec[r].copies = {}
      <4>1. Final(r, t).status = "failed"
        BY <1>a, <3>1, FinalFields
      <4>2. row'[r].status = "failed"
        BY <1>a, <2>1, <4>1, StartTypes
      <4>3. Successful' = Successful /\ \A p \in Successful : row'[p] = row[p]
        BY <1>b, <2>3, <4>2 DEF Successful
      <4>4. ChainInv'
        <5>1. Fulls' = Fulls /\ Fulls \subseteq Successful
          BY <4>3 DEF Fulls
        <5> QED BY <1>a, <4>3, <5>1 DEF ChainInv
      <4>5. TimesInv'
        <5>1. 1..clock \subseteq 1..clock'
          BY <1>a, <2>2, SuccessTypes
        <5> QED BY <1>a, <4>3, <5>1 DEF TimesInv
      <4> QED BY <4>4, <4>5
    <3>2. CASE exec[r].copies # {}
      <4> DEFINE w == Final(r, t)
      <4>1. /\ w.status = "success" /\ w.base = exec[r].base /\ w.at = clock + 1
            /\ w.kind = IF exec[r].base = NoRec THEN "full" ELSE "differential"
        BY <1>a, <3>2, FinalFields
      <4>2. row' = [row EXCEPT ![r] = w]
        BY <2>1
      <4>3. exec[r].base = NoRec \/ NewestFull(exec[r].base)
        BY <1>a, <1>b DEF BaseInv
      <4> HIDE DEF w
      <4> QED BY <1>a, <2>2, <2>3, <4>1, <4>2, <4>3, OneCompleted
    <3> QED BY <3>1, <3>2
  <2> QED BY <1>a, <1>b, <1>d, <1>g, <2>4, <2>5 DEF KeptInv
<1> QED BY <1>1, <1>2

(* What a request writes.                                                  *)
LEMMA OpWrites ==
  ASSUME HoldInv, NEW o \in Operators, OpStep(o)
  PROVE  \/ UNCHANGED row
         \/ /\ op[o].pc = "drop" /\ op[o].rec \in Records
            /\ row' = [row EXCEPT ![op[o].rec].status = "deleted"]
            /\ row[op[o].rec].status \in Finished
            /\ op'[o].pc = "idle"
         \/ /\ op[o].pc = "lock"
            /\ \A r \in Records : \E b : row'[r] = [row[r] EXCEPT !.locked = b]
<1>a. TypeOK /\ HandsInv /\ row \in [Records -> Row] /\ op \in [Operators -> Op]
  BY StartTypes DEF HoldInv, RunInv
<1>b. op[o].pc # "idle" => op[o].rec \in Records /\ op[o].seen.status \in Finished /\ op[o].seen = row[op[o].rec]
  BY <1>a DEF HoldInv, RunInv, OpInv, Settled, HandsInv
<1>1. CASE DeleteRow(o)
  BY <1>1, <1>a, <1>b DEF DeleteRow, Done, NoOp
<1>2. CASE LockSave(o)
  <2>1. CASE UNCHANGED row
    BY <2>1
  <2>2. CASE ~(UNCHANGED row)
    <3>1. PICK b : row' = [row EXCEPT ![op[o].rec] = [op[o].seen EXCEPT !.locked = b]]
      BY <1>2, <2>2 DEF LockSave
    <3>2. ASSUME NEW r \in Records PROVE \E x : row'[r] = [row[r] EXCEPT !.locked = x]
      <4>1. CASE r = op[o].rec
        BY <1>2, <1>a, <1>b, <3>1, <4>1 DEF LockSave
      <4>2. CASE r # op[o].rec
        <5>1. row'[r] = row[r]
          BY <1>a, <3>1, <4>2
        <5>2. row[r] = [row[r] EXCEPT !.locked = row[r].locked]
          BY <1>a DEF Row
        <5> QED BY <5>1, <5>2
      <4> QED BY <4>1, <4>2
    <3> QED BY <1>2, <3>2 DEF LockSave
  <2> QED BY <2>1, <2>2
<1>3. CASE ~DeleteRow(o) /\ ~LockSave(o)
  BY <1>3 DEF OpStep, DeleteRead, DeleteCheck, DeleteObject, LockRead, Take
<1> QED BY <1>1, <1>2, <1>3

(* A request that goes on to delete has found no dependents.               *)
LEMMA DeleteDecided ==
  ASSUME KeptInv, NEW o \in Operators, OpStep(o), UNCHANGED row, op'[o].pc \in {"remove", "drop"}
  PROVE  \A d \in Successful : row[d].base # op'[o].rec
<1>a. TypeOK /\ HandsInv /\ op \in [Operators -> Op] /\ ChainInv /\ DeleteInv
  BY StartTypes DEF KeptInv, HoldInv, RunInv
<1>1. CASE DeleteCheck(o)
  <2>1. /\ op[o].pc = "check" /\ op' = [op EXCEPT ![o].pc = "remove"]
        /\ ~(op[o].seen.kind = "full" /\ Dependents(op[o].rec) # {})
    BY <1>1, <1>a DEF DeleteCheck, Done, NoOp
  <2>2. op'[o].rec = op[o].rec /\ op[o].rec \in Records /\ op[o].seen = row[op[o].rec]
    <3>1. op'[o].rec = op[o].rec
      BY <1>a, <2>1 DEF Op
    <3>2. op[o].rec \in Records
      BY <2>1 DEF KeptInv, HoldInv, RunInv, OpInv, Settled
    <3> QED BY <1>a, <2>1, <3>1, <3>2 DEF HandsInv
  <2> SUFFICES ASSUME NEW d \in Successful, row[d].base = op[o].rec PROVE FALSE
    BY <2>2
  <2>3. row[d].kind = "differential" /\ op[o].rec \in Fulls
    BY <1>a, <2>2, SuccessTypes DEF ChainInv
  <2>4. d \in Dependents(op[o].rec) /\ op[o].seen.kind = "full"
    BY <2>2, <2>3 DEF Dependents, Fulls
  <2> QED BY <2>1, <2>4
<1>2. CASE DeleteObject(o)
  <2>1. op[o].pc = "remove" /\ op' = [op EXCEPT ![o].pc = "drop"]
    BY <1>2, <1>a DEF DeleteObject, Done, NoOp
  <2>2. op'[o].rec = op[o].rec
    BY <1>a, <2>1 DEF Op
  <2> QED BY <1>a, <2>1, <2>2 DEF DeleteInv
<1>3. CASE ~DeleteCheck(o) /\ ~DeleteObject(o)
  <2>1. Done(o) \/ \E r \in Records, pc \in {"check", "lock"} : Take(o, r, pc)
    BY <1>3 DEF OpStep, DeleteRead, DeleteRow, LockRead, LockSave
  <2>2. op'[o].pc \in {"idle", "check", "lock"}
    BY <1>a, <2>1 DEF Done, Take, NoOp
  <2> QED BY <2>2
<1> QED BY <1>1, <1>2, <1>3

LEMMA KeptOp ==
  ASSUME Reach = "idle", OneOperator, Undisturbed, KeptInv, NEW o \in Operators, OpStep(o), HoldInv'
  PROVE  KeptInv'
<1>a. TypeOK /\ HoldInv /\ TimesInv /\ ChainInv /\ aged = {} /\ row \in [Records -> Row]
  BY StartTypes DEF KeptInv, HoldInv, RunInv
<1>b. /\ UNCHANGED <<aged, exec, upload, clock>> /\ Executing = {}
      /\ \A r \in Records, t \in Targets : upload[r][t] = NoUpload
  BY <1>a, OpFrame
<1>c. BaseInv' /\ TodoInv'
  BY <1>b DEF BaseInv, TodoInv, Releasable, NoUpload, Executing
<1>1. CASE UNCHANGED row
  <2>1. Successful' = Successful
    BY <1>1, SameRows
  <2>2. TimesInv' /\ ChainInv'
    BY <1>1, <1>a, <1>b, <2>1, SameSuccess
  <2>3. DeleteInv'
    BY <1>1, <2>1, DeleteDecided DEF DeleteInv, OneOperator
  <2> QED BY <1>a, <1>b, <1>c, <2>2, <2>3 DEF KeptInv
<1>2. CASE op[o].pc = "drop" /\ op[o].rec \in Records /\ op'[o].pc = "idle"
             /\ row' = [row EXCEPT ![op[o].rec].status = "deleted"]
  <2>1. \A d \in Successful : row[d].base # op[o].rec
    BY <1>2 DEF KeptInv, DeleteInv
  <2>2. TimesInv' /\ ChainInv'
    BY <1>2, <1>a, <1>b, <2>1, OneDeleted
  <2>3. DeleteInv'
    BY <1>2 DEF DeleteInv, OneOperator
  <2> QED BY <1>a, <1>b, <1>c, <2>2, <2>3 DEF KeptInv
<1>3. CASE op[o].pc = "lock" /\ \A r \in Records : \E b : row'[r] = [row[r] EXCEPT !.locked = b]
  <2>1. \A r \in Records : /\ row'[r].at = row[r].at /\ row'[r].kind = row[r].kind
                           /\ row'[r].base = row[r].base /\ row'[r].status = row[r].status
    <3> TAKE r \in Records
    <3>1. PICK b : row'[r] = [row[r] EXCEPT !.locked = b]
      BY <1>3
    <3>2. row[r] \in Row
      BY <1>a
    <3> QED BY <3>1, <3>2 DEF Row
  <2>2. Successful' = Successful /\ Successful \subseteq Records
    BY <2>1 DEF Successful
  <2>3. TimesInv' /\ ChainInv'
    BY <1>a, <1>b, <2>1, <2>2, SameSuccess
  <2>4. op'[o].pc \notin {"remove", "drop"}
    <3>1. LockSave(o)
      BY <1>3 DEF OpStep, DeleteRead, DeleteCheck, DeleteObject, DeleteRow, LockRead, Take
    <3> QED BY <1>a, <3>1, StartTypes DEF LockSave, Done, NoOp
  <2>5. DeleteInv'
    BY <2>4 DEF DeleteInv, OneOperator
  <2> QED BY <1>a, <1>b, <1>c, <2>3, <2>5 DEF KeptInv
<1> QED BY <1>a, <1>1, <1>2, <1>3, OpWrites

LEMMA KeptRestart ==
  ASSUME KeptInv, MasterRestart, HoldInv'
  PROVE  KeptInv'
<1>a. TypeOK /\ TimesInv /\ ChainInv /\ aged = {} /\ row \in [Records -> Row]
  BY StartTypes DEF KeptInv, HoldInv, RunInv
<1>1. \A r \in Records : row'[r] = IF r \in Running THEN [row[r] EXCEPT !.status = "failed"] ELSE row[r]
  BY DEF MasterRestart
<1>2. Successful' = Successful /\ \A r \in Successful : row'[r] = row[r]
  <2>1. \A r \in Running : row'[r].status = "failed"
    BY <1>a, <1>1 DEF Running, Row
  <2>2. \A r \in Records \ Running : row'[r] = row[r]
    BY <1>1
  <2> QED BY <2>1, <2>2 DEF Successful, Running
<1>3. TimesInv' /\ ChainInv'
  BY <1>a, <1>2, SameSuccess DEF MasterRestart
<1>4. BaseInv' /\ TodoInv' /\ DeleteInv' /\ aged' = {}
  BY <1>a DEF MasterRestart, BaseInv, TodoInv, Releasable, DeleteInv, Executing, NoExec, NoUpload, NoOp
<1> QED BY <1>3, <1>4 DEF KeptInv

LEMMA KeptNext ==
  ASSUME Reach = "idle", OneOperator, Undisturbed, KeptInv, [Next]_vars
  PROVE  KeptInv'
<1>1. HoldInv'
  BY HoldNext DEF KeptInv
<1>2. CASE UNCHANGED vars
  <2>1. UNCHANGED <<row, exec, upload, op, aged, clock>>
    BY <1>2 DEF vars
  <2>2. Successful' = Successful /\ Executing' = Executing /\ Fulls' = Fulls
    BY <2>1 DEF Successful, Executing, Fulls
  <2> QED BY <1>1, <2>1, <2>2 DEF KeptInv, TimesInv, ChainInv, BaseInv, NewestFull, TodoInv, Releasable, DeleteInv
<1>3. ~Age
  BY NoFaults DEF Age
<1> QED BY <1>1, <1>2, <1>3, KeptStart, KeptUpload, KeptExec, KeptOp, KeptRestart DEF Next

LEMMA KeptSpec ==
  ASSUME Reach = "idle", OneOperator, Undisturbed
  PROVE  Spec => []KeptInv
<1>1. KeptInv /\ [Next]_vars => KeptInv'
  BY KeptNext
<1> QED BY <1>1, KeptInit, PTL DEF Spec

(* A differential backup and its base stay together.                       *)
THEOREM ChainIntactHolds ==
  ASSUME Reach = "idle", OneOperator, Undisturbed
  PROVE  Spec => []ChainIntact
<1>1. KeptInv => ChainIntact
  <2> SUFFICES ASSUME KeptInv, NEW r \in Successful, row[r].kind = "differential"
               PROVE  row[r].base \in Successful
    BY DEF ChainIntact
  <2> QED BY DEF KeptInv, ChainInv, Fulls
<1> QED BY <1>1, KeptSpec, PTL

-----------------------------------------------------------------------------
(* The catalog.  One record changes in a step, and the changes are those   *)
(* of the abstract catalog.                                                *)

LEMMA CatalogStep ==
  ASSUME TypeOK, TypeOK', NEW q \in Records, \A p \in Records \ {q} : row'[p] = row[p]
  PROVE  /\ [r \in Records |-> row'[r].status] = [[r \in Records |-> row[r].status] EXCEPT ![q] = row'[q].status]
         /\ row'[q].base = row[q].base =>
              [r \in Records |-> row'[r].base] = [r \in Records |-> row[r].base]
         /\ [r \in Records |-> row'[r].base] = [[r \in Records |-> row[r].base] EXCEPT ![q] = row'[q].base]
<1>1. \A r \in Records : row'[r] = IF r = q THEN row'[q] ELSE row[r]
  OBVIOUS
<1> QED BY <1>1

LEMMA CatalogStutter ==
  ASSUME \A r \in Records : row'[r].status = row[r].status /\ row'[r].base = row[r].base
  PROVE  UNCHANGED Catalog!vars
  BY DEF Catalog!vars

LEMMA CatalogBegin ==
  ASSUME TypeOK, TypeOK', NEW r \in Records, row[r].status = "none", Running = {},
         row' = [row EXCEPT ![r].status = "running"]
  PROVE  Catalog!Begin(r)
<1>1. row'[r].status = "running" /\ row'[r].base = row[r].base /\ \A p \in Records \ {r} : row'[p] = row[p]
  BY StartTypes DEF Row
<1>2. \A j \in Records : row[j].status # "running"
  BY DEF Running
<1> QED BY <1>1, <1>2, CatalogStep DEF Catalog!Begin

LEMMA CatalogFail ==
  ASSUME TypeOK, TypeOK', NEW r \in Records, row[r].status = "running", row'[r].status = "failed",
         row'[r].base = row[r].base, \A p \in Records \ {r} : row'[p] = row[p]
  PROVE  Catalog!Fail(r)
  BY CatalogStep DEF Catalog!Fail

LEMMA CatalogComplete ==
  ASSUME TypeOK, TypeOK', NEW r \in Records, NEW b \in Records \cup {NoRec},
         row[r].status = "running", b = NoRec \/ b \in Successful,
         row'[r].status = "success", row'[r].base = b, \A p \in Records \ {r} : row'[p] = row[p]
  PROVE  Catalog!Complete(r, b)
  BY CatalogStep DEF Catalog!Complete, Successful

LEMMA CatalogRemove ==
  ASSUME TypeOK, TypeOK', NEW q \in Records, row[q].status \in Finished,
         \A d \in Successful : row[d].base # q, row' = [row EXCEPT ![q].status = "deleted"]
  PROVE  Catalog!Remove(q)
<1>1. row'[q].status = "deleted" /\ row'[q].base = row[q].base /\ \A p \in Records \ {q} : row'[p] = row[p]
  BY StartTypes DEF Row
<1>2. \A j \in Records : row[j].status = "success" => row[j].base # q
  BY DEF Successful
<1> QED BY <1>1, <1>2, CatalogStep DEF Catalog!Remove, Finished

LEMMA CatalogNext ==
  ASSUME Reach = "idle", OneOperator, Undisturbed, KeptInv, [Next]_vars
  PROVE  [Catalog!Next]_(Catalog!vars)
<1>a. TypeOK /\ RunInv /\ HoldInv /\ StageInv /\ row \in [Records -> Row]
  BY StartTypes DEF KeptInv, HoldInv, RunInv
<1>b. TypeOK'
  BY <1>a, TypeNext
<1>c. ASSUME UNCHANGED row PROVE UNCHANGED Catalog!vars
  BY <1>c, CatalogStutter
<1>1. ASSUME NEW c \in Callers, StartStep(c) PROVE [Catalog!Next]_(Catalog!vars)
  <2>1. CASE UNCHANGED row
    BY <1>c, <2>1
  <2>2. CASE ~(UNCHANGED row)
    <3>1. caller[c].pc = "checked" /\ \E r \in Records : row[r].status = "none" /\ row' = [row EXCEPT ![r].status = "running"]
      BY <1>1, <2>2 DEF StartStep, StartCheck, StartCreate, StartLaunch, StartAborted
    <3>2. Running = {}
      BY <1>a, <3>1 DEF RunInv, CallerInv
    <3>3. \E r \in Records : Catalog!Begin(r)
      BY <1>a, <1>b, <3>1, <3>2, CatalogBegin
    <3> QED BY <3>3 DEF Catalog!Next
  <2> QED BY <2>1, <2>2
<1>2. ASSUME NEW r \in Records, ExecStep(r) PROVE [Catalog!Next]_(Catalog!vars)
  <2>1. CASE ~FinalSave(r)
    BY <1>2, <1>c, <2>1 DEF ExecStep, Resolve, Collect, Hooks, FinalRead
  <2>2. CASE FinalSave(r)
    <3>1. PICK t \in Targets \cup {NoTarget} : row' = [row EXCEPT ![r] = Final(r, t)]
      BY <1>a, <2>2, FinalSaved
    <3>2. row'[r] = Final(r, t) /\ \A p \in Records \ {r} : row'[p] = row[p]
      BY <1>a, <3>1
    <3>3. r \in Executing /\ row[r].status = "running" /\ exec[r].pc = "saving"
      BY <1>a, <2>2 DEF FinalSave, Executing, RunInv, RecordInv, Running
    <3>4. CASE exec[r].copies = {}
      <4>1. row'[r].status = "failed" /\ row'[r].base = row[r].base
        BY <1>a, <3>2, <3>3, <3>4, FinalFields DEF StageInv
      <4>2. Catalog!Fail(r)
        BY <1>a, <1>b, <3>2, <3>3, <4>1, CatalogFail
      <4> QED BY <4>2 DEF Catalog!Next
    <3>5. CASE exec[r].copies # {}
      <4>1. PICK b \in Records \cup {NoRec} : b = exec[r].base
        BY <1>a, StartTypes DEF Exec
      <4>2. row'[r].status = "success" /\ row'[r].base = b
        BY <1>a, <3>2, <3>5, <4>1, FinalFields
      <4>3. b = NoRec \/ b \in Successful
        BY <3>3, <4>1 DEF KeptInv, BaseInv, NewestFull, Fulls
      <4>4. Catalog!Complete(r, b)
        BY <1>a, <1>b, <3>2, <3>3, <4>2, <4>3, CatalogComplete
      <4> QED BY <4>4 DEF Catalog!Next
    <3> QED BY <3>4, <3>5
  <2> QED BY <2>1, <2>2
<1>3. ASSUME NEW r \in Records, NEW t \in Targets, UploadStep(r, t) PROVE [Catalog!Next]_(Catalog!vars)
  <2>1. CASE UNCHANGED row
    BY <1>c, <2>1
  <2>2. CASE ~(UNCHANGED row)
    <3>1. PICK q \in NextOf(upload[r][t].todo) : row' = [row EXCEPT ![q].status = "deleted"]
      BY <1>3, <2>2, NoFaults DEF UploadStep, Send, CleanList, CleanObject, CleanRow
    <3>2. q \in Records /\ q \in upload[r][t].todo /\ \A d \in upload[r][t].todo : row[d].at <= row[q].at
      BY <1>a, <3>1 DEF NextOf, RunInv, CleanInv, Settled
    <3>3. /\ row[q].status \in {"success", "deleted"}
          /\ \A d \in Successful : row[d].base = q => d \in upload[r][t].todo /\ row[q].at < row[d].at
      BY <3>2 DEF KeptInv, TodoInv, Releasable
    <3>4. \A d \in Successful : row[d].base # q
      BY <1>a, <3>2, <3>3, SuccessTypes
    <3>5. row[q].status = "success"
      <4>1. row[q].status = "deleted" => [row EXCEPT ![q].status = "deleted"] = row
        BY <1>a, <3>2 DEF Row
      <4> QED BY <2>2, <3>1, <3>3, <4>1
    <3>6. Catalog!Remove(q)
      BY <1>a, <1>b, <3>1, <3>2, <3>4, <3>5, CatalogRemove DEF Finished
    <3> QED BY <3>2, <3>6 DEF Catalog!Next
  <2> QED BY <2>1, <2>2
<1>4. ASSUME NEW o \in Operators, OpStep(o) PROVE [Catalog!Next]_(Catalog!vars)
  <2>1. CASE UNCHANGED row
    BY <1>c, <2>1
  <2>2. CASE /\ op[o].pc = "drop" /\ op[o].rec \in Records
             /\ row' = [row EXCEPT ![op[o].rec].status = "deleted"]
             /\ row[op[o].rec].status \in Finished
    <3>1. PICK q \in Records : q = op[o].rec
      BY <2>2
    <3>2. \A d \in Successful : row[d].base # q
      BY <1>4, <2>2, <3>1 DEF KeptInv, DeleteInv
    <3>3. row[q].status \in Finished /\ row' = [row EXCEPT ![q].status = "deleted"]
      BY <2>2, <3>1
    <3>4. Catalog!Remove(q)
      BY <1>a, <1>b, <3>2, <3>3, CatalogRemove
    <3> QED BY <3>4 DEF Catalog!Next
  <2>3. CASE \A r \in Records : \E b : row'[r] = [row[r] EXCEPT !.locked = b]
    <3>1. \A r \in Records : row'[r].status = row[r].status /\ row'[r].base = row[r].base
      BY <1>a, <2>3 DEF Row
    <3> QED BY <3>1, CatalogStutter
  <2> QED BY <1>a, <1>4, <2>1, <2>2, <2>3, OpWrites
<1>5. CASE MasterRestart
  <2>1. \A r \in Records : row'[r] = IF r \in Running THEN [row[r] EXCEPT !.status = "failed"] ELSE row[r]
    BY <1>5 DEF MasterRestart
  <2>2. CASE Running = {}
    BY <2>1, <2>2, CatalogStutter
  <2>3. CASE Running # {}
    <3>1. PICK r \in Running : TRUE
      BY <2>3
    <3>2. r \in Records /\ row[r].status = "running" /\ \A p \in Records \ {r} : p \notin Running
      BY <1>a DEF RunInv, RecordInv, Running
    <3>3. row'[r].status = "failed" /\ row'[r].base = row[r].base /\ \A p \in Records \ {r} : row'[p] = row[p]
      BY <1>a, <2>1, <3>2 DEF Row
    <3>4. Catalog!Fail(r)
      BY <1>a, <1>b, <3>2, <3>3, CatalogFail
    <3> QED BY <3>2, <3>4 DEF Catalog!Next
  <2> QED BY <2>2, <2>3
<1>6. CASE Age \/ UNCHANGED vars
  BY <1>6, <1>c DEF Age, vars
<1> QED BY <1>1, <1>2, <1>3, <1>4, <1>5, <1>6 DEF Next

(* The runs implement the catalog: one backup at a time; a differential is *)
(* completed only while its base is there, and a base is removed only when *)
(* no differential is left, by retention, by hand and over restarts.       *)
THEOREM Implementation ==
  ASSUME Reach = "idle", OneOperator, Undisturbed
  PROVE  Spec => ImplementsCatalog
<1>1. Init => Catalog!Init
  BY DEF Init, Catalog!Init, Blank
<1>2. KeptInv /\ [Next]_vars => [Catalog!Next]_(Catalog!vars)
  BY CatalogNext
<1> QED BY <1>1, <1>2, KeptSpec, PTL DEF Spec, Catalog!Spec, ImplementsCatalog

-----------------------------------------------------------------------------
(* The objects.  With one target, and without faults after the start of a  *)
(* run, the target holds exactly the artifact of the run in progress, once *)
(* it is sent, and those of the successful records that are not being      *)
(* removed: an object appears before its record is successful, and         *)
(* disappears before its record is deleted.                                *)
Faultless == Hazards \subseteq {"shutdown"}
OneTarget == Targets = {Main}

\* The artifact of a run has been stored.
Sent(r) == upload[r][Main].pc \in {"listing", "cleaning", "dropping", "ok"} \/ exec[r].copies # {}

SentInv == \A r \in Records : exec[r].pc \in {"none", "queued", "uploading"} => exec[r].copies = {}
ListInv == \A r \in Records : upload[r][Main].todo \subseteq Successful
StoredInv ==
  \A r \in Records : <<r, Main>> \in stored <=>
    \/ r \in Running /\ Sent(r)
    \/ r \in Successful /\ ~BeingRemoved(r)

ObjectsInv == KeptInv /\ CopyInv /\ SentInv /\ ListInv /\ StoredInv

LEMMA ObjectsInit == Init => ObjectsInv
<1> SUFFICES ASSUME Init PROVE ObjectsInv
  OBVIOUS
<1>1. Successful = {} /\ Running = {} /\ stored = {}
  BY DEF Init, Successful, Running, Blank
<1>2. StoredInv
  BY <1>1 DEF StoredInv
<1>3. SentInv /\ ListInv
  BY BackupRunsAssumption DEF SentInv, ListInv, Init, NoExec, NoUpload
<1> QED BY <1>2, <1>3, KeptInit, CopyInit DEF ObjectsInv

LEMMA FaultlessRuns ==
  ASSUME Faultless
  PROVE  Undisturbed /\ ~MasterRestart /\ \A k \in {"db", "storage", "restart"} : ~Fault(k)
  BY DEF Faultless, Undisturbed, MasterRestart, Fault

(* Who removes: the retention of the one run, or the one operator.         *)
LEMMA RemovedByRun ==
  ASSUME OneTarget, ObjectsInv, NEW r \in Executing, NEW q
  PROVE  BeingRemoved(q) <=> upload[r][Main].pc = "dropping" /\ q \in NextOf(upload[r][Main].todo)
<1>1. \A o \in Operators : op[o].pc = "idle"
  BY HandsIdle DEF ObjectsInv, KeptInv
<1>2. \A x \in Records \ {r} : upload[x][Main] = NoUpload
  <2>1. \A x \in Records \ {r} : exec[x].pc = "none"
    BY DEF ObjectsInv, KeptInv, HoldInv, RunInv, RecordInv, Executing
  <2> QED BY <2>1, BackupRunsAssumption DEF ObjectsInv, KeptInv, HoldInv, StageInv
<1>3. r \in Records
  BY DEF Executing
<1> QED BY <1>1, <1>2, <1>3, BackupRunsAssumption DEF BeingRemoved, OneTarget, NoUpload

(* A step of startTask.                                                    *)
LEMMA ObjectsStart ==
  ASSUME ObjectsInv, OneTarget, NEW c \in Callers, StartStep(c), KeptInv', CopyInv'
  PROVE  ObjectsInv'
<1>a. /\ TypeOK /\ StageInv /\ RunInv /\ HoldInv /\ SentInv /\ ListInv /\ StoredInv
      /\ row \in [Records -> Row] /\ Main \in Targets
  BY StartTypes, BackupRunsAssumption DEF ObjectsInv, KeptInv, HoldInv, RunInv
<1>b. UNCHANGED <<stored, upload, op>>
  BY DEF StartStep, StartCheck, StartCreate, StartLaunch, StartAborted
<1>c. /\ \A x \in Records : exec'[x].copies = exec[x].copies
      /\ \A x \in Records : exec'[x].pc # exec[x].pc => exec[x].copies = {}
  <2>1. CASE StartLaunch(c)
    <3>1. exec[caller[c].rec].pc = "none" /\ caller[c].rec \in Records
      BY <1>a, <2>1 DEF StartLaunch, RunInv, CallerInv, Executing, Running
    <3>2. \E pc : exec' = [exec EXCEPT ![caller[c].rec].pc = pc]
      BY <2>1 DEF StartLaunch
    <3> QED BY <1>a, <3>1, <3>2, StartTypes DEF Exec, SentInv
  <2>2. CASE ~StartLaunch(c)
    BY <2>2 DEF StartStep, StartCheck, StartCreate, StartAborted
  <2> QED BY <2>1, <2>2
<1>d. SentInv'
  BY <1>a, <1>c DEF SentInv
<1>e. \A x \in Records : (Sent(x)' <=> Sent(x))
  BY <1>b, <1>c DEF Sent
<1>1. CASE UNCHANGED row
  <2>1. Successful' = Successful /\ Running' = Running
    BY <1>1, SameRows
  <2>2. \A x \in Records : (BeingRemoved(x)' <=> BeingRemoved(x))
    BY <1>1, <1>b DEF BeingRemoved, NextOf
  <2>3. StoredInv' /\ ListInv'
    BY <1>a, <1>b, <1>e, <2>1, <2>2 DEF StoredInv, ListInv
  <2> QED BY <1>d, <2>3 DEF ObjectsInv
<1>2. CASE ~(UNCHANGED row)
  <2>1. PICK r \in Records : row[r].status = "none" /\ row' = [row EXCEPT ![r].status = "running"]
    BY <1>2 DEF StartStep, StartCheck, StartCreate, StartLaunch, StartAborted
  <2>2. caller[c].pc = "checked"
    BY <1>2 DEF StartStep, StartCheck, StartCreate, StartLaunch, StartAborted
  <2>3. lock # None /\ Running = {} /\ Executing = {}
    BY <1>a, <2>2, BackupRunsAssumption DEF RunInv, CallerInv, RecordInv
  <2>4. \A x \in Records, t \in Targets : upload[x][t] = NoUpload
    BY <1>a, <2>3 DEF StageInv, Executing
  <2>5. \A o \in Operators : op[o].pc = "idle"
    BY <1>a, <2>3, HandsIdle
  <2>6. \A x : ~BeingRemoved(x) /\ ~BeingRemoved(x)'
    BY <1>b, <2>4, <2>5 DEF BeingRemoved, NoUpload
  <2>7. \A x \in Records : ~Sent(x)
    BY <1>a, <2>3, <2>4 DEF Sent, SentInv, Executing, NoUpload
  <2>8. Successful' = Successful
    BY <1>a, <2>1 DEF Successful, Row
  <2>9. StoredInv'
    BY <1>a, <1>b, <1>e, <2>3, <2>6, <2>7, <2>8 DEF StoredInv
  <2>10. ListInv'
    BY <1>a, <1>b, <2>8 DEF ListInv
  <2> QED BY <1>d, <2>9, <2>10 DEF ObjectsInv
<1> QED BY <1>1, <1>2

(* A step of the uploads and the retention of the run.                     *)
LEMMA ObjectsUpload ==
  ASSUME ObjectsInv, OneTarget, Faultless, NEW r \in Records, UploadStep(r, Main), KeptInv', CopyInv'
  PROVE  ObjectsInv'
<1>a. /\ TypeOK /\ StageInv /\ RunInv /\ HoldInv /\ SentInv /\ ListInv /\ StoredInv /\ TimesInv
      /\ row \in [Records -> Row] /\ Main \in Targets
  BY StartTypes, BackupRunsAssumption DEF ObjectsInv, KeptInv, HoldInv, RunInv
<1>b. /\ UNCHANGED <<op, exec>> /\ r \in Executing /\ exec[r].pc = "uploading"
      /\ \A x \in Records \ {r} : upload'[x][Main] = upload[x][Main]
  BY <1>a, UploadFrame
<1>c. r \in Running /\ r \notin Successful /\ exec[r].copies = {}
  BY <1>a, <1>b DEF RunInv, RecordInv, Running, Successful, SentInv
<1>d. SentInv'
  BY <1>a, <1>b DEF SentInv
<1>e. \A x \in Records \ {r} : (Sent(x)' <=> Sent(x))
  BY <1>b DEF Sent
<1>f. \A q : BeingRemoved(q) <=> upload[r][Main].pc = "dropping" /\ q \in NextOf(upload[r][Main].todo)
  BY <1>b, RemovedByRun
<1>g. \A q : BeingRemoved(q)' <=> upload'[r][Main].pc = "dropping" /\ q \in NextOf(upload[r][Main].todo)'
  <2>1. \A o \in Operators : op'[o].pc = "idle"
    BY <1>a, <1>b, HandsIdle
  <2>2. \A x \in Records \ {r} : upload[x][Main] = NoUpload
    BY <1>a, <1>b DEF StageInv, RunInv, RecordInv, Executing
  <2> QED BY <1>a, <1>b, <2>1, <2>2 DEF BeingRemoved, OneTarget, NoUpload
<1>h. \A pc, todo : SetUpload(r, Main, pc, todo) => upload'[r][Main].pc = pc /\ upload'[r][Main].todo = todo
  BY <1>a, StartTypes DEF SetUpload
<1>i. Sent(r) <=> upload[r][Main].pc \in {"listing", "cleaning", "dropping", "ok"}
  BY <1>c DEF Sent
<1>j. Sent(r)' <=> upload'[r][Main].pc \in {"listing", "cleaning", "dropping", "ok"}
  BY <1>b, <1>c DEF Sent
<1>k. \A q, p \in NextOf(upload[r][Main].todo) : p = q
  <2>1. \A q, p \in NextOf(upload[r][Main].todo) :
          q \in Successful /\ p \in Successful /\ row[p].at = row[q].at
    BY <1>a, SuccessTypes DEF NextOf, ListInv
  <2> QED BY <1>a, <2>1 DEF TimesInv
<1>l. ASSUME ListInv', StoredInv' PROVE ObjectsInv'
  BY <1>d, <1>l DEF ObjectsInv
<1>m. ASSUME UNCHANGED row PROVE Successful' = Successful /\ Running' = Running
  BY <1>m, SameRows
<1>n. ASSUME Successful' = Successful, upload'[r][Main].todo \subseteq Successful PROVE ListInv'
  BY <1>a, <1>b, <1>n DEF ListInv
<1>1. CASE Send(r, Main)
  <2>1. UNCHANGED row /\ upload[r][Main].pc = "sending"
    BY <1>1 DEF Send
  <2>2. upload'[r][Main].todo = {} /\ upload'[r][Main].pc \in {"listing", "failed"}
    BY <1>1, <1>h DEF Send
  <2>3. stored' = IF upload'[r][Main].pc = "listing" THEN stored \cup {<<r, Main>>} ELSE stored
    <3>1. CASE stored' = stored \cup {<<r, Main>>} /\ SetUpload(r, Main, "listing", {})
      BY <1>h, <3>1
    <3>2. CASE SetUpload(r, Main, "failed", {}) /\ UNCHANGED stored
      BY <1>h, <3>2
    <3> QED BY <1>1, <3>1, <3>2, FaultlessRuns DEF Send
  <2>4. ~Sent(r) /\ (Sent(r)' <=> upload'[r][Main].pc = "listing")
    BY <1>i, <1>j, <2>1, <2>2
  <2>5. \A q : ~BeingRemoved(q) /\ ~BeingRemoved(q)'
    BY <1>f, <1>g, <2>1, <2>2
  <2>6. StoredInv'
    BY <1>a, <1>c, <1>e, <1>m, <2>1, <2>3, <2>4, <2>5 DEF StoredInv
  <2> QED BY <1>l, <1>m, <1>n, <2>1, <2>2, <2>6
<1>2. CASE CleanList(r, Main)
  <2>1. UNCHANGED <<row, stored>> /\ upload[r][Main].pc = "listing"
    BY <1>2 DEF CleanList
  <2>2. upload'[r][Main].todo = Candidates /\ upload'[r][Main].pc = "cleaning"
    BY <1>2, <1>h, FaultlessRuns DEF CleanList
  <2>3. Sent(r) /\ Sent(r)' /\ \A q : ~BeingRemoved(q) /\ ~BeingRemoved(q)'
    BY <1>f, <1>g, <1>i, <1>j, <2>1, <2>2
  <2>4. StoredInv'
    BY <1>a, <1>e, <1>m, <2>1, <2>3 DEF StoredInv
  <2>5. Candidates \subseteq Successful
    BY DEF Candidates, Expired
  <2> QED BY <1>l, <1>m, <1>n, <2>1, <2>2, <2>4, <2>5
<1>3. CASE CleanObject(r, Main)
  <2>1. UNCHANGED row /\ upload[r][Main].pc = "cleaning" /\ \A q : ~BeingRemoved(q)
    BY <1>3, <1>f DEF CleanObject
  <2>2. CASE upload[r][Main].todo = {}
    <3>1. upload'[r][Main].todo = {} /\ upload'[r][Main].pc = "ok" /\ UNCHANGED stored
      BY <1>3, <1>h, <2>2 DEF CleanObject
    <3>2. Sent(r) /\ Sent(r)' /\ \A q : ~BeingRemoved(q)'
      BY <1>g, <1>i, <1>j, <2>1, <3>1
    <3>3. StoredInv'
      BY <1>a, <1>e, <1>m, <2>1, <3>1, <3>2 DEF StoredInv
    <3> QED BY <1>l, <1>m, <1>n, <2>1, <3>1, <3>3
  <2>3. CASE upload[r][Main].todo # {}
    <3>1. PICK q \in NextOf(upload[r][Main].todo) :
            stored' = stored \ {<<q, Main>>} /\ SetUpload(r, Main, "dropping", upload[r][Main].todo)
      BY <1>3, <2>3, FaultlessRuns DEF CleanObject
    <3>2. upload'[r][Main].todo = upload[r][Main].todo /\ upload'[r][Main].pc = "dropping"
      BY <1>h, <3>1
    <3>3. Sent(r) /\ Sent(r)'
      BY <1>i, <1>j, <2>1, <3>2
    <3>4. \A p : BeingRemoved(p)' <=> p = q
      <4>1. NextOf(upload[r][Main].todo)' = NextOf(upload[r][Main].todo)
        BY <2>1, <3>2 DEF NextOf
      <4> QED BY <1>g, <1>k, <3>1, <3>2, <4>1
    <3>5. q \in Successful /\ q \notin Running
      BY <1>a, <3>1 DEF ListInv, NextOf, Successful, Running
    <3>6. StoredInv'
      <4> SUFFICES ASSUME NEW x \in Records
                   PROVE  <<x, Main>> \in stored' <=>
                            (x \in Running /\ Sent(x)') \/ (x \in Successful /\ ~BeingRemoved(x)')
        BY <1>m, <2>1 DEF StoredInv
      <4>1. <<x, Main>> \in stored <=> (x \in Running /\ Sent(x)) \/ x \in Successful
        BY <1>a, <2>1 DEF StoredInv
      <4>2. <<x, Main>> \in stored' <=> <<x, Main>> \in stored /\ x # q
        BY <3>1
      <4>3. (Sent(x)' <=> Sent(x))
        BY <1>e, <3>3
      <4> QED BY <3>4, <3>5, <4>1, <4>2, <4>3
    <3>7. ListInv'
      BY <1>a, <1>m, <1>n, <2>1, <3>2 DEF ListInv
    <3> QED BY <1>l, <3>6, <3>7
  <2> QED BY <2>2, <2>3
<1>4. CASE CleanRow(r, Main)
  <2>1. upload[r][Main].pc = "dropping" /\ UNCHANGED stored
    BY <1>4 DEF CleanRow
  <2>2. PICK q \in NextOf(upload[r][Main].todo) :
          /\ SetUpload(r, Main, "cleaning", upload[r][Main].todo \ {q})
          /\ row' = [row EXCEPT ![q].status = "deleted"]
    BY <1>4, FaultlessRuns DEF CleanRow
  <2>3. q \in Successful /\ q \in Records /\ q \notin Running /\ upload[r][Main].todo \subseteq Successful
    BY <1>a, <2>2 DEF ListInv, NextOf, Successful, Running
  <2>4. Successful' = Successful \ {q} /\ Running' = Running
    <3>1. row'[q].status = "deleted" /\ \A p \in Records \ {q} : row'[p] = row[p]
      BY <1>a, <2>2, <2>3 DEF Row
    <3> QED BY <2>3, <3>1 DEF Successful, Running
  <2>5. upload'[r][Main].todo = upload[r][Main].todo \ {q} /\ upload'[r][Main].pc = "cleaning"
    BY <1>h, <2>2
  <2>6. Sent(r) /\ Sent(r)' /\ \A p : ~BeingRemoved(p)'
    BY <1>g, <1>i, <1>j, <2>1, <2>5
  <2>7. \A p : BeingRemoved(p) <=> p = q
    BY <1>f, <1>k, <2>1, <2>2
  <2>8. StoredInv'
    <3> SUFFICES ASSUME NEW x \in Records
                 PROVE  <<x, Main>> \in stored <=>
                          (x \in Running /\ Sent(x)') \/ x \in Successful \ {q}
      BY <2>1, <2>4, <2>6 DEF StoredInv
    <3>1. <<x, Main>> \in stored <=> (x \in Running /\ Sent(x)) \/ (x \in Successful /\ x # q)
      BY <1>a, <2>7 DEF StoredInv
    <3>2. (Sent(x)' <=> Sent(x))
      BY <1>e, <2>6
    <3> QED BY <3>1, <3>2
  <2>9. ListInv'
    <3> SUFFICES ASSUME NEW x \in Records PROVE upload'[x][Main].todo \subseteq Successful \ {q}
      BY <2>4 DEF ListInv
    <3>1. CASE x = r
      BY <2>3, <2>5, <3>1
    <3>2. CASE x # r
      <4>1. upload'[x][Main] = NoUpload
        BY <1>a, <1>b, <3>2 DEF StageInv, RunInv, RecordInv, Executing
      <4> QED BY <4>1 DEF NoUpload
    <3> QED BY <3>1, <3>2
  <2> QED BY <1>l, <2>8, <2>9
<1> QED BY <1>1, <1>2, <1>3, <1>4 DEF UploadStep

(* A step of executeTask.                                                  *)
LEMMA ObjectsExec ==
  ASSUME ObjectsInv, OneTarget, Faultless, NEW r \in Records, ExecStep(r), KeptInv', CopyInv'
  PROVE  ObjectsInv'
<1>a. /\ TypeOK /\ StageInv /\ RunInv /\ HoldInv /\ SentInv /\ ListInv /\ StoredInv /\ ExecGood
      /\ row \in [Records -> Row] /\ Main \in Targets /\ exec[r] \in Exec
  BY StartTypes, BackupRunsAssumption DEF ObjectsInv, KeptInv, HoldInv, RunInv, CopyInv
<1>b. /\ UNCHANGED <<op, stored>> /\ r \in Executing
      /\ \A q \in Records \ {r} :
           exec'[q] = exec[q] /\ upload'[q] = upload[q] /\ row'[q] = row[q]
  BY <1>a, ExecFrame
<1>c. \A q \in Records \ {r} : upload[q][Main] = NoUpload
  BY <1>a, <1>b DEF StageInv, RunInv, RecordInv, Executing
<1>d. \A o \in Operators : op[o].pc = "idle" /\ op'[o].pc = "idle"
  BY <1>a, <1>b, HandsIdle
<1>e. r \in Running /\ r \notin Successful
  BY <1>a, <1>b DEF RunInv, RecordInv, Running, Successful
<1>f. exec[r].pc # "uploading" => upload[r][Main] = NoUpload
  BY <1>a DEF StageInv
<1>g. \A e : SetExec(r, e) => exec'[r] = e
  BY <1>a, StartTypes DEF SetExec
(* What the step does to the record, its stage and its artifact.           *)
<1>1. /\ upload[r][Main].pc # "dropping"
      /\ upload'[r][Main].pc \in {"idle", "sending"} /\ upload'[r][Main].todo = {}
      /\ exec'[r].pc \in {"none", "queued", "uploading"} => exec'[r].copies = {}
      /\ \/ UNCHANGED row /\ (exec'[r].copies # {} <=> Sent(r))
         \/ row'[r].status = IF Sent(r) THEN "success" ELSE "failed"
  <2>1. CASE Resolve(r)
    <3>1. upload[r][Main] = NoUpload /\ exec[r].copies = {} /\ UNCHANGED row
      BY <2>1, <1>a, <1>f DEF Resolve, SentInv
    <3>2. exec'[r].copies = {}
      BY <1>a, <1>g, <2>1, <3>1 DEF Resolve, Exec
    <3>3. upload'[r][Main].pc \in {"idle", "sending"} /\ upload'[r][Main].todo = {}
      <4>1. CASE UNCHANGED upload
        BY <3>1, <4>1 DEF NoUpload
      <4>2. CASE upload' = [upload EXCEPT ![r] = [t \in Targets |-> [NoUpload EXCEPT !.pc = "sending"]]]
        BY <1>a, <4>2, StartTypes DEF NoUpload
      <4> QED BY <2>1, <4>1, <4>2 DEF Resolve
    <3> QED BY <3>1, <3>2, <3>3 DEF Sent, NoUpload
  <2>2. CASE Collect(r)
    <3> DEFINE good == {t \in Targets : upload[r][t].pc = "ok"}
    <3>1. upload[r][Main].pc \in {"ok", "failed"} /\ exec[r].copies = {} /\ UNCHANGED row
      BY <2>2, <1>a DEF Collect, SentInv
    <3>2. exec'[r].copies = good /\ exec'[r].pc \in {"closing", "hooks"}
      BY <1>a, <1>g, <2>2 DEF Collect, Exec
    <3>3. good # {} <=> upload[r][Main].pc = "ok"
      BY <1>a DEF OneTarget
    <3>4. upload'[r][Main] = NoUpload
      BY <1>a, <2>2, StartTypes DEF Collect
    <3> QED BY <3>1, <3>2, <3>3, <3>4 DEF Sent, NoUpload
  <2>3. CASE Hooks(r)
    <3>1. upload[r][Main] = NoUpload /\ UNCHANGED <<row, upload>>
      BY <2>3, <1>f DEF Hooks
    <3>2. exec'[r].copies = exec[r].copies /\ exec'[r].pc = "closing"
      BY <1>a, <1>g, <2>3 DEF Hooks, Exec
    <3> QED BY <3>1, <3>2 DEF Sent, NoUpload
  <2>4. CASE FinalRead(r)
    <3>1. upload[r][Main] = NoUpload /\ UNCHANGED <<row, upload>>
      BY <2>4, <1>f DEF FinalRead
    <3>2. row[r].status \in Exists
      BY <1>e DEF Running, Exists
    <3>3. SetExec(r, [exec[r] EXCEPT !.pc = "saving", !.seen = row[r]])
      BY <2>4, <3>2, FaultlessRuns DEF FinalRead
    <3>4. exec'[r].copies = exec[r].copies /\ exec'[r].pc = "saving"
      BY <1>a, <1>g, <3>3 DEF Exec
    <3> QED BY <3>1, <3>4 DEF Sent, NoUpload
  <2>5. CASE FinalSave(r)
    <3>1. upload[r][Main] = NoUpload /\ UNCHANGED upload
      BY <2>5, <1>f DEF FinalSave
    <3>2. PICK t \in Targets \cup {NoTarget} : row' = [row EXCEPT ![r] = Final(r, t)]
      BY <2>5, <1>a, FinalSaved, FaultlessRuns
    <3>3. row'[r].status = IF exec[r].copies = {} THEN "failed" ELSE "success"
      BY <1>a, <3>2, FinalFields
    <3>4. exec'[r] = NoExec
      BY <2>5, <1>a, FinalSaved, FaultlessRuns
    <3> QED BY <3>1, <3>3, <3>4 DEF Sent, NoUpload, NoExec
  <2> QED BY <2>1, <2>2, <2>3, <2>4, <2>5 DEF ExecStep
<1>2. \A q : ~BeingRemoved(q)
  BY <1>1, <1>b, RemovedByRun
<1>3. \A q : ~BeingRemoved(q)'
  BY <1>a, <1>b, <1>c, <1>d, <1>1 DEF BeingRemoved, OneTarget, NoUpload
<1>4. SentInv'
  BY <1>a, <1>b, <1>1 DEF SentInv
<1>5. ListInv'
  BY <1>b, <1>c, <1>1 DEF ListInv, NoUpload
<1>6. \A q \in Records \ {r} : Sent(q)' <=> Sent(q)
  BY <1>b DEF Sent
<1>7. Sent(r)' <=> exec'[r].copies # {}
  BY <1>1 DEF Sent
<1>8. StoredInv'
  <2> SUFFICES ASSUME NEW q \in Records
               PROVE  <<q, Main>> \in stored <=> (q \in Running' /\ Sent(q)') \/ q \in Successful'
    BY <1>b, <1>3 DEF StoredInv
  <2>1. <<q, Main>> \in stored <=> (q \in Running /\ Sent(q)) \/ q \in Successful
    BY <1>a, <1>2 DEF StoredInv
  <2>2. CASE q # r
    BY <1>b, <1>6, <2>1, <2>2 DEF Running, Successful
  <2>3. CASE q = r
    BY <1>1, <1>7, <1>e, <2>1, <2>3 DEF Running, Successful
  <2> QED BY <2>2, <2>3
<1> QED BY <1>4, <1>5, <1>8 DEF ObjectsInv

(* A step of the operator.                                                 *)
LEMMA ObjectsOp ==
  ASSUME ObjectsInv, Reach = "idle", OneOperator, OneTarget, Faultless,
         NEW o \in Operators, OpStep(o), KeptInv', CopyInv'
  PROVE  ObjectsInv'
<1>a. /\ TypeOK /\ StageInv /\ RunInv /\ HoldInv /\ SentInv /\ ListInv /\ StoredInv
      /\ row \in [Records -> Row] /\ op \in [Operators -> Op] /\ Main \in Targets
  BY StartTypes, BackupRunsAssumption DEF ObjectsInv, KeptInv, HoldInv, RunInv
<1>b. /\ UNCHANGED <<exec, upload>> /\ Executing = {}
      /\ \A r \in Records, t \in Targets : upload[r][t] = NoUpload
  BY <1>a, OpFrame
<1>c. \A q : /\ BeingRemoved(q) <=> op[o].pc = "drop" /\ op[o].rec = q
             /\ BeingRemoved(q)' <=> op'[o].pc = "drop" /\ op'[o].rec = q
  BY <1>b DEF BeingRemoved, NoUpload, OneOperator
<1>d. \A r \in Records : ~Sent(r) /\ ~Sent(r)'
  <2>1. \A r \in Records : upload[r][Main] = NoUpload /\ exec[r].copies = {}
    BY <1>a, <1>b DEF SentInv, Executing
  <2> QED BY <1>b, <2>1 DEF Sent, NoUpload
<1>e. SentInv' /\ ListInv'
  BY <1>a, <1>b DEF SentInv, ListInv, NoUpload
<1>f. op[o].pc # "idle" => op[o].rec \in Records /\ op[o].seen = row[op[o].rec]
  BY <1>a DEF HoldInv, HandsInv, RunInv, OpInv, Settled
<1>g. ASSUME \A q \in Records : <<q, Main>> \in stored' <=> q \in Successful' /\ ~BeingRemoved(q)'
      PROVE  ObjectsInv'
  BY <1>d, <1>e, <1>g DEF ObjectsInv, StoredInv
<1>h. \A q \in Records : <<q, Main>> \in stored <=> q \in Successful /\ ~BeingRemoved(q)
  BY <1>a, <1>d DEF StoredInv
<1>1. CASE DeleteObject(o)
  <2>1. /\ UNCHANGED row /\ op[o].pc = "remove" /\ op' = [op EXCEPT ![o].pc = "drop"]
        /\ stored' = stored \ {<<op[o].rec, op[o].seen.primary>>}
    BY <1>1, FaultlessRuns DEF DeleteObject
  <2>2. op'[o].pc = "drop" /\ op'[o].rec = op[o].rec /\ Successful' = Successful
    BY <1>a, <2>1, SameRows DEF Op
  <2>3. op[o].rec \in Successful => op[o].seen.primary = Main
    <3>1. op[o].rec \in Successful => Good(row[op[o].rec])
      BY DEF ObjectsInv, CopyInv, RowsGood, Successful
    <3>2. op[o].rec \in Records => row[op[o].rec].copies \subseteq {Main}
      BY <1>a DEF Row, OneTarget
    <3> QED BY <1>f, <2>1, <3>1, <3>2 DEF Good, Successful
  <2>4. ASSUME NEW q \in Records
        PROVE  <<q, Main>> \in stored' <=> q \in Successful' /\ ~BeingRemoved(q)'
    <3>1. <<q, Main>> \in stored <=> q \in Successful
      BY <1>c, <1>h, <2>1
    <3>2. BeingRemoved(q)' <=> q = op[o].rec
      BY <1>c, <2>2
    <3>3. CASE q = op[o].rec
      BY <2>1, <2>3, <3>1, <3>2, <3>3
    <3>4. CASE q # op[o].rec
      BY <2>1, <2>2, <3>1, <3>2, <3>4
    <3> QED BY <3>3, <3>4
  <2> QED BY <1>g, <2>4
<1>2. CASE DeleteRow(o)
  <2>1. UNCHANGED stored /\ op[o].pc = "drop" /\ row' = [row EXCEPT ![op[o].rec].status = "deleted"] /\ Done(o)
    BY <1>2, FaultlessRuns DEF DeleteRow
  <2>2. \A q : ~BeingRemoved(q)' /\ (BeingRemoved(q) <=> op[o].rec = q)
    BY <1>a, <1>c, <2>1 DEF Done, NoOp
  <2>3. Successful' = Successful \ {op[o].rec}
    <3>1. row'[op[o].rec].status = "deleted" /\ \A p \in Records \ {op[o].rec} : row'[p] = row[p]
      BY <1>a, <1>f, <2>1 DEF Row
    <3> QED BY <3>1 DEF Successful
  <2>4. \A q \in Records : <<q, Main>> \in stored' <=> q \in Successful' /\ ~BeingRemoved(q)'
    BY <1>h, <2>1, <2>2, <2>3
  <2> QED BY <1>g, <2>4
<1>3. CASE LockSave(o)
  <2>1. UNCHANGED stored /\ op[o].pc = "lock" /\ Done(o)
    BY <1>3 DEF LockSave
  <2>2. \A q : ~BeingRemoved(q)' /\ ~BeingRemoved(q)
    BY <1>a, <1>c, <2>1 DEF Done, NoOp
  <2>3. \A q \in Records : row'[q].status = row[q].status
    <3>1. UNCHANGED row \/ \A q \in Records : \E b : row'[q] = [row[q] EXCEPT !.locked = b]
      BY <1>a, <2>1, OpWrites
    <3> QED BY <1>a, <3>1 DEF Row
  <2>4. Successful' = Successful
    BY <2>3 DEF Successful
  <2> QED BY <1>g, <1>h, <2>1, <2>2, <2>4
<1>4. CASE DeleteRead(o) \/ LockRead(o) \/ DeleteCheck(o)
  <2>1. UNCHANGED <<row, stored>> /\ op[o].pc # "drop"
    BY <1>4 DEF DeleteRead, LockRead, DeleteCheck, Take
  <2>2. op'[o].pc # "drop"
    <3>1. \/ Done(o) \/ op' = [op EXCEPT ![o].pc = "remove"]
          \/ \E r \in Records, pc \in {"check", "lock"} : Take(o, r, pc)
      BY <1>4 DEF DeleteRead, LockRead, DeleteCheck
    <3> QED BY <1>a, <3>1 DEF Done, NoOp, Take, Op
  <2>3. Successful' = Successful
    BY <2>1, SameRows
  <2> QED BY <1>c, <1>g, <1>h, <2>1, <2>2, <2>3
<1> QED BY <1>1, <1>2, <1>3, <1>4 DEF OpStep

LEMMA ObjectsNext ==
  ASSUME Reach = "idle", OneOperator, OneTarget, Faultless, ObjectsInv, [Next]_vars
  PROVE  ObjectsInv'
<1>1. KeptInv'
  BY KeptNext, FaultlessRuns DEF ObjectsInv
<1>2. CopyInv'
  BY TypeNext, CopyRows, CopyOps, CopyExec DEF ObjectsInv, CopyInv
<1>3. CASE UNCHANGED vars
  <2>1. UNCHANGED <<row, stored, exec, upload, op>>
    BY <1>3 DEF vars
  <2>2. StoredInv'
    <3>1. Running' = Running /\ Successful' = Successful
      BY <2>1, SameRows
    <3>2. \A q \in Records : (Sent(q)' <=> Sent(q)) /\ (BeingRemoved(q)' <=> BeingRemoved(q))
      BY <2>1 DEF Sent, BeingRemoved, NextOf
    <3> QED BY <2>1, <3>1, <3>2 DEF ObjectsInv, StoredInv
  <2>3. SentInv' /\ ListInv'
    BY <2>1, SameRows DEF ObjectsInv, SentInv, ListInv
  <2> QED BY <1>1, <1>2, <2>2, <2>3 DEF ObjectsInv
<1>4. ~Age /\ ~MasterRestart
  BY FaultlessRuns, NoFaults DEF Age
<1>5. \A r \in Records, t \in Targets : UploadStep(r, t) => UploadStep(r, Main)
  BY DEF OneTarget
<1> QED BY <1>1, <1>2, <1>3, <1>4, <1>5, ObjectsStart, ObjectsUpload, ObjectsExec, ObjectsOp DEF Next

(* What is successful is in storage.                                       *)
LEMMA SuccessOnTarget ==
  ASSUME ObjectsInv, OneTarget, NEW r \in Successful
  PROVE  r \in Records /\ row[r].primary = Main /\ row[r].copies = {Main} /\ r \notin Running
<1>1. r \in Records /\ row[r] \in Row /\ row[r].status = "success"
  BY StartTypes DEF ObjectsInv, CopyInv, Successful
<1>2. row[r].primary \in row[r].copies
  BY <1>1 DEF ObjectsInv, CopyInv, RowsGood, Good
<1> QED BY <1>1, <1>2 DEF Row, OneTarget, Running

(* Whatever runs, retention and deletions have been made: a record that is *)
(* successful and not just being removed can be restored, its base too.    *)
THEOREM RestorableHolds ==
  ASSUME Reach = "idle", OneOperator, OneTarget, Faultless
  PROVE  Spec => []Restorable
<1>1. ObjectsInv /\ [Next]_vars => ObjectsInv'
  BY ObjectsNext
<1>2. ObjectsInv => Restorable
  <2> SUFFICES ASSUME ObjectsInv, NEW r \in Successful, ~BeingRemoved(r)
               PROVE  OnTarget(r) /\ (row[r].kind = "differential" => OnTarget(row[r].base))
    BY DEF Restorable
  <2>a. TypeOK /\ ChainInv /\ TodoInv /\ DeleteInv /\ StoredInv
    BY DEF ObjectsInv, KeptInv, HoldInv, RunInv
  <2>1. \A q \in Successful : ~BeingRemoved(q) => OnTarget(q)
    BY <2>a, SuccessOnTarget DEF StoredInv, OnTarget
  <2>2. ASSUME row[r].kind = "differential" PROVE OnTarget(row[r].base)
    <3> DEFINE b == row[r].base
    <3>1. b \in Successful /\ row[b].at < row[r].at
      BY <2>a, <2>2, SuccessTypes DEF ChainInv
    <3>2. ~ \E x \in Records, t \in Targets : upload[x][t].pc = "dropping" /\ b \in NextOf(upload[x][t].todo)
      <4> SUFFICES ASSUME NEW x \in Records, NEW t \in Targets, b \in NextOf(upload[x][t].todo)
                   PROVE  FALSE
        OBVIOUS
      <4>1. b \in upload[x][t].todo /\ \A p \in upload[x][t].todo : row[p].at <= row[b].at
        BY DEF NextOf
      <4>2. r \in upload[x][t].todo
        BY <2>a, <4>1 DEF TodoInv, Releasable
      <4>3. row[r].at \in Nat /\ row[b].at \in Nat
        BY <2>a, <3>1, SuccessTypes
      <4> QED BY <3>1, <4>1, <4>2, <4>3
    <3>3. ~ \E o \in Operators : op[o].pc = "drop" /\ op[o].rec = b
      BY <2>a DEF DeleteInv
    <3>4. ~BeingRemoved(b)
      BY <3>2, <3>3 DEF BeingRemoved
    <3> QED BY <2>1, <3>1, <3>4
  <2> QED BY <2>1, <2>2
<1> QED BY <1>1, <1>2, ObjectsInit, PTL DEF Spec

(* Nothing is left in storage that no record leads to, after any number of *)
(* runs, cleanups and deletions.                                           *)
THEOREM NoOrphansHolds ==
  ASSUME Reach = "idle", OneOperator, OneTarget, Faultless
  PROVE  Spec => []NoOrphans
<1>1. ObjectsInv /\ [Next]_vars => ObjectsInv'
  BY ObjectsNext
<1>2. ObjectsInv => NoOrphans
  <2> SUFFICES ASSUME ObjectsInv, NEW x \in stored
               PROVE  row[x[1]].status = "running" \/ (x[1] \in Successful /\ x[2] \in row[x[1]].copies)
    BY DEF NoOrphans
  <2>1. x[1] \in Records /\ x[2] = Main /\ x = <<x[1], Main>>
    <3>1. stored \in SUBSET (Records \X Targets)
      BY DEF ObjectsInv, CopyInv, TypeOK
    <3> QED BY <3>1 DEF OneTarget
  <2>2. x[1] \in Running \/ x[1] \in Successful
    BY <2>1 DEF ObjectsInv, StoredInv
  <2> QED BY <2>1, <2>2, SuccessOnTarget DEF Running
<1> QED BY <1>1, <1>2, ObjectsInit, PTL DEF Spec
=============================================================================
