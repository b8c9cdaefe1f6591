---------------------------- MODULE AgentUploads ----------------------------
(* The artifact of one run on a remote node, from the specification the     *)
(* Agent is given to the record that names the copies.  A target is written *)
(* by the Agent itself or, when it is a disk of the Master, through a relay *)
(* of the Master.  Meanwhile the task and its targets are edited, a day may *)
(* begin, and the run may be settled without the Agent.                     *)
EXTENDS Integers, FiniteSets

CONSTANTS
    Gone,
    Targets,
    MaxEdits,      \* bound: edits of the task and of its targets
    MaxDays,       \* bound: days that begin during the run
    MaxUploadFaults \* bound: failures of the artifact, a transfer or a process

ASSUME UploadsAssumption ==
    /\ Gone \notin Targets
    /\ MaxEdits \in Nat /\ MaxDays \in Nat /\ MaxUploadFaults \in Nat

VARIABLES
    record,     \* the backup record of the run
    wanted,     \* the targets of the task's row
    modeOf,     \* [Targets -> the transfer mode a target's row gives, or Gone]
    exec,       \* the Agent's execution
    relay,      \* the Master's handler of a relayed upload, or Gone
    stored,     \* the objects there are
    edits, day, uploadFaults

uploadVars == <<record, wanted, modeOf, exec, relay, stored, edits, day, uploadFaults>>

Modes == {"direct", "relay"}

(* The name of an object: the day it is filed under, and whether it lies in *)
(* the namespace of its record.  Agents of an earlier version do not know   *)
(* that namespace.  All of them report the mode of each transfer; a report  *)
(* without one, which UpdateRecord accepts as well, is left out.            *)
BuildStorageKey(d) == [day |-> d, scoped |-> FALSE]
BuildRecordStorageKey(d) == [day |-> d, scoped |-> TRUE]
reportedKey == IF exec.old THEN BuildStorageKey(exec.day) ELSE BuildRecordStorageKey(exec.day)
expectedKey == BuildRecordStorageKey(record.day)

(* Where a copy lies: a relayed one on the Master.                          *)
Copy(t, mode, key) == [target |-> t, mode |-> mode, key |-> key]
Stored(copy, content) == [copy |-> copy, content |-> content]

UploadFault ==
    /\ uploadFaults < MaxUploadFaults
    /\ uploadFaults' = uploadFaults + 1

NoUploadFault == UNCHANGED uploadFaults

World == UNCHANGED <<wanted, modeOf, edits, day>>
Executes(step) == exec # Gone /\ exec.step = step

-----------------------------------------------------------------------------
(* What happens around the run.                                             *)

Edit ==
    /\ edits < MaxEdits
    /\ edits' = edits + 1
    /\ \/ wanted' \in (SUBSET Targets) \ {{}, wanted} /\ UNCHANGED modeOf
       \/ /\ \E t \in Targets, m \in Modes \cup {Gone} :
               modeOf[t] # m /\ modeOf' = [modeOf EXCEPT ![t] = m]
          /\ UNCHANGED wanted
    /\ UNCHANGED <<record, exec, relay, stored, day>> /\ NoUploadFault

NextDay ==
    /\ day < MaxDays
    /\ day' = day + 1
    /\ UNCHANGED <<record, wanted, modeOf, exec, relay, stored, edits>> /\ NoUploadFault

(* The command timed out, or an error of the Agent reached failLinkedRecord.*)
FailRecord ==
    /\ record.status = "running"
    /\ record' = [record EXCEPT !.status = "failed"]
    /\ World /\ UNCHANGED <<exec, relay, stored>> /\ NoUploadFault

AgentDies ==
    /\ exec # Gone
    /\ exec' = Gone
    /\ World /\ UNCHANGED <<record, relay, stored>> /\ UploadFault

-----------------------------------------------------------------------------
(* The Agent.                                                               *)

(* GetTaskSpec reads the task and then its targets one by one; a target     *)
(* that is gone is passed over.  The day is that of the Agent's clock when  *)
(* the artifact is begun.                                                   *)
FetchTask ==
    /\ Executes("fetch")
    /\ exec' = [exec EXCEPT !.step = "targets", !.todo = wanted]
    /\ World /\ UNCHANGED <<record, relay, stored>> /\ NoUploadFault

FetchTargets ==
    /\ Executes("targets")
    /\ LET found == {t \in exec.todo : modeOf[t] # Gone} IN
       exec' = [exec EXCEPT !.step = "upload", !.todo = found, !.tried = found,
                            !.spec = modeOf, !.day = day]
    /\ World /\ UNCHANGED <<record, relay, stored>> /\ NoUploadFault

(* Any stage fails, or there is no target: the Agent ends with an error.    *)
EndWithError ==
    /\ \/ exec # Gone /\ UploadFault
       \/ Executes("upload") /\ exec.todo = {} /\ exec.copies = {} /\ NoUploadFault
    /\ exec' = Gone
    /\ World /\ UNCHANGED <<record, relay, stored>>

Uploaded(t, copies) ==
    exec' = [exec EXCEPT !.step = "upload", !.todo = @ \ {t}, !.copies = @ \cup copies,
                         !.awaits = Gone, !.first = IF @ = Gone /\ copies # {} THEN t ELSE @]

UploadDirect(t) ==
    /\ Executes("upload") /\ t \in exec.todo /\ exec.spec[t] = "direct"
    /\ LET copy == Copy(t, "direct", reportedKey) IN
       \/ /\ stored' = stored \cup {Stored(copy, "whole")}
          /\ Uploaded(t, {copy}) /\ NoUploadFault
       \/ /\ stored' \in {stored, stored \cup {Stored(copy, "part")}}
          /\ Uploaded(t, {}) /\ UploadFault
    /\ World /\ UNCHANGED <<record, relay>>

(* The artifact is sent to the Master, once and without a timeout.          *)
SendArtifact(t) ==
    /\ Executes("upload") /\ t \in exec.todo /\ exec.spec[t] = "relay"
    /\ exec' = [exec EXCEPT !.step = "sent", !.awaits = t]
    /\ relay' = [relay EXCEPT ![t] = [step |-> "check", key |-> reportedKey]]
    /\ World /\ UNCHANGED <<record, stored>> /\ NoUploadFault

(* The connection breaks, or the reply is lost: the Agent counts the target *)
(* as failed and goes on, and the handler does what it does.                *)
LoseReply ==
    /\ Executes("sent")
    /\ Uploaded(exec.awaits, {})
    /\ World /\ UNCHANGED <<record, relay, stored>> /\ UploadFault

-----------------------------------------------------------------------------
(* The Master's handler of a relayed upload.                                *)

Reply(t, copies) ==
    /\ relay' = [relay EXCEPT ![t] = Gone]
    /\ IF Executes("sent") /\ exec.awaits = t THEN Uploaded(t, copies) ELSE UNCHANGED exec

Handles(t, step) == relay[t] # Gone /\ relay[t].step = step

(* The key is to be one of the record, by its day: of the two forms an      *)
(* Agent may use.                                                           *)
validArtifactKey(key) == key \in {expectedKey, BuildStorageKey(record.day)}

CheckRelay(t) ==
    /\ Handles(t, "check")
    /\ IF /\ record.status = "running" /\ t \in wanted /\ modeOf[t] = "relay"
          /\ validArtifactKey(relay[t].key)
       THEN relay' = [relay EXCEPT ![t].step = "stream"] /\ UNCHANGED exec
       ELSE Reply(t, {})
    /\ World /\ UNCHANGED <<record, stored>> /\ NoUploadFault

(* All of it arrived, as size and checksum tell.                            *)
Stream(t) ==
    /\ Handles(t, "stream")
    /\ stored' = stored \cup {Stored(Copy(t, "relay", expectedKey), "whole")}
    /\ Reply(t, {Copy(t, "relay", relay[t].key)})
    /\ World /\ UNCHANGED record /\ NoUploadFault

(* The upload failed, or what arrived is not the artifact: what there is of *)
(* it is deleted.                                                           *)
StreamCut(t) ==
    /\ Handles(t, "stream")
    /\ stored' = stored \cup {Stored(Copy(t, "relay", expectedKey), "part")}
    /\ relay' = [relay EXCEPT ![t].step = "delete"]
    /\ World /\ UNCHANGED <<record, exec>> /\ UploadFault

DeleteCut(t) ==
    /\ Handles(t, "delete")
    /\ \/ stored' = {o \in stored : o.copy # Copy(t, "relay", expectedKey)} /\ NoUploadFault
       \/ UNCHANGED stored /\ UploadFault
    /\ Reply(t, {})
    /\ World /\ UNCHANGED record

-----------------------------------------------------------------------------
(* The Agent reports success: UpdateRecord compares what it says with the   *)
(* task and the targets as they are now.                                    *)

(* Mutant: the mode is the one the target has now, whatever was reported.   *)
ValidByTarget ==
    /\ exec.tried \subseteq wanted
    /\ \A copy \in exec.copies : copy.mode = "relay" => validArtifactKey(copy.key)

StillValid ==
    /\ exec.tried \subseteq wanted
    /\ \A t \in exec.tried : modeOf[t] = exec.spec[t]
    /\ \A copy \in exec.copies : copy.mode = "relay" => validArtifactKey(copy.key)

Named(copy) ==
    Copy(copy.target, modeOf[copy.target], IF modeOf[copy.target] = "relay" THEN expectedKey ELSE copy.key)

Report ==
    /\ Executes("upload") /\ exec.todo = {} /\ exec.copies # {}
    /\ record' = IF record.status = "running" /\ StillValid
                 THEN [record EXCEPT !.status = "success", !.copies = {Named(c) : c \in exec.copies},
                                     !.target = exec.first]
                 ELSE record
    /\ exec' = Gone
    /\ World /\ UNCHANGED <<relay, stored>> /\ NoUploadFault

-----------------------------------------------------------------------------
UploadsInit ==
    /\ record = [status |-> "running", day |-> 0, copies |-> {}, target |-> Gone]
    /\ wanted \in (SUBSET Targets) \ {{}}
    /\ modeOf \in [Targets -> Modes]
    /\ \E old \in BOOLEAN :
         exec = [step |-> "fetch", old |-> old, day |-> 0, spec |-> modeOf, tried |-> {},
                 todo |-> {}, copies |-> {}, first |-> Gone, awaits |-> Gone]
    /\ relay = [t \in Targets |-> Gone]
    /\ stored = {} /\ edits = 0 /\ day = 0 /\ uploadFaults = 0

UploadsNext ==
    \/ Edit \/ NextDay \/ FailRecord \/ AgentDies
    \/ FetchTask \/ FetchTargets \/ EndWithError \/ LoseReply \/ Report
    \/ \E t \in Targets :
         UploadDirect(t) \/ SendArtifact(t) \/ CheckRelay(t) \/ Stream(t) \/ StreamCut(t) \/ DeleteCut(t)

UploadsSpec == UploadsInit /\ [][UploadsNext]_uploadVars

-----------------------------------------------------------------------------
(* The shapes of the rows, of the Agent's execution and of the objects.     *)
Keys == [day : Nat, scoped : BOOLEAN]
Copies == [target : Targets, mode : Modes, key : Keys]
Execution == [step : {"fetch", "targets", "upload", "sent"}, old : BOOLEAN, day : Nat,
              spec : [Targets -> Modes \cup {Gone}], tried : SUBSET Targets,
              todo : SUBSET Targets, copies : SUBSET Copies,
              first : Targets \cup {Gone}, awaits : Targets \cup {Gone}]
UploadsTypeOK ==
    /\ record \in [status : {"running", "failed", "success"}, day : Nat, copies : SUBSET Copies,
                   target : Targets \cup {Gone}]
    /\ wanted \subseteq Targets
    /\ modeOf \in [Targets -> Modes \cup {Gone}]
    /\ exec \in Execution \cup {Gone}
    /\ relay \in [Targets -> [step : {"check", "stream", "delete"}, key : Keys] \cup {Gone}]
    /\ day \in Nat

(* A successful record leads to its artifact: each copy it names is there,  *)
(* whole, under that name, on the side of the Master or of the Agent that   *)
(* its mode says, and the target it names as its own is among them; for all *)
(* edits, midnights, broken connections and Agents of either version        *)
(* (UploadArtifact, UpdateRecord, validateArtifactKey).                     *)
SuccessLeadsToCopies ==
    record.status = "success" =>
      /\ \A copy \in record.copies : Stored(copy, "whole") \in stored
      /\ \E copy \in record.copies : copy.target = record.target
=============================================================================
