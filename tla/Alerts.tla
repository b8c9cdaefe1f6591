------------------------------- MODULE Alerts -------------------------------
(* What the Master tells its users unasked: that the backups of a task      *)
(* failed, and what three monitors find when they scan: a task without a    *)
(* success for too long, an Agent older than the Master, a storage target   *)
(* nearly full.  A monitor reads what it judges, then takes its lock and    *)
(* compares with what it remembers having announced; runs, edits and other  *)
(* requests go on in between.  A run ends in two steps as well: its record  *)
(* is stored, which lets the next run start, and only then is it decided    *)
(* from the records whether to tell.                                        *)
EXTENDS Integers, Sequences, FiniteSets
LOCAL INSTANCE FiniteSetsExt

CONSTANTS
    Absent,         \* no value
    Channels,       \* notifications that are configured
    Subscription,   \* [Channels -> what the channel wants]
    Threshold,      \* AlertOnConsecutiveFails of the task
    RPO,            \* SLAHoursRPO of the task
    Reset,          \* time before the same condition is announced again
    MaxRuns,        \* bound: records of the task
    MaxHours,       \* bound on the clock
    MaxSwitches,    \* bound: changes of what the monitors look at
    MaxAlertFaults  \* bound: errors of the database, restarts

ASSUME AlertsAssumption ==
    /\ Absent \notin Nat /\ Absent \notin {"run", "good", "bad", "gone"}
    /\ Threshold \in Nat /\ RPO \in Nat /\ Reset \in Nat
    /\ MaxRuns \in Nat /\ MaxHours \in Nat /\ MaxSwitches \in Nat /\ MaxAlertFaults \in Nat

Monitors == {"sla", "version", "capacity"}

VARIABLES
    records,     \* the task's records by id: status, where it ran, who closed it, when
    reporting,   \* ids of the runs that have stored their result and not told it
    watched,     \* what the monitors look at: the task, the Agent, the target
    seen,        \* [Monitors -> what the scan under way has read]
    remembered,  \* [Monitors -> time of the announcement it remembers]
    hours,
    told,        \* <<channel, id>>: the failure of the run was sent to the channel
    missed,      \* ids of runs whose notification an error of the database stopped
    announced,   \* [Monitors -> times it announced the condition since it began]
    switches, alertFaults

alertVars == <<records, reporting, watched, seen, remembered, hours, told, missed,
               announced, switches, alertFaults>>

AlertRuns == DOMAIN records
Present == {id \in AlertRuns : records[id].status # "deleted"}
Successes == {id \in AlertRuns : records[id].status = "success"}

(* SLACompliance: the last success, or the creation of the task.            *)
Compliance ==
    IF watched["sla"] = "good" /\ hours - Max({0} \cup {records[id].at : id \in Successes}) > RPO
    THEN "bad" ELSE "good"

(* isVersionOutdated for the Agent, the usage of the target against 85 %;   *)
(* "gone" is a deleted node, a target that is disabled or does not tell.    *)
Reading(m) == IF m = "sla" THEN Compliance ELSE watched[m]

(* The announcements of a condition are forgotten when it ends; a target    *)
(* that does not tell its usage may still be full.                          *)
Lasts(m) == Reading(m) = "bad" \/ (m = "capacity" /\ Reading(m) = "gone")

Announcing(ms) ==
    announced' = [m \in Monitors |-> IF m \in ms THEN Append(announced[m], hours)
                                     ELSE IF Lasts(m)' THEN announced[m] ELSE <<>>]

AlertFault ==
    /\ alertFaults < MaxAlertFaults
    /\ alertFaults' = alertFaults + 1

NoAlertFault == UNCHANGED alertFaults

RunOnly == UNCHANGED <<watched, seen, remembered, hours, switches>> /\ Announcing({})

-----------------------------------------------------------------------------
(* The runs of the task.                                                    *)

(* ensureTaskNotRunning under the task's lock, and the new record.          *)
BeginRun ==
    /\ Len(records) < MaxRuns
    /\ \A id \in AlertRuns : records[id].status # "running"
    /\ \E remote \in BOOLEAN :
         records' = Append(records, [status |-> "running", remote |-> remote, by |-> Absent, at |-> hours])
    /\ UNCHANGED <<reporting, told, missed>> /\ NoAlertFault /\ RunOnly

Closed(id, status, by) ==
    records' = [records EXCEPT ![id].status = status, ![id].by = by, ![id].at = hours]

(* completeRecord: finalizeRecord closes the record unless it is gone or    *)
(* cannot be written; what follows happens in any case.  (A success is told *)
(* unconditionally; only the telling of failures is followed here.)         *)
FinalizeRun(id, status) ==
    /\ ~records[id].remote /\ records[id].by = Absent
    /\ \/ records[id].status = "running" /\ Closed(id, status, "run") /\ NoAlertFault
       \/ records[id].status = "deleted" /\ records' = [records EXCEPT ![id].by = "run"] /\ NoAlertFault
       \/ records[id].status = "running" /\ records' = [records EXCEPT ![id].by = "run"] /\ AlertFault
    /\ reporting' = IF status = "failed" THEN reporting \cup {id} ELSE reporting
    /\ UNCHANGED <<told, missed>> /\ RunOnly

(* A run on a remote node is closed by its Agent's report: nothing is sent. *)
AgentCloses(id, status) ==
    /\ records[id].remote /\ records[id].status = "running"
    /\ Closed(id, status, "agent")
    /\ UNCHANGED <<reporting, told, missed>> /\ NoAlertFault /\ RunOnly

(* The n newest records that are present.                                   *)
Newest(n) == {id \in Present : Cardinality({j \in Present : j >= id}) <= n}

(* Mutant: the records before the one that failed are asked for as well.    *)
FailedOnceMore ==
    \/ Threshold <= 1
    \/ Cardinality(Present) < Threshold
    \/ \A id \in Newest(Threshold + 1) : records[id].status = "failed"

shouldNotify ==
    \/ Threshold <= 1
    \/ Cardinality(Present) < Threshold
    \/ \A id \in Newest(Threshold) : records[id].status = "failed"

collectSubscribers(event) ==
    {c \in Channels :
       LET wants == Subscription[c] IN
       /\ wants.enabled
       /\ IF wants.events # {} THEN event \in wants.events
          ELSE \/ event = "backup_success" /\ wants.onSuccess
               \/ event = "backup_failed" /\ wants.onFailure}

(* NotifyBackupResult of a failure: each channel is tried, whatever becomes *)
(* of the others.  When the records cannot be listed it is sent; when the   *)
(* channels cannot, it is not.                                              *)
TellFailure(id) ==
    /\ id \in reporting
    /\ reporting' = reporting \ {id}
    /\ \/ /\ shouldNotify
          /\ told' = told \cup (collectSubscribers("backup_failed") \X {id})
          /\ UNCHANGED missed /\ NoAlertFault
       \/ ~shouldNotify /\ UNCHANGED <<told, missed>> /\ NoAlertFault
       \/ /\ told' = told \cup (collectSubscribers("backup_failed") \X {id})
          /\ UNCHANGED missed /\ AlertFault
       \/ missed' = missed \cup {id} /\ UNCHANGED told /\ AlertFault
    /\ UNCHANGED records /\ RunOnly

(* DeleteRecord does not ask whether the record is running.                 *)
RemoveRecord(id) ==
    /\ records[id].status # "deleted"
    /\ records' = [records EXCEPT ![id].status = "deleted"]
    /\ UNCHANGED <<reporting, told, missed>> /\ NoAlertFault /\ RunOnly

-----------------------------------------------------------------------------
(* The monitors.                                                            *)

(* The first half of a scan: SLACompliance, the nodes, About of a target.   *)
Look(m) ==
    /\ seen[m] = Absent
    /\ seen' = [seen EXCEPT ![m] = Reading(m)]
    /\ UNCHANGED <<records, reporting, watched, remembered, hours, told, missed, switches>>
    /\ NoAlertFault /\ Announcing({})

Due(m) == remembered[m] # Absent => hours - remembered[m] >= Reset

Remember(m, time) == remembered' = [remembered EXCEPT ![m] = time]

(* The second half, under the monitor's lock.  An announcement that cannot  *)
(* be sent counts as made.                                                  *)
Judge(m) ==
    \/ seen[m] = "bad" /\ Due(m) /\ Remember(m, hours) /\ Announcing({m})
    \/ seen[m] = "bad" /\ ~Due(m) /\ UNCHANGED remembered /\ Announcing({})
    \/ seen[m] # "bad" /\ Remember(m, Absent) /\ Announcing({})

scanAndDispatchSLA == Judge("sla")
scanVersions == Judge("version")

checkCapacity ==
    \/ /\ seen["capacity"] = "bad" /\ remembered["capacity"] = Absent
       /\ Remember("capacity", hours) /\ Announcing({"capacity"})
    \/ /\ seen["capacity"] = "bad" /\ remembered["capacity"] # Absent
       /\ UNCHANGED remembered /\ Announcing({})
    \/ seen["capacity"] = "good" /\ Remember("capacity", Absent) /\ Announcing({})
    \/ seen["capacity"] = "gone" /\ UNCHANGED remembered /\ Announcing({})

Act(m) ==
    /\ seen[m] # Absent
    /\ seen' = [seen EXCEPT ![m] = Absent]
    /\ UNCHANGED <<records, reporting, watched, hours, told, missed, switches>> /\ NoAlertFault
    /\ \/ m = "sla" /\ scanAndDispatchSLA
       \/ m = "version" /\ scanVersions
       \/ m = "capacity" /\ checkCapacity

-----------------------------------------------------------------------------
(* The task is disabled or enabled ("good" stands for enabled), an Agent is *)
(* upgraded or replaced by an older one, its node deleted for good; a       *)
(* target fills, is cleaned, disabled or unreachable.                       *)
Switch(m, value) ==
    /\ switches < MaxSwitches /\ switches' = switches + 1
    /\ watched[m] # value
    /\ m = "sla" => value \in {"good", "gone"}
    /\ m = "version" => watched[m] # "gone"
    /\ watched' = [watched EXCEPT ![m] = value]
    /\ UNCHANGED <<records, reporting, seen, remembered, hours, told, missed>>
    /\ NoAlertFault /\ Announcing({})

HourPasses ==
    /\ hours < MaxHours /\ hours' = hours + 1
    /\ UNCHANGED <<records, reporting, watched, seen, remembered, told, missed, switches>>
    /\ NoAlertFault /\ Announcing({})

(* The Master restarts: reconcileInterruptedOperations closes what runs and *)
(* no active command of an Agent works for; notifications not sent yet are  *)
(* lost, the monitors remember nothing.                                     *)
MasterRestarts ==
    /\ AlertFault
    /\ \E lost \in SUBSET AlertRuns :
         /\ \A id \in AlertRuns \ lost : records[id].status = "running" => records[id].remote
         /\ records' = [id \in AlertRuns |->
              IF id \in lost /\ records[id].status = "running"
              THEN [records[id] EXCEPT !.status = "failed", !.by = "start", !.at = hours]
              ELSE IF id \in reporting \/ (records[id].by = Absent /\ ~records[id].remote)
              THEN [records[id] EXCEPT !.by = "start"] ELSE records[id]]
    /\ reporting' = {}
    /\ seen' = [m \in Monitors |-> Absent] /\ remembered' = [m \in Monitors |-> Absent]
    /\ announced' = [m \in Monitors |-> <<>>]
    /\ UNCHANGED <<watched, hours, told, missed, switches>>

-----------------------------------------------------------------------------
AlertsInit ==
    /\ records = <<>> /\ reporting = {} /\ told = {} /\ missed = {}
    /\ watched = [m \in Monitors |-> "good"]
    /\ seen = [m \in Monitors |-> Absent] /\ remembered = [m \in Monitors |-> Absent]
    /\ announced = [m \in Monitors |-> <<>>]
    /\ hours = 0 /\ switches = 0 /\ alertFaults = 0

AlertsNext ==
    \/ BeginRun
    \/ \E id \in AlertRuns :
         \/ \E status \in {"failed", "success"} : FinalizeRun(id, status) \/ AgentCloses(id, status)
         \/ TellFailure(id) \/ RemoveRecord(id)
    \/ \E m \in Monitors :
         Look(m) \/ Act(m) \/ \E value \in {"good", "bad", "gone"} : Switch(m, value)
    \/ HourPasses
    \/ MasterRestarts

AlertsSpec == AlertsInit /\ [][AlertsNext]_alertVars

-----------------------------------------------------------------------------
(* The last run, when it ended as one of Threshold failures in a row, was   *)
(* told to every channel that wants failures, although the decision is      *)
(* taken from records that the next run, a deletion or a restart may have   *)
(* changed since the run stored its own.                                    *)
FailuresTold ==
    LET last == Len(records) IN
    (/\ reporting = {} /\ last >= Threshold /\ last > 0
     /\ records[last].by = "run" /\ records[last].status = "failed" /\ last \notin missed
     /\ \A id \in last - Threshold + 1 .. last : id \in AlertRuns => records[id].status = "failed")
       => \A c \in collectSubscribers("backup_failed") : <<c, last>> \in told

(* While a condition lasts it is announced again only after Reset, a full   *)
(* target only once, although a scan announces what it read before.         *)
Sparing ==
    /\ Len(announced["capacity"]) <= 1
    /\ \A m \in Monitors : \A i, j \in DOMAIN announced[m] :
         i < j => announced[m][j] - announced[m][i] >= Reset

AlertsAreDue == FailuresTold /\ Sparing
=============================================================================
