----------------------------- MODULE BackgroundJobs -----------------------------
(***************************************************************************)
(* Restores, verifications and replications of backups, and the life of    *)
(* the Master around them.                                                 *)
(*                                                                         *)
(* A job is a row that is created as running by a request or a cron entry, *)
(* handed over to the Supervisor, waits for one of a few slots, works on   *)
(* objects that may be deleted meanwhile, and closes its row. A restore    *)
(* for another node is handed over to its Agent through the command queue. *)
(* The Master may be told to stop at any time: the scheduler, the HTTP     *)
(* server and the Supervisor are stopped in this order, each for at most   *)
(* the time a deadline leaves; or it crashes. At its next start it closes  *)
(* the rows that nobody works on.                                          *)
(***************************************************************************)
EXTENDS Naturals, Sequences, FiniteSets

CONSTANTS
  Jobs,      \* rows of restore_records, verification_records, replication_records
  Sources,   \* backup records
  BaseOf,    \* the full backup a differential one builds on
  None,      \* no record: a full backup has no base
  Requests,  \* what may be asked for: the kinds of jobs and their backup records
  Slots,     \* concurrent jobs of a service
  Hazards,   \* what may go wrong in a behaviour
  MaxFaults  \* bound: faults in one behaviour

Kinds == {"restore", "remote", "verify", "drill", "copy"}

ASSUME JobsAssumption ==
  /\ None \notin Sources
  /\ BaseOf \in [Sources -> Sources \cup {None}]
  /\ Requests \in [Jobs -> SUBSET (Kinds \X Sources)]
  /\ Slots \in Nat \ {0}
  /\ MaxFaults \in Nat

VARIABLES
  record,     \* backup_records that exist (successful ones)
  object,     \* artifacts in storage
  copied,     \* artifacts at the destination of replications
  kind,       \* what each job is: a restore on the Master or another node, ...
  source,     \* the backup record it works on
  row,        \* status of its row
  job,        \* what the Master does for it
  applied,    \* the artifacts a job has restored, checked or copied, in order
  command,    \* restore_record commands
  agent,      \* what the Agent does for it
  handler,    \* the statuses that requests of the Agent are about to save with the row they read
  app,        \* phase of Application
  cancelled,  \* the Supervisor's context is cancelled
  stopping,   \* the Supervisor's Shutdown has begun
  drained,    \* ... and all tasks it had accepted are over
  late,       \* the deadline of the shutdown has passed
  faults      \* faults met so far

data   == <<record, object, copied>>
what   == <<kind, source>>
remote == <<command, agent, handler>>
master == <<app, cancelled, stopping, drained, late>>
jobVars == <<record, object, copied, kind, source, row, job, applied, command, agent,
             handler, app, cancelled, stopping, drained, late, faults>>

-----------------------------------------------------------------------------
Terminal == {"success", "failed"}
Local(j) == kind[j] # "remote"
Cron(j)  == kind[j] = "drill"

(* What the content of a backup takes: a restore of a differential one     *)
(* begins with the full one.                                               *)
Needs(j) ==
  LET r == source[j] IN
  IF kind[j] \in {"restore", "remote"} /\ BaseOf[r] # None THEN <<BaseOf[r], r>> ELSE <<r>>

(* What the job goes through: the specification for an Agent names one     *)
(* artifact, whatever it builds on.                                        *)
Chain(j) == IF Local(j) THEN Needs(j) ELSE <<source[j]>>
Todo(j) == SubSeq(Chain(j), Len(applied[j]) + 1, Len(Chain(j)))

Accepted(j) == job[j].pc \in {"waiting", "resolve", "working", "ending"}

Stages == [pc : {"idle", "created", "waiting", "resolve", "working", "ending", "over"}, ok : BOOLEAN]

(* "gone" is an Agent that lives and does nothing for the command (any     *)
(* more), "dead" one whose process has ended.                              *)
AgentStates == {"idle", "working", "logging", "logged", "restored", "refused", "sent",
                "result", "complaint", "gone", "dead"}

JobsTypeOK ==
  /\ record \subseteq Sources /\ object \subseteq Sources /\ copied \subseteq Sources
  /\ kind \in [Jobs -> Kinds \cup {"none"}]
  /\ source \in [Jobs -> Sources \cup {None}]
  /\ row \in [Jobs -> {"none", "running"} \cup Terminal]
  /\ job \in [Jobs -> Stages]
  /\ applied \in [Jobs -> Seq(Sources)]
  /\ \A j \in Jobs : applied[j] \in {<<>>, <<Head(Chain(j))>>, Chain(j)}
  /\ command \in [Jobs -> {"none", "pending", "dispatched", "succeeded", "failed", "timeout"}]
  /\ agent \in [Jobs -> AgentStates]
  /\ handler \in [Jobs -> SUBSET ({"running"} \cup Terminal)]
  /\ app \in {"up", "cron", "http", "background", "down"}
  /\ cancelled \in BOOLEAN /\ stopping \in BOOLEAN /\ drained \in BOOLEAN /\ late \in BOOLEAN
  /\ faults \subseteq Hazards

JobsInit ==
  /\ record = Sources /\ object = Sources /\ copied = {}
  /\ kind = [j \in Jobs |-> "none"]
  /\ source = [j \in Jobs |-> None]
  /\ row = [j \in Jobs |-> "none"]
  /\ job = [j \in Jobs |-> [pc |-> "idle", ok |-> FALSE]]
  /\ applied = [j \in Jobs |-> <<>>]
  /\ command = [j \in Jobs |-> "none"]
  /\ agent = [j \in Jobs |-> "idle"]
  /\ handler = [j \in Jobs |-> {}]
  /\ app = "up"
  /\ cancelled = FALSE /\ stopping = FALSE /\ drained = FALSE /\ late = FALSE
  /\ faults = {}

(* An access to storage ("storage") or the database ("db") fails, a call   *)
(* of the Agent gets lost ("lost"), the Agent dies ("agent"), its node is  *)
(* cut off for longer than a lease ("partition"), a shutdown takes too     *)
(* long ("late"), the Master dies ("crash").                               *)
Fault(k) ==
  /\ k \in Hazards
  /\ k \notin faults
  /\ Cardinality(faults) < MaxFaults
  /\ faults' = faults \cup {k}

Goto(j, pc) == job' = [job EXCEPT ![j].pc = pc]
Close(j, s) == row' = [row EXCEPT ![j] = s]

-----------------------------------------------------------------------------
(* Requests. HTTP requests are taken until the server is shut down, cron   *)
(* entries fire while the scheduler runs. The record must be a successful  *)
(* one. Differential backups are made on the Master only; where they are   *)
(* restored is up to the node of the task, which may have moved meanwhile. *)
Begin(j, k, r) ==
  /\ row[j] = "none"
  /\ r \in record
  /\ <<k, r>> \in Requests[j]
  /\ kind' = [kind EXCEPT ![j] = k]
  /\ source' = [source EXCEPT ![j] = r]
  /\ Close(j, "running")
  /\ Goto(j, "created")
  /\ UNCHANGED <<data, applied, remote, master, faults>>

Serving == app \in {"up", "cron"}
StartRestore(j) ==
  /\ Serving
  /\ \E r \in Sources : Begin(j, "restore", r) \/ Begin(j, "remote", r)
StartVerification(j) == Serving /\ \E r \in Sources : Begin(j, "verify", r)
StartByTask(j)       == app = "up" /\ \E r \in Sources : Begin(j, "drill", r)
StartReplication(j)  == Serving /\ \E r \in Sources : Begin(j, "copy", r)

(* Mutant: the Supervisor does not look whether it is stopping. *)
GoUnchecked(j) ==
  /\ job[j].pc = "created"
  /\ Local(j)
  /\ Goto(j, "waiting")
  /\ UNCHANGED <<data, what, row, applied, remote, master, faults>>

(* Supervisor.Go under its mutex, with the refusal of the service. The row *)
(* of a refused job is closed with the context of the caller: that of a    *)
(* cron entry is the cancelled one, so that its row stays.                 *)
Go(j) ==
  /\ job[j].pc = "created"
  /\ Local(j)
  /\ IF stopping \/ cancelled
     THEN /\ Goto(j, "over")
          /\ IF Cron(j) THEN UNCHANGED row ELSE Close(j, "failed")
     ELSE /\ Goto(j, "waiting")
          /\ UNCHANGED row
  /\ UNCHANGED <<data, what, applied, remote, master, faults>>

GoFails(j) ==
  /\ job[j].pc = "created"
  /\ Local(j)
  /\ stopping \/ cancelled
  /\ Fault("db")
  /\ Goto(j, "over")
  /\ UNCHANGED <<data, what, row, applied, remote, master>>

(* acquireBackgroundSlot: the semaphore of the service, or the cancelled   *)
(* context. The slot is given back before the row is closed.               *)
Service(k) == IF k = "drill" THEN "verify" ELSE k
Holders(k) == {j \in Jobs : Service(kind[j]) = Service(k) /\ job[j].pc \in {"resolve", "working"}}
TakeSlot(j) ==
  /\ job[j].pc = "waiting"
  /\ Cardinality(Holders(kind[j])) < Slots
  /\ Goto(j, "resolve")
  /\ UNCHANGED <<data, what, row, applied, remote, master, faults>>

(* Mutant: a job whose context is cancelled just returns. *)
AbandonSilently(j) ==
  /\ job[j].pc \in {"waiting", "resolve", "working"}
  /\ cancelled
  /\ job' = [job EXCEPT ![j] = [pc |-> "over", ok |-> FALSE]]
  /\ UNCHANGED <<data, what, row, applied, remote, master, faults>>

(* The wait for a slot and any access to storage end with the context. *)
Abandon(j) ==
  /\ job[j].pc \in {"waiting", "resolve", "working"}
  /\ cancelled
  /\ job' = [job EXCEPT ![j] = [pc |-> "ending", ok |-> FALSE]]
  /\ UNCHANGED <<data, what, row, applied, remote, master, faults>>

(* buildRestoreChain reads the base of a differential backup. *)
Resolve(j) ==
  /\ job[j].pc = "resolve"
  /\ job' = [job EXCEPT ![j] =
       IF Len(Chain(j)) > 1 /\ Head(Chain(j)) \notin record
       THEN [pc |-> "ending", ok |-> FALSE] ELSE [pc |-> "working", ok |-> FALSE]]
  /\ UNCHANGED <<data, what, row, applied, remote, master, faults>>

(* Mutant: a job whose artifact has gone ends as if it had worked on it. *)
WorkSkips(j) ==
  /\ job[j].pc = "working"
  /\ Todo(j) # <<>>
  /\ applied' = [applied EXCEPT ![j] = IF Head(Todo(j)) \in object THEN Append(@, Head(Todo(j))) ELSE @]
  /\ job' = [job EXCEPT ![j] =
       IF Len(Todo(j)) > 1 /\ Head(Todo(j)) \in object THEN @ ELSE [pc |-> "ending", ok |-> TRUE]]
  /\ copied' = IF kind[j] = "copy" THEN copied \cup {source[j]} ELSE copied
  /\ UNCHANGED <<record, object, what, row, remote, master, faults>>

(* One artifact after the other; one that is not there any more ends it. *)
Work(j) ==
  /\ job[j].pc = "working"
  /\ Todo(j) # <<>>
  /\ IF Head(Todo(j)) \in object
     THEN /\ applied' = [applied EXCEPT ![j] = Append(@, Head(Todo(j)))]
          /\ job' = [job EXCEPT ![j] = IF Len(Todo(j)) > 1 THEN @
                                       ELSE [pc |-> "ending", ok |-> TRUE]]
          /\ copied' = IF kind[j] = "copy" THEN copied \cup {source[j]} ELSE copied
     ELSE /\ job' = [job EXCEPT ![j] = [pc |-> "ending", ok |-> FALSE]]
          /\ UNCHANGED <<applied, copied>>
  /\ UNCHANGED <<record, object, what, row, remote, master, faults>>

WorkFails(j) ==
  /\ job[j].pc \in {"resolve", "working"}
  /\ Fault("storage")
  /\ job' = [job EXCEPT ![j] = [pc |-> "ending", ok |-> FALSE]]
  /\ UNCHANGED <<data, what, row, applied, remote, master>>

(* finalizeWithLog, finalize, finalizeReplication: with a context of their *)
(* own, so that a cancelled job can close its row as well.                 *)
Finalize(j) ==
  /\ job[j].pc = "ending"
  /\ Close(j, IF job[j].ok THEN "success" ELSE "failed")
  /\ Goto(j, "over")
  /\ UNCHANGED <<data, what, applied, remote, master, faults>>

FinalizeFails(j) ==
  /\ job[j].pc = "ending"
  /\ Fault("db")
  /\ Goto(j, "over")
  /\ UNCHANGED <<data, what, row, applied, remote, master>>

-----------------------------------------------------------------------------
(* A restore on another node. *)

(* EnqueueCommand; a node that is offline gets none. *)
Dispatch(j) ==
  /\ job[j].pc = "created"
  /\ ~Local(j)
  /\ \/ /\ command' = [command EXCEPT ![j] = "pending"]
        /\ UNCHANGED row
     \/ /\ Close(j, "failed")
        /\ UNCHANGED command
  /\ Goto(j, "over")
  /\ UNCHANGED <<data, what, applied, agent, handler, master, faults>>

(* Neither the command nor the failure is stored. *)
DispatchFails(j) ==
  /\ job[j].pc = "created"
  /\ ~Local(j)
  /\ Fault("db")
  /\ Goto(j, "over")
  /\ UNCHANGED <<data, what, row, applied, remote, master>>

(* The Agent polls the command. *)
Claim(j) ==
  /\ Serving
  /\ command[j] = "pending"
  /\ agent[j] = "idle"
  /\ command' = [command EXCEPT ![j] = "dispatched"]
  /\ agent' = [agent EXCEPT ![j] = "working"]
  /\ UNCHANGED <<data, what, row, job, applied, handler, master, faults>>

(* ... but does not get the answer. *)
ClaimLost(j) ==
  /\ Serving
  /\ command[j] = "pending"
  /\ agent[j] = "idle"
  /\ Fault("lost")
  /\ command' = [command EXCEPT ![j] = "dispatched"]
  /\ agent' = [agent EXCEPT ![j] = "gone"]
  /\ UNCHANGED <<data, what, row, job, applied, handler, master>>

(* UpdateAgentRestore reads the row, leaves it alone if it has settled, or *)
(* is about to save it: with the status of a report or, for a line of the  *)
(* log, with the one it read. The Agent waits for the answer, in state to, *)
(* or has it already and goes on in state next.                            *)
Update(j, status, to, next) ==
  IF Serving /\ row[j] = "running"
  THEN /\ handler' = [handler EXCEPT ![j] = @ \cup {status}]
       /\ agent' = [agent EXCEPT ![j] = to]
  ELSE /\ agent' = [agent EXCEPT ![j] = next]
       /\ UNCHANGED handler

(* A line of its log; an Agent that cannot deliver it goes on. *)
AgentLog(j) ==
  /\ agent[j] = "working"
  /\ Update(j, "running", "logging", "logged")
  /\ UNCHANGED <<data, what, row, job, applied, command, master, faults>>

(* Mutant: an Agent that could not get the artifact carries on. *)
AgentRestoresAnyway(j) ==
  /\ agent[j] \in {"working", "logged"}
  /\ applied' = [applied EXCEPT ![j] = IF source[j] \in object THEN Chain(j) ELSE @]
  /\ agent' = [agent EXCEPT ![j] = IF Serving /\ source[j] \in record THEN "restored" ELSE "refused"]
  /\ UNCHANGED <<data, what, row, job, command, handler, master, faults>>

(* ExecuteRestore: the specification needs the backup's row, the artifact  *)
(* is downloaded from storage or through the Master.                       *)
AgentRestore(j) ==
  /\ agent[j] \in {"working", "logged"}
  /\ IF Serving /\ source[j] \in record \cap object
     THEN /\ applied' = [applied EXCEPT ![j] = Chain(j)]
          /\ agent' = [agent EXCEPT ![j] = "restored"]
     ELSE /\ agent' = [agent EXCEPT ![j] = "refused"]
          /\ UNCHANGED applied
  /\ UNCHANGED <<data, what, row, job, command, handler, master, faults>>

AgentFails(j) ==
  /\ agent[j] \in {"working", "logged"}
  /\ Fault("storage")
  /\ agent' = [agent EXCEPT ![j] = "refused"]
  /\ UNCHANGED <<data, what, row, job, applied, command, handler, master>>

(* Its report; one that does not reach the Master makes the command fail.  *)
AgentReport(j) ==
  /\ agent[j] \in {"restored", "refused"}
  /\ LET good == agent[j] = "restored" IN
     Update(j, IF good THEN "success" ELSE "failed", "sent",
            IF good /\ Serving THEN "result" ELSE "complaint")
  /\ UNCHANGED <<data, what, row, job, applied, command, master, faults>>

(* The request whose status is s is the one the Agent waits for. *)
Awaits(j, s) == agent[j] = IF s = "running" THEN "logging" ELSE "sent"
Answered(s)  == CASE s = "running" -> "logged" [] s = "success" -> "result" [] OTHER -> "complaint"

ReportSave(j) ==
  \E s \in handler[j] :
    /\ Close(j, s)
    /\ handler' = [handler EXCEPT ![j] = @ \ {s}]
    /\ agent' = [agent EXCEPT ![j] = IF Awaits(j, s) THEN Answered(s) ELSE @]
    /\ UNCHANGED <<data, what, job, applied, command, master, faults>>

(* A request the Agent has given up may be cancelled before it saves. *)
ReportDropped(j) ==
  \E s \in handler[j] :
    /\ ~Awaits(j, s)
    /\ handler' = [handler EXCEPT ![j] = @ \ {s}]
    /\ UNCHANGED <<data, what, row, job, applied, command, agent, master, faults>>

(* A request that does not arrive or is not answered in time, although the *)
(* Master may still work on it: a line of the log is forgotten, a report   *)
(* makes the command fail, and a result, which is tried three times within *)
(* a few seconds, is given up.                                             *)
AfterLoss == [logging |-> "logged", restored |-> "complaint", refused |-> "complaint",
              sent |-> "complaint", result |-> "gone", complaint |-> "gone"]
RequestLost(j) ==
  /\ agent[j] \in DOMAIN AfterLoss
  /\ Fault("lost")
  /\ agent' = [agent EXCEPT ![j] = AfterLoss[@]]
  /\ UNCHANGED <<data, what, row, job, applied, command, handler, master>>

(* SubmitCommandResult, which closes the row of a failed command. The      *)
(* attempts are soon over while the Master does not serve.                 *)
AgentResult(j) ==
  /\ agent[j] \in {"result", "complaint"}
  /\ IF Serving /\ command[j] = "dispatched"
     THEN IF agent[j] = "result"
          THEN /\ command' = [command EXCEPT ![j] = "succeeded"]
               /\ UNCHANGED row
          ELSE /\ command' = [command EXCEPT ![j] = "failed"]
               /\ IF row[j] = "running" THEN Close(j, "failed") ELSE UNCHANGED row
     ELSE UNCHANGED <<command, row>>
  /\ agent' = [agent EXCEPT ![j] = "gone"]
  /\ UNCHANGED <<data, what, job, applied, handler, master, faults>>

(* The process of the Agent ends, and perhaps begins again: it knows       *)
(* nothing of a command it had, and its heartbeats go on.                  *)
AgentDies(j) ==
  /\ command[j] # "none"
  /\ agent[j] # "dead"
  /\ Fault("agent")
  /\ agent' = [agent EXCEPT ![j] = "dead"]
  /\ UNCHANGED <<data, what, row, job, applied, command, handler, master>>

AgentStarts(j) ==
  /\ agent[j] = "dead"
  /\ agent' = [agent EXCEPT ![j] = IF command[j] = "pending" THEN "idle" ELSE "gone"]
  /\ UNCHANGED <<data, what, row, job, applied, command, handler, master, faults>>

(* A command that waits for too long, or was dispatched long ago and has   *)
(* no lease: the heartbeats of the node renew that of a command whose row  *)
(* runs, whatever the Agent does.                                          *)
Overdue(j) ==
  \/ command[j] = "pending"
  \/ command[j] = "dispatched" /\ (row[j] # "running" \/ agent[j] = "dead")

TimeOut(j) ==
  /\ ~cancelled /\ app # "down"
  /\ handler[j] = {}
  /\ command' = [command EXCEPT ![j] = "timeout"]
  /\ UNCHANGED <<data, what, job, applied, agent, handler, master>>

(* Mutant: a command that times out leaves its row alone. *)
ExpireCommandOnly(j) ==
  /\ TimeOut(j)
  /\ Overdue(j)
  /\ UNCHANGED <<row, faults>>

(* The timeout monitor. It waits much longer than any request lasts.       *)
Expire(j) ==
  /\ TimeOut(j)
  /\ Overdue(j)
  /\ IF row[j] = "running" THEN Close(j, "failed") ELSE UNCHANGED row
  /\ UNCHANGED faults

(* No heartbeat arrives for longer than a lease, although the Agent lives. *)
CutOff(j) ==
  /\ TimeOut(j)
  /\ command[j] = "dispatched"
  /\ Fault("partition")
  /\ IF row[j] = "running" THEN Close(j, "failed") ELSE UNCHANGED row

(* failLinkedRecord fails after the command has timed out. *)
ExpireFails(j) ==
  /\ TimeOut(j)
  /\ Overdue(j)
  /\ Fault("db")
  /\ UNCHANGED row

-----------------------------------------------------------------------------
(* Retention or an operator deletes a backup: the object, then its row. A  *)
(* full backup goes after its differentials.                               *)
DeleteObject(r) ==
  /\ app # "down"
  /\ r \in record
  /\ \A d \in record : BaseOf[d] # r
  /\ object' = object \ {r}
  /\ UNCHANGED <<record, copied, what, row, job, applied, remote, master, faults>>

DeleteRow(r) ==
  /\ app # "down"
  /\ r \in record \ object
  /\ record' = record \ {r}
  /\ UNCHANGED <<object, copied, what, row, job, applied, remote, master, faults>>

-----------------------------------------------------------------------------
(* Run and Shutdown of the application. A signal cancels the context the   *)
(* Supervisor's is made from at once, a failed server does not.            *)
BeginShutdown ==
  /\ app = "up"
  /\ app' = "cron"
  /\ cancelled' \in BOOLEAN
  /\ UNCHANGED <<data, what, row, job, applied, remote, stopping, drained, late, faults>>

(* Scheduler.Stop waits for the cron entries that run. *)
StopScheduler ==
  /\ app = "cron"
  /\ late \/ \A j \in Jobs : Cron(j) => job[j].pc # "created"
  /\ app' = "http"
  /\ UNCHANGED <<data, what, row, job, applied, remote, cancelled, stopping, drained, late, faults>>

(* Shutdown of the server waits for the requests that run. Then begins the *)
(* Supervisor's: under its mutex, once.                                    *)
StopServer ==
  /\ app = "http"
  /\ late \/ \A j \in Jobs : handler[j] = {} /\ (~Cron(j) => job[j].pc # "created")
  /\ app' = "background"
  /\ stopping' = TRUE
  /\ cancelled' = TRUE
  /\ UNCHANGED <<data, what, row, job, applied, remote, drained, late, faults>>

(* wg.Wait returns. *)
Drain ==
  /\ app # "down"
  /\ stopping
  /\ ~drained
  /\ \A j \in Jobs : ~Accepted(j)
  /\ drained' = TRUE
  /\ UNCHANGED <<data, what, row, job, applied, remote, app, cancelled, stopping, late, faults>>

Expired ==
  /\ app \in {"cron", "http", "background"}
  /\ ~late
  /\ Fault("late")
  /\ late' = TRUE
  /\ UNCHANGED <<data, what, row, job, applied, remote, app, cancelled, stopping, drained>>

(* The process ends, and with it whatever still ran. *)
Killed ==
  /\ job' = [j \in Jobs |-> IF job[j].pc = "idle" THEN job[j] ELSE [pc |-> "over", ok |-> FALSE]]
  /\ handler' = [j \in Jobs |-> {}]
  /\ agent' = [j \in Jobs |->
       IF agent[j] \in {"logging", "sent"} THEN AfterLoss[agent[j]] ELSE agent[j]]
Exit ==
  /\ app = "background"
  /\ drained \/ late
  /\ app' = "down"
  /\ Killed
  /\ UNCHANGED <<data, what, row, applied, command, cancelled, stopping, drained, late, faults>>

Crash ==
  /\ app # "down"
  /\ Fault("crash")
  /\ app' = "down"
  /\ Killed
  /\ UNCHANGED <<data, what, row, applied, command, cancelled, stopping, drained, late>>

(* Mutant: only the rows of verifications are closed. *)
StartUpBackupsOnly ==
  /\ app = "down"
  /\ row' = [j \in Jobs |-> IF row[j] = "running" /\ kind[j] = "verify" THEN "failed" ELSE row[j]]
  /\ app' = "up"
  /\ cancelled' = FALSE /\ stopping' = FALSE /\ drained' = FALSE /\ late' = FALSE
  /\ UNCHANGED <<data, what, job, applied, remote, faults>>

(* reconcileInterruptedOperations, before anything else runs. *)
StartUp ==
  /\ app = "down"
  /\ row' = [j \in Jobs |->
       IF row[j] = "running" /\ command[j] \notin {"pending", "dispatched"} THEN "failed" ELSE row[j]]
  /\ app' = "up"
  /\ cancelled' = FALSE /\ stopping' = FALSE /\ drained' = FALSE /\ late' = FALSE
  /\ UNCHANGED <<data, what, job, applied, remote, faults>>

-----------------------------------------------------------------------------
MasterStep(j) ==
  Go(j) \/ TakeSlot(j) \/ Abandon(j) \/ Resolve(j) \/ Work(j) \/ Finalize(j) \/ Dispatch(j)
  \/ ReportSave(j) \/ Expire(j)
AgentStep(j) == Claim(j) \/ AgentLog(j) \/ AgentRestore(j) \/ AgentReport(j) \/ AgentResult(j)
Shutdown == StopScheduler \/ StopServer \/ Drain \/ Exit \/ StartUp

JobsNext ==
  \/ \E j \in Jobs :
       \/ StartRestore(j) \/ StartVerification(j) \/ StartByTask(j) \/ StartReplication(j)
       \/ MasterStep(j) \/ AgentStep(j)
       \/ GoFails(j) \/ WorkFails(j) \/ FinalizeFails(j) \/ DispatchFails(j)
       \/ ClaimLost(j) \/ AgentFails(j) \/ RequestLost(j) \/ ReportDropped(j)
       \/ AgentDies(j) \/ AgentStarts(j) \/ CutOff(j) \/ ExpireFails(j)
  \/ \E r \in Sources : DeleteObject(r) \/ DeleteRow(r)
  \/ BeginShutdown \/ Shutdown \/ Expired \/ Crash

(* What runs goes on: goroutines, the shutdown, an Agent that lives, the   *)
(* monitor. Whether anyone stops the Master is left open; one that is down *)
(* is started again, and one that is started again and again is up for     *)
(* long enough for the polls of an Agent and for the monitor.              *)
JobsFairness ==
  /\ \A j \in Jobs : SF_jobVars(MasterStep(j)) /\ SF_jobVars(AgentStep(j))
  /\ WF_jobVars(Shutdown)

JobsSpec == JobsInit /\ [][JobsNext]_jobVars /\ JobsFairness

-----------------------------------------------------------------------------
(* Nothing the Supervisor has accepted runs once its Shutdown has          *)
(* returned: the database may be closed. (Supervisor: Add and the          *)
(* transition to Wait exclude each other.)                                 *)
Drained == drained => \A j \in Jobs : ~Accepted(j)

(* A shutdown that met no deadline and no fault leaves no running row of a *)
(* local job: what could not be started and what was cancelled has been    *)
(* closed. Verifications of a cron entry that were being started are the   *)
(* exception (see Go).                                                     *)
CleanExit ==
  app = "down" /\ faults = {}
    => \A j \in Jobs : (Local(j) /\ ~Cron(j)) => row[j] # "running"

(* A successful row says the truth, whatever was deleted meanwhile: what   *)
(* the backup needs was restored, base first, or the artifact was read as  *)
(* a whole, or is at the destination. Of a differential backup restored on *)
(* another node this is only known of the increment.                       *)
Increment(j) == kind[j] = "remote" /\ BaseOf[source[j]] # None
Honest ==
  \A j \in Jobs : row[j] = "success" =>
    /\ applied[j] = IF Increment(j) THEN <<source[j]>> ELSE Needs(j)
    /\ kind[j] = "copy" => source[j] \in copied

(* No restore that succeeds is a partial one, wherever it ran (the comment *)
(* of buildRestoreChain): an increment an Agent applied alone is one.      *)
WholeChain ==
  \A j \in Jobs : row[j] = "success" /\ kind[j] \in {"restore", "remote"} => applied[j] = Needs(j)

(* Nobody works on the command of j, and the heartbeats of the node renew  *)
(* its lease: the Agent has started again or given up its result.          *)
Leased(j) == row[j] = "running" /\ command[j] = "dispatched" /\ agent[j] = "gone"

(* A row that was closed and opened again: the request that saved a line   *)
(* of the log, given up by the Agent, was late.                            *)
Reopened(j) ==
  row[j] = "running" /\ "lost" \in faults /\ command[j] \in {"succeeded", "failed", "timeout"}

(* Every row is closed in the end, unless the database fails: by the job,  *)
(* the Agent, the monitor or the next start. A cron entry's needs one, and *)
(* so does one that was opened again. The exception is a row that is       *)
(* leased; as soon as it is not any more, it has to be closed again.       *)
EveryRowCloses ==
  \A j \in Jobs :
    (row[j] = "running")
      ~> (row[j] \in Terminal \/ Cron(j) \/ "db" \in faults \/ Reopened(j) \/ Leased(j))
===============================================================================
