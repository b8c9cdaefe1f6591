----------------------------- MODULE AgentCommands -----------------------------
(***************************************************************************)
(* The command queue between the Master and its Agents, with the backup    *)
(* record every run_task command is linked to.                             *)
(*                                                                         *)
(* One element of Cmds is one run of a task routed to a remote node: the   *)
(* BackupRecord that startTask creates and the AgentCommand it enqueues    *)
(* for it.  The Master handles every HTTP request of an Agent in a         *)
(* goroutine of its own (a slot); a handler reads rows, decides, and saves *)
(* whole rows later, so its steps interleave with the other handlers, with *)
(* the command timeout monitor and with a restart of the Master.  An Agent *)
(* is one process that polls, executes one command at a time and reports;  *)
(* a request of it may be lost, or be given up while the Master is still   *)
(* working on it.  Several Agent processes may carry one node's token.     *)
(*                                                                         *)
(* Time is the two facts the code tests: whether a row is younger than the *)
(* ten minute threshold (fresh) and whether a node is online.              *)
(***************************************************************************)
EXTENDS Naturals, FiniteSets

CONSTANTS
  Nodes,        \* remote nodes
  Agents,       \* agent processes
  Cmds,         \* ids of commands (and of their linked records), 1..N
  Slots,        \* goroutines of the Master's HTTP server
  NodeOf,       \* the node whose token an agent process carries
  Target,       \* the node a command is enqueued for
  None,         \* no agent, no slot
  FaultKinds,   \* the faults a run may meet
  MaxFaults,    \* bound: faults in one behaviour
  MaxLogs,      \* bound: log lines an execution sends
  MaxTries      \* attempts of submitCommandResult (three in the code)

ASSUME AgentCommandsAssumption ==
  /\ Cmds \subseteq Nat \ {0}
  /\ NodeOf \in [Agents -> Nodes]
  /\ Target \in [Cmds -> Nodes]
  /\ None \notin Slots \cup Agents
  /\ MaxFaults \in Nat
  /\ MaxLogs \in Nat
  /\ MaxTries \in Nat \ {0}

NoCmd == 0

VARIABLES
  start,     \* progress of startTask for the run
  cmd,       \* AgentCommand.Status
  rec,       \* BackupRecord.Status of the linked record
  cmdFresh,  \* commands created / dispatched after the timeout threshold
  recFresh,  \* records updated after the timeout threshold
  online,    \* nodes with Status = online
  handler,   \* the request each slot is working on
  agent,     \* local state of each agent process
  wait,      \* the slot whose reply an agent awaits
  mon,       \* the command timeout monitor
  outcome,   \* what the execution of the command really came to
  faults     \* faults so far

vars == <<start, cmd, rec, cmdFresh, recFresh, online, handler, agent, wait,
          mon, outcome, faults>>

-----------------------------------------------------------------------------
Active    == {"pending", "dispatched"}
Verdicts  == {"succeeded", "failed", "timeout"}
RecDone   == {"success", "failed"}

Updates   == {"log", "success", "failed"}    \* UpdateRecord requests
Results   == {"ok", "err"}                   \* SubmitCommandResult requests
Kinds     == {"poll"} \cup Updates \cup Results
Detached  == {"converge", "fail"}            \* past the agent's own context
Phases    == {"free", "received", "selected", "read", "found", "retry", "refail"} \cup Detached

Handler   == [phase : Phases, kind : Kinds, by : Agents \cup {None},
              cmd : Cmds \cup {NoCmd}]

AgentPcs  == {"down", "idle", "polling", "working", "logging", "closing",
              "reporting", "submitting"}
AgentState == [pc : AgentPcs, cmd : Cmds \cup {NoCmd},
               out : {"none", "success", "failure"}, tries : 0..MaxTries, logs : 0..MaxLogs]
Idle == [pc |-> "idle", cmd |-> NoCmd, out |-> "none", tries |-> 0, logs |-> 0]

MonState  == [pc : {"idle", "scan", "timeout", "read", "fail"}, todo : SUBSET Cmds,
              sawPending : SUBSET Cmds, cur : Cmds \cup {NoCmd}]
MonIdle   == [pc |-> "idle", todo |-> {}, sawPending |-> {}, cur |-> NoCmd]

TypeOK ==
  /\ start \in [Cmds -> {"new", "created", "abort", "done"}]
  /\ cmd \in [Cmds -> {"none"} \cup Active \cup Verdicts]
  /\ rec \in [Cmds -> {"none", "running"} \cup RecDone]
  /\ cmdFresh \in SUBSET Cmds
  /\ recFresh \in SUBSET Cmds
  /\ online \in SUBSET Nodes
  /\ handler \in [Slots -> Handler]
  /\ agent \in [Agents -> AgentState]
  /\ wait \in [Agents -> Slots \cup {None}]
  /\ mon \in MonState
  /\ outcome \in [Cmds -> {"none", "success", "failure"}]
  /\ faults \in 0..MaxFaults

(* A fault of kind k happens in this step: a database error ("db"), a      *)
(* request lost on the way ("lost") or given up while the Master works on  *)
(* it ("abandon"), the end of the time an agent has for the attempts to     *)
(* deliver one result ("deadline"), an agent crash ("crash") and its restart ("restart"), a *)
(* node whose heartbeats stop arriving ("partition"), a Master restart     *)
(* ("master").                                                             *)
Fault(k) ==
  /\ k \in FaultKinds
  /\ faults < MaxFaults
  /\ faults' = faults + 1

NoFault == UNCHANGED faults

Oldest(c, S) == c \in S /\ \A d \in S : c <= d

Free == [phase |-> "free", kind |-> "poll", by |-> None, cmd |-> NoCmd]

Init ==
  /\ start = [c \in Cmds |-> "new"]
  /\ cmd = [c \in Cmds |-> "none"]
  /\ rec = [c \in Cmds |-> "none"]
  /\ cmdFresh = {}
  /\ recFresh = {}
  /\ online = {NodeOf[a] : a \in Agents}
  /\ handler = [s \in Slots |-> Free]
  /\ agent = [a \in Agents |-> Idle]
  /\ wait = [a \in Agents |-> None]
  /\ mon = MonIdle
  /\ outcome = [c \in Cmds |-> "none"]
  /\ faults = 0

-----------------------------------------------------------------------------
(* Replies.  A handler that ends frees its slot; the agent that still      *)
(* awaits it goes on with the reply, ok or an error.                       *)

AfterReply(ag, ok, c) ==
  CASE ag.pc = "polling" ->
         IF ok /\ c # NoCmd THEN [Idle EXCEPT !.pc = "working", !.cmd = c] ELSE Idle
    [] ag.pc = "logging" -> [ag EXCEPT !.pc = "working"]
    [] ag.pc = "closing" ->
         [ag EXCEPT !.pc = "reporting", !.out = IF ok THEN @ ELSE "failure"]
    [] ag.pc = "submitting" ->
         IF ok \/ ag.tries = MaxTries THEN Idle ELSE [ag EXCEPT !.pc = "reporting"]
    [] OTHER -> ag

Reply(s, ok, c) ==
  /\ handler' = [handler EXCEPT ![s] = Free]
  /\ agent' = [a \in Agents |-> IF wait[a] = s THEN AfterReply(agent[a], ok, c) ELSE agent[a]]
  /\ wait' = [a \in Agents |-> IF wait[a] = s THEN None ELSE wait[a]]

Continue(s, phase) ==
  /\ handler' = [handler EXCEPT ![s].phase = phase]
  /\ UNCHANGED <<agent, wait>>

(* The agent sends a request: a goroutine of the Master receives it.       *)
Send(a, kind, c, next) ==
  \E s \in Slots :
    /\ handler[s].phase = "free"
    /\ handler' = [handler EXCEPT ![s] = [phase |-> "received", kind |-> kind, by |-> a, cmd |-> c]]
    /\ wait' = [wait EXCEPT ![a] = s]
    /\ agent' = [agent EXCEPT ![a] = next]

-----------------------------------------------------------------------------
(* The Master starts a run of a remote task.                               *)

(* The record is created and the task marked running, or its update fails. *)
StartRun(c) ==
  /\ start[c] = "new"
  /\ rec' = [rec EXCEPT ![c] = "running"]
  /\ recFresh' = recFresh \cup {c}
  /\ \/ start' = [start EXCEPT ![c] = "created"] /\ NoFault
     \/ start' = [start EXCEPT ![c] = "abort"] /\ Fault("db")
  /\ UNCHANGED <<cmd, cmdFresh, online, handler, agent, wait, mon, outcome>>

(* The command is enqueued; an offline node or a failed insert aborts.     *)
Route(c) ==
  /\ start[c] = "created"
  /\ \/ /\ Target[c] \in online
        /\ cmd' = [cmd EXCEPT ![c] = "pending"]
        /\ cmdFresh' = cmdFresh \cup {c}
        /\ start' = [start EXCEPT ![c] = "done"]
        /\ NoFault
     \/ /\ start' = [start EXCEPT ![c] = "abort"]
        /\ UNCHANGED <<cmd, cmdFresh>>
        /\ \/ Target[c] \notin online /\ NoFault
           \/ Fault("db")
  /\ UNCHANGED <<rec, recFresh, online, handler, agent, wait, mon, outcome>>

(* finalizeRecord closes the record of a run that was not handed over.     *)
Abort(c) ==
  /\ start[c] = "abort"
  /\ start' = [start EXCEPT ![c] = "done"]
  /\ \/ rec' = [rec EXCEPT ![c] = "failed"] /\ NoFault
     \/ Fault("db") /\ UNCHANGED rec
  /\ UNCHANGED <<cmd, cmdFresh, recFresh, online, handler, agent, wait, mon, outcome>>

-----------------------------------------------------------------------------
(* The Agent.                                                              *)

AgentOnly == UNCHANGED <<start, cmd, rec, cmdFresh, recFresh, online, mon>>

Poll(a) ==
  /\ agent[a].pc = "idle"
  /\ Send(a, "poll", NoCmd, [Idle EXCEPT !.pc = "polling"])
  /\ NoFault /\ AgentOnly /\ UNCHANGED outcome

(* recordLogger.WriteLine: one synchronous UpdateRecord per line.          *)
Log(a) ==
  /\ agent[a].pc = "working"
  /\ agent[a].logs < MaxLogs
  /\ Send(a, "log", agent[a].cmd, [agent[a] EXCEPT !.pc = "logging", !.logs = @ + 1])
  /\ NoFault /\ AgentOnly /\ UNCHANGED outcome

(* Mutant: the executor reports its failure and returns no error.          *)
FinishHidingFailure(a) ==
  /\ agent[a].pc = "working"
  /\ \E o \in {"success", "failure"} :
       /\ outcome' = [outcome EXCEPT ![agent[a].cmd] = o]
       /\ Send(a, IF o = "success" THEN o ELSE "failed", agent[a].cmd,
               [agent[a] EXCEPT !.pc = "closing", !.out = "success"])
  /\ NoFault /\ AgentOnly

(* ExecuteRunTask ends: the artifact is stored and success is reported, or *)
(* some stage failed and the failure is reported.                          *)
Finish(a) ==
  /\ agent[a].pc = "working"
  /\ \/ /\ outcome' = [outcome EXCEPT ![agent[a].cmd] = "success"]
        /\ Send(a, "success", agent[a].cmd, [agent[a] EXCEPT !.pc = "closing", !.out = "success"])
     \/ /\ outcome' = [outcome EXCEPT ![agent[a].cmd] = "failure"]
        /\ Send(a, "failed", agent[a].cmd, [agent[a] EXCEPT !.pc = "closing", !.out = "failure"])
  /\ NoFault /\ AgentOnly

(* submitCommandResult: one of its attempts.                               *)
Submit(a) ==
  /\ agent[a].pc = "reporting"
  /\ agent[a].tries < MaxTries
  /\ Send(a, IF agent[a].out = "success" THEN "ok" ELSE "err", agent[a].cmd,
          [agent[a] EXCEPT !.pc = "submitting", !.tries = @ + 1])
  /\ NoFault /\ AgentOnly /\ UNCHANGED outcome

(* The request did not reach the Master.                                   *)
Lose(a) ==
  /\ wait[a] # None
  /\ handler[wait[a]].phase = "received"
  /\ Fault("lost")
  /\ Reply(wait[a], FALSE, NoCmd)
  /\ AgentOnly /\ UNCHANGED outcome

(* The client timeout fires, or the reply is lost: the agent sees an error *)
(* and the Master's handler goes on by itself.  A result is sent again if  *)
(* this was within the time for all its attempts (see Deadline).           *)
GiveUp(a) ==
  /\ wait[a] # None
  /\ Fault("abandon")
  /\ agent' = [agent EXCEPT ![a] = AfterReply(@, FALSE, NoCmd)]
  /\ wait' = [wait EXCEPT ![a] = None]
  /\ AgentOnly /\ UNCHANGED <<handler, outcome>>

(* The five seconds that all attempts to deliver one result share are over *)
(* (agentFinalizationContext): the loop ends, and a request in flight is   *)
(* given up.                                                               *)
Deadline(a) ==
  /\ agent[a].pc \in {"reporting", "submitting"} /\ agent[a].tries > 0
  /\ Fault("deadline")
  /\ agent' = [agent EXCEPT ![a] = Idle]
  /\ wait' = [wait EXCEPT ![a] = None]
  /\ AgentOnly /\ UNCHANGED <<handler, outcome>>

(* The process dies: it keeps nothing of the command it was executing.     *)
Crash(a) ==
  /\ agent[a].pc # "down"
  /\ Fault("crash")
  /\ agent' = [agent EXCEPT ![a] = [Idle EXCEPT !.pc = "down"]]
  /\ wait' = [wait EXCEPT ![a] = None]
  /\ AgentOnly /\ UNCHANGED <<handler, outcome>>

Restart(a) ==
  /\ agent[a].pc = "down"
  /\ Fault("restart")
  /\ agent' = [agent EXCEPT ![a] = Idle]
  /\ AgentOnly /\ UNCHANGED <<handler, wait, outcome>>

Heartbeat(a) ==
  /\ agent[a].pc # "down"
  /\ NodeOf[a] \notin online
  /\ online' = online \cup {NodeOf[a]}
  /\ NoFault
  /\ UNCHANGED <<start, cmd, rec, cmdFresh, recFresh, handler, agent, wait, mon, outcome>>

-----------------------------------------------------------------------------
(* The Master's handlers, one database access a step.                      *)

MasterOnly == UNCHANGED <<start, online, mon, outcome>>

At(s, phase, kinds) == handler[s].phase = phase /\ handler[s].kind \in kinds

(* Any access may fail: the handler replies with the error.  A client that *)
(* is gone cancels the request's context, and the next access fails for    *)
(* that; only the first convergence of a failed command is detached from   *)
(* it (finalizationContext).                                               *)
Cancelled(s) == handler[s].phase \notin Detached /\ \A a \in Agents : wait[a] # s

HandlerError(s) ==
  /\ handler[s].phase # "free"
  /\ Fault("db") \/ (Cancelled(s) /\ NoFault)
  /\ Reply(s, FALSE, NoCmd)
  /\ MasterOnly /\ UNCHANGED <<cmd, rec, cmdFresh, recFresh>>

(* ClaimPending reads the oldest pending command of the node ...           *)
PollSelect(s) ==
  LET queue == {c \in Cmds : cmd[c] = "pending" /\ Target[c] = NodeOf[handler[s].by]} IN
  /\ At(s, "received", {"poll"})
  /\ \/ queue = {} /\ Reply(s, TRUE, NoCmd)
     \/ \E c \in Cmds :
          /\ Oldest(c, queue)
          /\ handler' = [handler EXCEPT ![s].phase = "selected", ![s].cmd = c]
          /\ UNCHANGED <<agent, wait>>
  /\ NoFault /\ MasterOnly /\ UNCHANGED <<cmd, rec, cmdFresh, recFresh>>

(* Mutant: the update of ClaimPending is not conditional on the status.    *)
ClaimAnyway(s) ==
  /\ At(s, "selected", {"poll"})
  /\ cmd' = [cmd EXCEPT ![handler[s].cmd] = "dispatched"]
  /\ cmdFresh' = cmdFresh \cup {handler[s].cmd}
  /\ Reply(s, TRUE, handler[s].cmd)
  /\ NoFault /\ MasterOnly /\ UNCHANGED <<rec, recFresh>>

(* ... and takes it unless another poll or the monitor was faster.         *)
PollClaim(s) ==
  LET c == handler[s].cmd IN
  /\ At(s, "selected", {"poll"})
  /\ IF cmd[c] = "pending"
       THEN /\ cmd' = [cmd EXCEPT ![c] = "dispatched"]
            /\ cmdFresh' = cmdFresh \cup {c}
            /\ Reply(s, TRUE, c)
       ELSE Reply(s, TRUE, NoCmd) /\ UNCHANGED <<cmd, cmdFresh>>
  /\ NoFault /\ MasterOnly /\ UNCHANGED <<rec, recFresh>>

(* UpdateRecord reads the record; a terminal one is left alone.            *)
UpdateRead(s) ==
  /\ At(s, "received", Updates)
  /\ IF rec[handler[s].cmd] \in RecDone THEN Reply(s, TRUE, NoCmd) ELSE Continue(s, "read")
  /\ NoFault /\ MasterOnly /\ UNCHANGED <<cmd, rec, cmdFresh, recFresh>>

(* It saves the row it read, with the reported status; the summary of the  *)
(* task, written after a terminal report, may still fail.                  *)
UpdateSave(s) ==
  LET c == handler[s].cmd  k == handler[s].kind IN
  /\ At(s, "read", Updates)
  /\ rec' = [rec EXCEPT ![c] = IF k = "log" THEN "running" ELSE k]
  /\ recFresh' = recFresh \cup {c}
  /\ \/ Reply(s, TRUE, NoCmd) /\ NoFault
     \/ k # "log" /\ Reply(s, FALSE, NoCmd) /\ Fault("db")
  /\ MasterOnly /\ UNCHANGED <<cmd, cmdFresh>>

(* Mutant: a repeated failure report is not converged again.               *)
FindWithoutRetry(s) ==
  /\ At(s, "received", Results)
  /\ IF cmd[handler[s].cmd] = "failed" THEN Reply(s, TRUE, NoCmd) ELSE Continue(s, "found")
  /\ NoFault /\ MasterOnly /\ UNCHANGED <<cmd, rec, cmdFresh, recFresh>>

(* SubmitCommandResult reads the command; the retry of a failure report    *)
(* goes straight to the linked record.                                     *)
ResultFind(s) ==
  LET k == handler[s].kind IN
  /\ At(s, "received", Results)
  /\ IF cmd[handler[s].cmd] = "failed"
       THEN IF k = "ok" THEN Reply(s, TRUE, NoCmd) ELSE Continue(s, "retry")
       ELSE Continue(s, "found")
  /\ NoFault /\ MasterOnly /\ UNCHANGED <<cmd, rec, cmdFresh, recFresh>>

(* Mutant: the result is saved whatever became of the command meanwhile.   *)
CompleteAny(s) ==
  LET c == handler[s].cmd  k == handler[s].kind IN
  /\ At(s, "found", Results)
  /\ cmd' = [cmd EXCEPT ![c] = IF k = "ok" THEN "succeeded" ELSE "failed"]
  /\ IF k = "ok" THEN Reply(s, TRUE, NoCmd) ELSE Continue(s, "converge")
  /\ NoFault /\ MasterOnly /\ UNCHANGED <<rec, cmdFresh, recFresh>>

(* CompleteDispatched: only a dispatched command takes the result.         *)
ResultComplete(s) ==
  LET c == handler[s].cmd  k == handler[s].kind IN
  /\ At(s, "found", Results)
  /\ IF cmd[c] # "dispatched"
       THEN Reply(s, TRUE, NoCmd) /\ UNCHANGED cmd
       ELSE /\ cmd' = [cmd EXCEPT ![c] = IF k = "ok" THEN "succeeded" ELSE "failed"]
            /\ IF k = "ok" THEN Reply(s, TRUE, NoCmd) ELSE Continue(s, "converge")
  /\ NoFault /\ MasterOnly /\ UNCHANGED <<rec, cmdFresh, recFresh>>

(* failLinkedRecord reads the record and fails it if it was running.       *)
ConvergeRead(s) ==
  /\ handler[s].phase \in {"converge", "retry"}
  /\ IF rec[handler[s].cmd] # "running"
       THEN Reply(s, TRUE, NoCmd)
       ELSE Continue(s, IF handler[s].phase = "converge" THEN "fail" ELSE "refail")
  /\ NoFault /\ MasterOnly /\ UNCHANGED <<cmd, rec, cmdFresh, recFresh>>

ConvergeSave(s) ==
  /\ handler[s].phase \in {"fail", "refail"}
  /\ rec' = [rec EXCEPT ![handler[s].cmd] = "failed"]
  /\ Reply(s, TRUE, NoCmd)
  /\ NoFault /\ MasterOnly /\ UNCHANGED <<cmd, cmdFresh, recFresh>>

-----------------------------------------------------------------------------
(* The command timeout monitor (processStaleCommands).                     *)

MonOnly == UNCHANGED <<start, cmdFresh, recFresh, online, handler, agent, wait, outcome>>

(* Mutant: only dispatched commands are looked for (ListStaleDispatched).  *)
ScanDispatched ==
  LET stale == {c \in Cmds : cmd[c] = "dispatched" /\ c \notin cmdFresh} IN
  /\ mon.pc = "idle"
  /\ stale # {}
  /\ mon' = [MonIdle EXCEPT !.pc = "scan", !.todo = stale]
  /\ NoFault /\ MonOnly /\ UNCHANGED <<cmd, rec>>

(* ListStaleActive: the rows as they are now.                              *)
MonScan ==
  LET stale == {c \in Cmds : cmd[c] \in Active /\ c \notin cmdFresh} IN
  /\ mon.pc = "idle"
  /\ stale # {}
  /\ mon' = [MonIdle EXCEPT !.pc = "scan", !.todo = stale,
                            !.sawPending = {c \in stale : cmd[c] = "pending"}]
  /\ NoFault /\ MonOnly /\ UNCHANGED <<cmd, rec>>

(* commandStillActive, on the status the list returned: the lease of a     *)
(* dispatched command whose record runs is renewed by the node's heartbeat *)
(* or by the record's last update.                                         *)
StillActive(c) ==
  /\ c \notin mon.sawPending
  /\ rec[c] = "running"
  /\ Target[c] \in online \/ c \in recFresh

MonCheck ==
  /\ mon.pc = "scan"
  /\ \/ mon.todo = {} /\ mon' = MonIdle
     \/ \E c \in Cmds :
          /\ Oldest(c, mon.todo)
          /\ mon' = [mon EXCEPT !.todo = @ \ {c},
                                !.pc = IF StillActive(c) THEN "scan" ELSE "timeout",
                                !.cur = IF StillActive(c) THEN NoCmd ELSE c]
  /\ NoFault /\ MonOnly /\ UNCHANGED <<cmd, rec>>

(* Mutant: the command times out and its record is forgotten               *)
(* (MarkStaleTimeout).                                                     *)
TimeoutForgettingRecord ==
  /\ mon.pc = "timeout"
  /\ cmd' = IF cmd[mon.cur] \in Active THEN [cmd EXCEPT ![mon.cur] = "timeout"] ELSE cmd
  /\ mon' = [mon EXCEPT !.pc = "scan", !.cur = NoCmd]
  /\ NoFault /\ MonOnly /\ UNCHANGED rec

(* TimeoutActive: conditional on the command being active still.           *)
MonTimeout ==
  /\ mon.pc = "timeout"
  /\ IF cmd[mon.cur] \in Active
       THEN /\ cmd' = [cmd EXCEPT ![mon.cur] = "timeout"]
            /\ mon' = [mon EXCEPT !.pc = "read"]
       ELSE /\ mon' = [mon EXCEPT !.pc = "scan", !.cur = NoCmd]
            /\ UNCHANGED cmd
  /\ NoFault /\ MonOnly /\ UNCHANGED rec

(* failLinkedRecord again, for the command that timed out.                 *)
MonRead ==
  /\ mon.pc = "read"
  /\ mon' = IF rec[mon.cur] = "running"
              THEN [mon EXCEPT !.pc = "fail"]
              ELSE [mon EXCEPT !.pc = "scan", !.cur = NoCmd]
  /\ NoFault /\ MonOnly /\ UNCHANGED <<cmd, rec>>

MonSave ==
  /\ mon.pc = "fail"
  /\ rec' = [rec EXCEPT ![mon.cur] = "failed"]
  /\ mon' = [mon EXCEPT !.pc = "scan", !.cur = NoCmd]
  /\ NoFault /\ MonOnly /\ UNCHANGED cmd

(* A database error is logged and the next command is looked at.           *)
MonError ==
  /\ Fault("db")
  /\ \/ /\ mon.pc = "scan"
        /\ \E c \in Cmds : Oldest(c, mon.todo) /\ mon' = [mon EXCEPT !.todo = @ \ {c}]
     \/ /\ mon.pc \in {"timeout", "read", "fail"}
        /\ mon' = [mon EXCEPT !.pc = "scan", !.cur = NoCmd]
  /\ MonOnly /\ UNCHANGED <<cmd, rec>>

-----------------------------------------------------------------------------
(* Time.  A request takes seconds and the threshold is ten minutes: no row *)
(* grows old while a handler is working on it.                             *)
Quiet(c) == \A s \in Slots : handler[s].cmd # c

ExpireCmd(c) ==
  /\ c \in cmdFresh /\ cmd[c] \in Active /\ Quiet(c)
  /\ cmdFresh' = cmdFresh \ {c}
  /\ NoFault
  /\ UNCHANGED <<start, cmd, rec, recFresh, online, handler, agent, wait, mon, outcome>>

ExpireRec(c) ==
  /\ c \in recFresh /\ rec[c] = "running" /\ Quiet(c)
  /\ recFresh' = recFresh \ {c}
  /\ NoFault
  /\ UNCHANGED <<start, cmd, rec, cmdFresh, online, handler, agent, wait, mon, outcome>>

(* MarkStaleOffline: no heartbeat of the node arrived for 45 seconds.      *)
MarkOffline(n) ==
  /\ n \in online
  /\ \A a \in Agents : NodeOf[a] = n => agent[a].pc = "down"
  /\ online' = online \ {n}
  /\ NoFault
  /\ UNCHANGED <<start, cmd, rec, cmdFresh, recFresh, handler, agent, wait, mon, outcome>>

(* The same while an agent of the node lives and cannot be heard.          *)
Partition(n) ==
  /\ n \in online
  /\ Fault("partition")
  /\ online' = online \ {n}
  /\ UNCHANGED <<start, cmd, rec, cmdFresh, recFresh, handler, agent, wait, mon, outcome>>

(* Mutant: every running record counts as interrupted.                     *)
RestartFailingAll ==
  /\ Fault("master")
  /\ handler' = [s \in Slots |-> Free]
  /\ agent' = [a \in Agents |->
                 IF wait[a] # None THEN AfterReply(agent[a], FALSE, NoCmd) ELSE agent[a]]
  /\ wait' = [a \in Agents |-> None]
  /\ mon' = MonIdle
  /\ start' = [c \in Cmds |-> IF start[c] = "new" THEN "new" ELSE "done"]
  /\ rec' = [c \in Cmds |-> IF rec[c] = "running" THEN "failed" ELSE rec[c]]
  /\ UNCHANGED <<cmd, cmdFresh, recFresh, online, outcome>>

(* The Master stops and starts: its goroutines are gone, every request in  *)
(* flight fails, and reconcileInterruptedOperations fails the running      *)
(* records that no active command stands for.                              *)
MasterRestart ==
  /\ Fault("master")
  /\ handler' = [s \in Slots |-> Free]
  /\ agent' = [a \in Agents |->
                 IF wait[a] # None THEN AfterReply(agent[a], FALSE, NoCmd) ELSE agent[a]]
  /\ wait' = [a \in Agents |-> None]
  /\ mon' = MonIdle
  /\ start' = [c \in Cmds |-> IF start[c] = "new" THEN "new" ELSE "done"]
  /\ rec' = [c \in Cmds |-> IF rec[c] = "running" /\ cmd[c] \notin Active THEN "failed" ELSE rec[c]]
  /\ UNCHANGED <<cmd, cmdFresh, recFresh, online, outcome>>

-----------------------------------------------------------------------------
HandlerStep(s) ==
  \/ PollSelect(s) \/ PollClaim(s)
  \/ UpdateRead(s) \/ UpdateSave(s)
  \/ ResultFind(s) \/ ResultComplete(s) \/ ConvergeRead(s) \/ ConvergeSave(s)

MonitorStep == MonScan \/ MonCheck \/ MonTimeout \/ MonRead \/ MonSave

AgentStep(a) == Poll(a) \/ Finish(a) \/ Submit(a)

Next ==
  \/ \E c \in Cmds : StartRun(c) \/ Route(c) \/ Abort(c) \/ ExpireCmd(c) \/ ExpireRec(c)
  \/ \E a \in Agents : AgentStep(a) \/ Log(a) \/ Lose(a) \/ GiveUp(a) \/ Deadline(a) \/ Crash(a)
                       \/ Restart(a) \/ Heartbeat(a)
  \/ \E s \in Slots : HandlerStep(s) \/ HandlerError(s)
  \/ \E n \in Nodes : MarkOffline(n) \/ Partition(n)
  \/ MonitorStep \/ MonError
  \/ MasterRestart

Spec == Init /\ [][Next]_vars

(* Every goroutine and every ticker gets its turn, and time passes.        *)
Fairness ==
  /\ \A s \in Slots : WF_vars(HandlerStep(s))
  /\ \A a \in Agents : WF_vars(AgentStep(a)) /\ WF_vars(Heartbeat(a))
  /\ \A c \in Cmds : WF_vars(Route(c) \/ Abort(c)) /\ SF_vars(ExpireCmd(c)) /\ SF_vars(ExpireRec(c))
  /\ \A n \in Nodes : WF_vars(MarkOffline(n))
  /\ WF_vars(MonitorStep)

FairSpec == Spec /\ Fairness
-----------------------------------------------------------------------------
(* Safety.                                                                 *)

(* A command is in the hands of at most one agent process, although every  *)
(* process that carries the node's token polls the same queue              *)
(* (ClaimPending's read and its conditional update are two steps).         *)
OneExecutor ==
  \A a, b \in Agents : a # b /\ agent[a].cmd # NoCmd => agent[a].cmd # agent[b].cmd

(* Success is never announced for a backup that was not stored: neither by *)
(* the record nor by the command, whatever was lost, repeated or late.     *)
SuccessIsStored ==
  \A c \in Cmds : rec[c] = "success" \/ cmd[c] = "succeeded" => outcome[c] = "success"

(* While a command is active the Master does not settle its record: only   *)
(* the execution's own report does (UpdateRecord).  In particular a        *)
(* restart of the Master spares the records an Agent still works for.      *)
ActiveRecordIsOpen ==
  \A c \in Cmds :
    /\ cmd[c] = "pending" => rec[c] = "running"
    /\ cmd[c] = "dispatched" /\ rec[c] = "success" => outcome[c] = "success"
    /\ cmd[c] = "dispatched" /\ rec[c] = "failed" => outcome[c] = "failure"

(* A finished record is not written over (failLinkedRecord, and the test   *)
(* "DoesNotOverwriteTerminalRecord" of UpdateRecord).  The code does not   *)
(* keep this: both test the status of a row they save later.               *)
FinalIsFinal == [][\A c \in Cmds : rec[c] \in RecDone => rec'[c] = rec[c]]_vars

(* What the queue promises, stated without requests, faults or time: the   *)
(* implementation is shown to keep the promise (module JobQueue).          *)
Queue == INSTANCE JobQueue WITH Jobs <- Cmds, stage <- cmd, done <- outcome
ImplementsJobQueue == Queue!Spec

-----------------------------------------------------------------------------
(* Liveness.                                                               *)

(* A command does not stay pending: an Agent takes it or it times out.     *)
QueuedCommandSettles == \A c \in Cmds : (cmd[c] = "pending") ~> (cmd[c] # "pending")

(* A record does not stay in running when its Agent goes away              *)
(* (StartCommandTimeoutMonitor).  The code does not keep this: the         *)
(* heartbeats of an Agent that came back renew the lease of a command      *)
(* nobody executes.                                                        *)
RecordCloses == \A c \in Cmds : (rec[c] = "running") ~> (rec[c] # "running")

(* The record of a command that its Agent lost while its node is heard of. *)
Leased(c) ==
  cmd[c] = "dispatched" /\ Target[c] \in online /\ \A a \in Agents : agent[a].cmd # c

(* What the monitor, the Agents' reports and the restart of the Master do  *)
(* achieve: whatever is lost, given up or late, and whoever dies, the      *)
(* record of a run closes, unless its command is such a one for ever.  A   *)
(* late log line may open it again (see FinalIsFinal).                     *)
RecordClosesOrIsLeased ==
  \A c \in Cmds : (start[c] \in {"created", "abort"}) ~> (rec[c] # "running" \/ []Leased(c))

(* A command that failed does not leave its record running: its            *)
(* convergence is detached from the request, and the retry of              *)
(* SubmitCommandResult repeats it after a database error.  This needs a    *)
(* retry in the time that is left: with "deadline" it does not hold.       *)
FailedCommandClosesRecord == \A c \in Cmds : (cmd[c] = "failed") ~> (rec[c] # "running")
=============================================================================
