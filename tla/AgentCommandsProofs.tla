-------------------------- MODULE AgentCommandsProofs --------------------------
(***************************************************************************)
(* Proofs about AgentCommands for every number of nodes, agents, commands  *)
(* and goroutines, and every kind and number of faults.                    *)
(*                                                                         *)
(* The properties are not inductive: what a handler will write depends on  *)
(* what it knew when it started.  IInv says what every holder of an old    *)
(* fact may still rely on: a request of an agent concerns a command that   *)
(* was taken, a report of success follows a stored artifact, the monitor   *)
(* settles only records of commands it has timed out.                      *)
(***************************************************************************)
EXTENDS AgentCommands, TLAPS

Taken(st) == st \notin {"none", "pending"}

(* Nothing but startTask touches a run whose command is not enqueued.      *)
StartInv ==
  \A c \in Cmds :
    /\ start[c] # "done" => cmd[c] = "none"
    /\ start[c] = "created" => rec[c] = "running"
    /\ ~Taken(cmd[c]) => outcome[c] = "none"

(* What an agent holds: a command that was taken, executed once.           *)
AgentGood(ag, st, oc) ==
  /\ ag.pc \in {"down", "idle", "polling"} <=> ag.cmd = NoCmd
  /\ ag.pc \in {"working", "logging"} =>
       st[ag.cmd] \in {"dispatched", "timeout"} /\ oc[ag.cmd] = "none"
  /\ ag.pc \in {"closing", "reporting", "submitting"} =>
       /\ Taken(st[ag.cmd])
       /\ ag.out # "none"
       /\ oc[ag.cmd] # "none"
       /\ ag.out = "success" => oc[ag.cmd] = "success"
AgentInv == \A a \in Agents : AgentGood(agent[a], cmd, outcome)

(* The reply of a slot goes to the agent that sent the request.            *)
WaitInv ==
  \A a \in Agents : wait[a] # None => handler[wait[a]].by = a

(* What the requests the Master is working on say is still true.           *)
Converging == {"converge", "fail", "retry", "refail"}
HandlerGood(h, st, oc) ==
  /\ IF h.phase = "free" THEN h.by = None ELSE h.by \in Agents
  /\ h.phase = "selected" => h.cmd \in Cmds
  /\ h.phase # "free" /\ h.kind # "poll" =>
       /\ h.cmd \in Cmds
       /\ Taken(st[h.cmd])
       /\ h.kind \in {"success", "ok"} => oc[h.cmd] = "success"
       /\ h.kind = "failed" => oc[h.cmd] = "failure"
       /\ h.kind = "err" => oc[h.cmd] # "none"
  /\ h.phase \in Converging => h.kind \in Results /\ st[h.cmd] = "failed"
HandlerInv == \A s \in Slots : HandlerGood(handler[s], cmd, outcome)

(* The monitor fails only records of commands it has timed out.            *)
MonInv ==
  /\ mon.pc \in {"timeout", "read", "fail"} => mon.cur \in Cmds
  /\ mon.pc \in {"read", "fail"} => cmd[mon.cur] = "timeout"

IInv ==
  /\ TypeOK
  /\ StartInv
  /\ AgentInv
  /\ WaitInv
  /\ HandlerInv
  /\ MonInv
  /\ OneExecutor
  /\ SuccessIsStored
  /\ ActiveRecordIsOpen
-----------------------------------------------------------------------------
(* Type correctness.                                                       *)

LEMMA AfterReplyType ==
  ASSUME NEW ag \in AgentState, NEW ok \in BOOLEAN, NEW c \in Cmds \cup {NoCmd}
  PROVE  AfterReply(ag, ok, c) \in AgentState
<1> USE AgentCommandsAssumption DEF AgentState, AgentPcs, Idle
<1>0. Idle \in AgentState
  OBVIOUS
<1>1. CASE ag.pc = "polling"
  <2>1. CASE ok /\ c # NoCmd
    <3>1. AfterReply(ag, ok, c) = [Idle EXCEPT !.pc = "working", !.cmd = c]
      BY <1>1, <2>1 DEF AfterReply
    <3> QED BY <1>0, <3>1
  <2>2. CASE ~(ok /\ c # NoCmd)
    BY <1>0, <1>1, <2>2 DEF AfterReply
  <2> QED BY <2>1, <2>2
<1>2. CASE ag.pc = "logging"
  BY <1>2 DEF AfterReply
<1>3. CASE ag.pc = "closing"
  BY <1>3 DEF AfterReply
<1>4. CASE ag.pc = "submitting"
  BY <1>0, <1>4 DEF AfterReply
<1>5. CASE ag.pc \notin {"polling", "logging", "closing", "submitting"}
  BY <1>5 DEF AfterReply
<1> QED BY <1>1, <1>2, <1>3, <1>4, <1>5

LEMMA ReplyType ==
  ASSUME TypeOK, NEW s \in Slots, NEW ok \in BOOLEAN, NEW c \in Cmds \cup {NoCmd},
         Reply(s, ok, c)
  PROVE  /\ handler' \in [Slots -> Handler]
         /\ agent' \in [Agents -> AgentState]
         /\ wait' \in [Agents -> Slots \cup {None}]
<1>1. handler' \in [Slots -> Handler]
  BY DEF Reply, TypeOK, Handler, Free, Phases, Kinds
<1>2. agent' \in [Agents -> AgentState]
  BY AfterReplyType DEF Reply, TypeOK
<1>3. wait' \in [Agents -> Slots \cup {None}]
  BY DEF Reply, TypeOK
<1> QED BY <1>1, <1>2, <1>3

LEMMA SendType ==
  ASSUME TypeOK, NEW a \in Agents, NEW kind \in Kinds, NEW c \in Cmds \cup {NoCmd},
         NEW next \in AgentState, Send(a, kind, c, next)
  PROVE  /\ handler' \in [Slots -> Handler]
         /\ agent' \in [Agents -> AgentState]
         /\ wait' \in [Agents -> Slots \cup {None}]
  BY DEF Send, TypeOK, Handler, Phases

LEMMA FaultType ==
  ASSUME TypeOK, NoFault \/ \E k \in FaultKinds : Fault(k)
  PROVE  faults' \in 0..MaxFaults
  BY AgentCommandsAssumption DEF TypeOK, NoFault, Fault

LEMMA FaultKind == \A k : Fault(k) => \E l \in FaultKinds : Fault(l)
  BY DEF Fault

(* Every step keeps every variable in its type.  The handlers only touch   *)
(* rows that exist, which is not a matter of types: HandlerInv says so.    *)
LEMMA TypeStep == TypeOK /\ HandlerInv /\ [Next]_vars => TypeOK'
<1> SUFFICES ASSUME TypeOK, HandlerInv, [Next]_vars PROVE TypeOK'
  OBVIOUS
<1> USE AgentCommandsAssumption
<1>0. faults' \in 0..MaxFaults
  <2>1. NoFault \/ \E k \in FaultKinds : Fault(k)
    BY FaultKind DEF Next, vars, NoFault, StartRun, Route, Abort, ExpireCmd, ExpireRec, AgentStep,
       Poll, Finish, Submit, Log, Lose, GiveUp, Deadline, Crash, Restart, Heartbeat, HandlerStep,
       HandlerError, PollSelect, PollClaim, UpdateRead, UpdateSave, ResultFind, ResultComplete,
       ConvergeRead, ConvergeSave, MarkOffline, Partition, MonitorStep, MonScan, MonCheck,
       MonTimeout, MonRead, MonSave, MonError, MasterRestart
  <2> QED BY <2>1, FaultType
<1>1. ASSUME NEW c \in Cmds, StartRun(c) PROVE TypeOK'
  BY <1>0, <1>1 DEF StartRun, TypeOK
<1>2. ASSUME NEW c \in Cmds, Route(c) PROVE TypeOK'
  BY <1>0, <1>2 DEF Route, TypeOK, Active
<1>3. ASSUME NEW c \in Cmds, Abort(c) PROVE TypeOK'
  BY <1>0, <1>3 DEF Abort, TypeOK, RecDone
<1>4. ASSUME NEW c \in Cmds, ExpireCmd(c) \/ ExpireRec(c) PROVE TypeOK'
  BY <1>0, <1>4 DEF ExpireCmd, ExpireRec, TypeOK
<1>5. ASSUME NEW a \in Agents, Poll(a) PROVE TypeOK'
  <2>1. [Idle EXCEPT !.pc = "polling"] \in AgentState
    BY DEF Idle, AgentState, AgentPcs
  <2> QED BY <1>0, <1>5, <2>1, SendType DEF Poll, AgentOnly, TypeOK, Kinds
<1>6. ASSUME NEW a \in Agents, Log(a) PROVE TypeOK'
  <2>1. [agent[a] EXCEPT !.pc = "logging", !.logs = @ + 1] \in AgentState
    <3>1. agent[a] \in AgentState /\ agent[a].logs + 1 \in 0..MaxLogs
      BY <1>6 DEF Log, TypeOK, AgentState
    <3> QED BY <3>1 DEF AgentState, AgentPcs
  <2>2. agent[a].cmd \in Cmds \cup {NoCmd}
    BY DEF TypeOK, AgentState
  <2> QED BY <1>0, <1>6, <2>1, <2>2, SendType DEF Log, AgentOnly, TypeOK, Kinds, Updates
<1>7. ASSUME NEW a \in Agents, Finish(a) PROVE TypeOK'
  <2>1. /\ [agent[a] EXCEPT !.pc = "closing", !.out = "success"] \in AgentState
        /\ [agent[a] EXCEPT !.pc = "closing", !.out = "failure"] \in AgentState
    <3>1. agent[a] \in AgentState
      BY DEF TypeOK
    <3> QED BY <3>1 DEF AgentState, AgentPcs
  <2>2. agent[a].cmd \in Cmds \cup {NoCmd}
    BY DEF TypeOK, AgentState
  <2>3. outcome' \in [Cmds -> {"none", "success", "failure"}]
    BY <1>7 DEF Finish, TypeOK
  <2> QED BY <1>0, <1>7, <2>1, <2>2, <2>3, SendType DEF Finish, AgentOnly, TypeOK, Kinds, Updates
<1>8. ASSUME NEW a \in Agents, Submit(a) PROVE TypeOK'
  <2>1. [agent[a] EXCEPT !.pc = "submitting", !.tries = @ + 1] \in AgentState
    <3>1. agent[a] \in AgentState /\ agent[a].tries + 1 \in 0..MaxTries
      BY <1>8 DEF Submit, TypeOK, AgentState
    <3> QED BY <3>1 DEF AgentState, AgentPcs
  <2>2. agent[a].cmd \in Cmds \cup {NoCmd}
    BY DEF TypeOK, AgentState
  <2>3. (IF agent[a].out = "success" THEN "ok" ELSE "err") \in Kinds
    BY DEF Kinds, Results
  <2> QED BY <1>0, <1>8, <2>1, <2>2, <2>3, SendType DEF Submit, AgentOnly, TypeOK
<1>9. ASSUME NEW a \in Agents, Lose(a) PROVE TypeOK'
  <2>1. wait[a] \in Slots
    BY <1>0, <1>9 DEF Lose, TypeOK
  <2> QED BY <1>0, <1>9, <2>1, ReplyType DEF Lose, AgentOnly, TypeOK
<1>10. ASSUME NEW a \in Agents, GiveUp(a) PROVE TypeOK'
  <2>1. AfterReply(agent[a], FALSE, NoCmd) \in AgentState
    BY AfterReplyType DEF TypeOK
  <2> QED BY <1>0, <1>10, <2>1 DEF GiveUp, AgentOnly, TypeOK
<1>11. ASSUME NEW a \in Agents, Deadline(a) \/ Crash(a) \/ Restart(a) PROVE TypeOK'
  <2>1. Idle \in AgentState /\ [Idle EXCEPT !.pc = "down"] \in AgentState
    BY DEF Idle, AgentState, AgentPcs
  <2> QED BY <1>0, <1>11, <2>1 DEF Deadline, Crash, Restart, AgentOnly, TypeOK
<1>12. ASSUME NEW a \in Agents, Heartbeat(a) PROVE TypeOK'
  BY <1>0, <1>12 DEF Heartbeat, TypeOK
<1>13. ASSUME NEW s \in Slots, HandlerError(s) PROVE TypeOK'
  BY <1>0, <1>13, ReplyType DEF HandlerError, MasterOnly, TypeOK
<1>14. ASSUME NEW s \in Slots, HandlerStep(s) PROVE TypeOK'
  <2> DEFINE HandlerTyped == /\ handler' \in [Slots -> Handler]
                             /\ agent' \in [Agents -> AgentState]
                             /\ wait' \in [Agents -> Slots \cup {None}]
  <2>1. handler[s].cmd \in Cmds \cup {NoCmd}
    BY DEF TypeOK, Handler
  <2>2. ASSUME NEW ph \in Phases, Continue(s, ph) PROVE HandlerTyped
    BY <2>2 DEF Continue, TypeOK, Handler
  <2>3. CASE PollSelect(s)
    <3>1. HandlerTyped
      <4>1. CASE Reply(s, TRUE, NoCmd)
        BY <4>1, ReplyType
      <4>2. ASSUME NEW c \in Cmds, UNCHANGED <<agent, wait>>,
                   handler' = [handler EXCEPT ![s].phase = "selected", ![s].cmd = c]
            PROVE HandlerTyped
        <5>1. handler[s] \in Handler
          BY DEF TypeOK
        <5>2. [handler[s] EXCEPT !.phase = "selected", !.cmd = c] \in Handler
          BY <5>1 DEF Handler, Phases
        <5> QED BY <4>2, <5>2 DEF TypeOK
      <4> QED BY <2>3, <4>1, <4>2 DEF PollSelect
    <3> QED BY <1>0, <2>3, <3>1 DEF PollSelect, MasterOnly, TypeOK
  <2>4. CASE PollClaim(s)
    <3>1. HandlerTyped
      BY <2>1, <2>4, ReplyType DEF PollClaim
    <3>2. cmdFresh' \in SUBSET Cmds /\ cmd' \in [Cmds -> {"none"} \cup Active \cup Verdicts]
      <4>1. handler[s].cmd \in Cmds
        BY <2>4 DEF PollClaim, At, HandlerInv, HandlerGood
      <4>2. cmd' = cmd \/ cmd' = [cmd EXCEPT ![handler[s].cmd] = "dispatched"]
        BY <2>4 DEF PollClaim
      <4>3. cmdFresh' = cmdFresh \/ cmdFresh' = cmdFresh \cup {handler[s].cmd}
        BY <2>4 DEF PollClaim
      <4> QED BY <4>1, <4>2, <4>3 DEF TypeOK, Active
    <3> QED BY <1>0, <2>4, <3>1, <3>2 DEF PollClaim, MasterOnly, TypeOK
  <2>5. CASE UpdateRead(s)
    BY <1>0, <2>2, <2>5, ReplyType DEF UpdateRead, MasterOnly, TypeOK, Phases, Detached
  <2>6. CASE UpdateSave(s)
    <3>1. HandlerTyped
      BY <2>6, ReplyType DEF UpdateSave
    <3>2. rec' \in [Cmds -> {"none", "running"} \cup RecDone]
      BY <2>6 DEF UpdateSave, At, Updates, TypeOK, RecDone
    <3>3. recFresh' \in SUBSET Cmds
      <4>1. handler[s].cmd \in Cmds
        BY <2>6 DEF UpdateSave, At, Updates, HandlerInv, HandlerGood
      <4> QED BY <2>6, <4>1 DEF UpdateSave, TypeOK
    <3> QED BY <1>0, <2>6, <3>1, <3>2, <3>3 DEF UpdateSave, MasterOnly, TypeOK
  <2>7. CASE ResultFind(s)
    BY <1>0, <2>2, <2>7, ReplyType DEF ResultFind, MasterOnly, TypeOK, Phases, Detached
  <2>8. CASE ResultComplete(s)
    <3>1. HandlerTyped
      BY <2>2, <2>8, ReplyType DEF ResultComplete, Phases, Detached
    <3>2. cmd' \in [Cmds -> {"none"} \cup Active \cup Verdicts]
      BY <2>8 DEF ResultComplete, TypeOK, Verdicts
    <3> QED BY <1>0, <2>8, <3>1, <3>2 DEF ResultComplete, MasterOnly, TypeOK
  <2>9. CASE ConvergeRead(s)
    BY <1>0, <2>2, <2>9, ReplyType DEF ConvergeRead, MasterOnly, TypeOK, Phases, Detached
  <2>10. CASE ConvergeSave(s)
    <3>1. HandlerTyped
      BY <2>10, ReplyType DEF ConvergeSave
    <3> QED BY <1>0, <2>10, <3>1 DEF ConvergeSave, MasterOnly, TypeOK, RecDone
  <2> QED BY <1>14, <2>3, <2>4, <2>5, <2>6, <2>7, <2>8, <2>9, <2>10 DEF HandlerStep
<1>15. ASSUME NEW n \in Nodes, MarkOffline(n) \/ Partition(n) PROVE TypeOK'
  BY <1>0, <1>15 DEF MarkOffline, Partition, TypeOK
<1>16. CASE MonitorStep \/ MonError
  <2>1. cmd' \in [Cmds -> {"none"} \cup Active \cup Verdicts]
    BY <1>16 DEF MonitorStep, MonScan, MonCheck, MonTimeout, MonRead, MonSave, MonError, TypeOK,
                 Verdicts
  <2>2. rec' \in [Cmds -> {"none", "running"} \cup RecDone]
    BY <1>16 DEF MonitorStep, MonScan, MonCheck, MonTimeout, MonRead, MonSave, MonError, TypeOK,
                 RecDone
  <2>3. mon' \in MonState
    <3>1. mon \in MonState
      BY DEF TypeOK
    <3>2. CASE MonScan
      BY <3>2 DEF MonScan, MonIdle, MonState
    <3>3. CASE MonCheck
      <4>1. \A c \in Cmds, b \in BOOLEAN :
              [mon EXCEPT !.todo = @ \ {c}, !.pc = IF b THEN "scan" ELSE "timeout",
                          !.cur = IF b THEN NoCmd ELSE c] \in MonState
        BY <3>1 DEF MonState
      <4>2. MonIdle \in MonState
        BY DEF MonIdle, MonState
      <4>3. \A c : StillActive(c) \in BOOLEAN
        BY DEF StillActive
      <4> QED BY <3>3, <4>1, <4>2, <4>3 DEF MonCheck
    <3>4. CASE MonTimeout
      BY <3>1, <3>4 DEF MonTimeout, MonState
    <3>5. CASE MonRead
      BY <3>1, <3>5 DEF MonRead, MonState
    <3>6. CASE MonSave
      BY <3>1, <3>6 DEF MonSave, MonState
    <3>7. CASE MonError
      <4>1. /\ \A c \in Cmds : [mon EXCEPT !.todo = @ \ {c}] \in MonState
            /\ [mon EXCEPT !.pc = "scan", !.cur = NoCmd] \in MonState
        BY <3>1 DEF MonState
      <4> QED BY <3>7, <4>1 DEF MonError
    <3> QED BY <1>16, <3>2, <3>3, <3>4, <3>5, <3>6, <3>7 DEF MonitorStep
  <2> QED BY <1>0, <1>16, <2>1, <2>2, <2>3
          DEF MonitorStep, MonScan, MonCheck, MonTimeout, MonRead, MonSave, MonError, MonOnly, TypeOK
<1>17. CASE MasterRestart
  <2>1. agent' \in [Agents -> AgentState]
    BY <1>0, <1>17, AfterReplyType DEF MasterRestart, TypeOK
  <2>2. handler' \in [Slots -> Handler] /\ mon' \in MonState
    BY <1>17 DEF MasterRestart, MonIdle, MonState, Free, Handler, Phases, Kinds
  <2>3. /\ rec' \in [Cmds -> {"none", "running"} \cup RecDone]
        /\ start' \in [Cmds -> {"new", "created", "abort", "done"}]
    BY <1>17 DEF MasterRestart, TypeOK, RecDone
  <2>4. wait' \in [Agents -> Slots \cup {None}]
    BY <1>17 DEF MasterRestart
  <2> QED BY <1>0, <1>17, <2>1, <2>2, <2>3, <2>4 DEF MasterRestart, TypeOK
<1>18. CASE UNCHANGED vars
  BY <1>0, <1>18 DEF vars, TypeOK
<1> QED
  BY <1>1, <1>2, <1>3, <1>4, <1>5, <1>6, <1>7, <1>8, <1>9, <1>10, <1>11, <1>12, <1>13,
     <1>14, <1>15, <1>16, <1>17, <1>18 DEF Next, AgentStep

-----------------------------------------------------------------------------
(* The commands: every step is a step of JobQueue, or leaves it alone.     *)

(* An agent that executes a command holds a command.                       *)
LEMMA HeldCommand ==
  ASSUME IInv, NEW a \in Agents, agent[a].pc \notin {"down", "idle", "polling"}
  PROVE  agent[a].cmd \in Cmds
  BY DEF IInv, TypeOK, AgentState, AgentInv, AgentGood

LEMMA QueueStep == IInv /\ [Next]_vars => [Queue!Next]_<<cmd, outcome>>
<1> SUFFICES ASSUME IInv, [Next]_vars, ~UNCHANGED <<cmd, outcome>>
             PROVE  Queue!Next
  OBVIOUS
<1> USE DEF IInv
<1>1. ASSUME NEW c \in Cmds, Route(c) PROVE Queue!Next
  <2>1. cmd[c] = "none" /\ cmd' = [cmd EXCEPT ![c] = "pending"] /\ UNCHANGED outcome
    BY <1>1 DEF Route, StartInv
  <2> QED BY <2>1 DEF Queue!Next, Queue!Enqueue
<1>2. ASSUME NEW s \in Slots, PollClaim(s) PROVE Queue!Next
  <2>1. handler[s].cmd \in Cmds
    BY <1>2 DEF PollClaim, At, HandlerInv, HandlerGood
  <2>2. /\ cmd[handler[s].cmd] = "pending"
        /\ cmd' = [cmd EXCEPT ![handler[s].cmd] = "dispatched"]
        /\ UNCHANGED outcome
    BY <1>2 DEF PollClaim, MasterOnly
  <2> QED BY <2>1, <2>2 DEF Queue!Next, Queue!Take
<1>3. ASSUME NEW a \in Agents, Finish(a) PROVE Queue!Next
  <2>1. agent[a].cmd \in Cmds
    BY <1>3, HeldCommand DEF Finish
  <2>2. cmd[agent[a].cmd] \in {"dispatched", "timeout"} /\ outcome[agent[a].cmd] = "none"
    BY <1>3 DEF Finish, AgentInv, AgentGood
  <2>3. /\ \E o \in {"success", "failure"} : outcome' = [outcome EXCEPT ![agent[a].cmd] = o]
        /\ UNCHANGED cmd
    BY <1>3 DEF Finish, AgentOnly
  <2> QED BY <2>1, <2>2, <2>3 DEF Queue!Next, Queue!Execute
<1>4. ASSUME NEW s \in Slots, ResultComplete(s) PROVE Queue!Next
  <2> DEFINE c == handler[s].cmd
  <2>1. /\ c \in Cmds
        /\ handler[s].kind = "ok" => outcome[c] = "success"
        /\ handler[s].kind # "ok" => outcome[c] # "none"
    BY <1>4 DEF ResultComplete, At, Results, HandlerInv, HandlerGood
  <2>2. /\ cmd[c] = "dispatched"
        /\ cmd' = [cmd EXCEPT ![c] = IF handler[s].kind = "ok" THEN "succeeded" ELSE "failed"]
        /\ UNCHANGED outcome
    BY <1>4 DEF ResultComplete, MasterOnly
  <2> QED BY <2>1, <2>2 DEF Queue!Next, Queue!Settle
<1>5. CASE MonTimeout
  <2>1. mon.cur \in Cmds
    BY <1>5 DEF MonTimeout, MonInv
  <2>2. /\ cmd[mon.cur] \in Active
        /\ cmd' = [cmd EXCEPT ![mon.cur] = "timeout"]
        /\ UNCHANGED outcome
    BY <1>5 DEF MonTimeout, MonOnly
  <2> QED BY <2>1, <2>2 DEF Active, Queue!Next, Queue!Expire
<1> QED
  BY <1>1, <1>2, <1>3, <1>4, <1>5
  DEF Next, vars, StartRun, Abort, ExpireCmd, ExpireRec, AgentStep, Poll, Submit, Log, Lose,
      GiveUp, Deadline, Crash, Restart, AgentOnly, Heartbeat, HandlerStep, HandlerError, PollSelect,
      UpdateRead, UpdateSave, ResultFind, ConvergeRead, ConvergeSave, MasterOnly, MarkOffline,
      Partition, MonitorStep, MonScan, MonCheck, MonRead, MonSave, MonError, MonOnly,
      MasterRestart

(* What never changes back, whoever holds it as an old fact: a command     *)
(* that was taken, a failed or timed out one, the outcome of an execution. *)
Kept(c) ==
  /\ Taken(cmd[c]) => Taken(cmd'[c])
  /\ cmd[c] \in {"failed", "timeout"} => cmd'[c] = cmd[c]
  /\ outcome[c] # "none" => outcome'[c] = outcome[c]
  /\ outcome[c] = "none" /\ cmd[c] \in {"dispatched", "timeout"} =>
       cmd'[c] \in {"dispatched", "timeout"}
  /\ ~Taken(cmd'[c]) => outcome'[c] = outcome[c] /\ ~Taken(cmd[c])
  /\ cmd'[c] = "succeeded" => cmd[c] = "succeeded" \/ outcome[c] = "success"

LEMMA KeptFacts == IInv /\ [Next]_vars => \A c \in Cmds : Kept(c)
<1> SUFFICES ASSUME IInv, [Next]_vars, NEW c \in Cmds PROVE Kept(c)
  OBVIOUS
<1>1. cmd \in [Cmds -> {"none"} \cup Active \cup Verdicts]
      /\ outcome \in [Cmds -> {"none", "success", "failure"}]
  BY DEF IInv, TypeOK
<1>2. [Queue!Next]_<<cmd, outcome>>
  BY QueueStep
<1> QED
  BY <1>1, <1>2 DEF Kept, Taken, Queue!Next, Queue!Enqueue, Queue!Take, Queue!Execute,
                    Queue!Settle, Queue!Expire

-----------------------------------------------------------------------------
(* The parts of the invariant, one lemma each.                             *)

LEMMA StartStep == IInv /\ [Next]_vars => StartInv'
<1> SUFFICES ASSUME IInv, [Next]_vars, NEW c \in Cmds
             PROVE  /\ start'[c] # "done" => cmd'[c] = "none"
                    /\ start'[c] = "created" => rec'[c] = "running"
                    /\ ~Taken(cmd'[c]) => outcome'[c] = "none"
  BY DEF StartInv
<1> USE DEF IInv, StartInv
<1>1. /\ start[c] # "done" => cmd[c] = "none"
      /\ start[c] = "created" => rec[c] = "running"
      /\ ~Taken(cmd[c]) => outcome[c] = "none"
  OBVIOUS
<1>2. ~Taken(cmd'[c]) => outcome'[c] = "none"
  BY <1>1, KeptFacts DEF Kept
<1>3. start'[c] # "done" => cmd'[c] = "none"
  <2>1. CASE \E d \in Cmds : StartRun(d) \/ Route(d) \/ Abort(d)
    BY <1>1, <2>1 DEF StartRun, Route, Abort, TypeOK
  <2>2. CASE MasterRestart
    BY <1>1, <2>2 DEF MasterRestart
  <2>3. CASE UNCHANGED start
    <3>1. ASSUME start[c] # "done", cmd[c] = "none", cmd'[c] # "none" PROVE FALSE
      <4>1. [Queue!Next]_<<cmd, outcome>>
        BY QueueStep
      <4>2. cmd[c] = "none" /\ cmd'[c] = "pending"
        BY <3>1, <4>1 DEF TypeOK, Queue!Next, Queue!Enqueue, Queue!Take, Queue!Execute,
                          Queue!Settle, Queue!Expire
      <4>3. \A d \in Cmds : ~Route(d)
        BY <2>3, <3>1 DEF Route, TypeOK
      <4>4. \/ cmd' = cmd
            \/ \E s \in Slots : PollClaim(s) \/ ResultComplete(s)
            \/ MonTimeout
        BY <4>3 DEF Next, vars, StartRun, Abort, ExpireCmd, ExpireRec, AgentStep, Poll, Finish,
           Submit, Log, Lose, GiveUp, Deadline, Crash, Restart, AgentOnly, Heartbeat, HandlerStep,
           HandlerError, PollSelect, UpdateRead, UpdateSave, ResultFind, ConvergeRead,
           ConvergeSave, MarkOffline, Partition, MonitorStep, MonScan, MonCheck, MonRead,
           MonSave, MonError, MasterRestart
      <4>5. cmd'[c] # "pending" \/ cmd' = cmd
        BY <4>2, <4>4 DEF PollClaim, ResultComplete, MonTimeout, TypeOK
      <4> QED BY <4>2, <4>5
    <3> QED BY <1>1, <2>3, <3>1
  <2> QED
    BY <2>1, <2>2, <2>3
    DEF Next, vars, ExpireCmd, ExpireRec, AgentStep, Poll, Finish, Submit, Log, Lose, GiveUp,
        Deadline, Crash, Restart, AgentOnly, Heartbeat, HandlerStep, HandlerError, PollSelect, PollClaim,
        UpdateRead, UpdateSave, ResultFind, ResultComplete, ConvergeRead, ConvergeSave,
        MasterOnly, MarkOffline, Partition, MonitorStep, MonScan, MonCheck, MonTimeout, MonRead,
        MonSave, MonError, MonOnly
<1>4. start'[c] = "created" => rec'[c] = "running"
  <2>1. CASE \E d \in Cmds : StartRun(d)
    BY <1>1, <2>1 DEF StartRun, TypeOK
  <2>2. CASE \E d \in Cmds : Route(d)
    BY <1>1, <2>2 DEF Route, TypeOK
  <2>3. CASE \E d \in Cmds : Abort(d)
    BY <1>1, <2>3 DEF Abort, TypeOK
  <2>4. CASE MasterRestart
    BY <1>1, <2>4 DEF MasterRestart
  <2>5. ASSUME NEW s \in Slots, UpdateSave(s) PROVE start'[c] = "created" => rec'[c] = "running"
    <3>1. Taken(cmd[handler[s].cmd])
      BY <2>5 DEF UpdateSave, At, Updates, HandlerInv, HandlerGood
    <3> QED BY <1>1, <2>5, <3>1 DEF UpdateSave, MasterOnly, TypeOK, Taken
  <2>6. ASSUME NEW s \in Slots, ConvergeSave(s) PROVE start'[c] = "created" => rec'[c] = "running"
    <3>1. cmd[handler[s].cmd] = "failed"
      BY <2>6 DEF ConvergeSave, Converging, HandlerInv, HandlerGood
    <3> QED BY <1>1, <2>6, <3>1 DEF ConvergeSave, MasterOnly, TypeOK
  <2>7. CASE MonSave
    BY <1>1, <2>7 DEF MonSave, MonOnly, MonInv, TypeOK
  <2>8. CASE UNCHANGED <<start, rec>>
    BY <1>1, <2>8
  <2> QED
    BY <2>1, <2>2, <2>3, <2>4, <2>5, <2>6, <2>7, <2>8
    DEF Next, vars, ExpireCmd, ExpireRec, AgentStep, Poll, Finish, Submit, Log, Lose, GiveUp,
        Deadline, Crash, Restart, AgentOnly, Heartbeat, HandlerStep, HandlerError, PollSelect, PollClaim,
        UpdateRead, ResultFind, ResultComplete, ConvergeRead, MasterOnly, MarkOffline,
        Partition, MonitorStep, MonScan, MonCheck, MonTimeout, MonRead, MonError, MonOnly
<1> QED BY <1>2, <1>3, <1>4

LEMMA MonStep == IInv /\ [Next]_vars => MonInv'
<1> SUFFICES ASSUME IInv, [Next]_vars PROVE MonInv'
  OBVIOUS
<1> USE DEF IInv, MonInv
<1>1. \A c \in Cmds : cmd[c] = "timeout" => cmd'[c] = "timeout"
  BY KeptFacts DEF Kept
<1>2. CASE MonScan
  BY <1>2 DEF MonScan, MonIdle
<1>3. CASE MonCheck
  <2>1. ASSUME NEW c \in Cmds, NEW b \in BOOLEAN,
               mon' = [mon EXCEPT !.todo = @ \ {c}, !.pc = IF b THEN "scan" ELSE "timeout",
                                  !.cur = IF b THEN NoCmd ELSE c]
        PROVE  MonInv'
    <3>1. /\ mon'.pc = IF b THEN "scan" ELSE "timeout"
          /\ mon'.cur = IF b THEN NoCmd ELSE c
      BY <2>1 DEF TypeOK, MonState
    <3> QED BY <2>1, <3>1
  <2>2. CASE mon' = MonIdle
    BY <2>2 DEF MonIdle
  <2>3. \A c : StillActive(c) \in BOOLEAN
    BY DEF StillActive
  <2> QED BY <1>3, <2>1, <2>2, <2>3 DEF MonCheck
<1>4. CASE MonTimeout
  <2>1. CASE cmd[mon.cur] \in Active
    <3>1. mon'.cur = mon.cur /\ mon'.pc = "read"
      BY <1>4, <2>1 DEF MonTimeout, TypeOK, MonState
    <3>2. mon.cur \in Cmds /\ cmd'[mon.cur] = "timeout"
      BY <1>4, <2>1 DEF MonTimeout, TypeOK
    <3> QED BY <3>1, <3>2
  <2>2. CASE cmd[mon.cur] \notin Active
    BY <1>4, <2>2 DEF MonTimeout, TypeOK, MonState
  <2> QED BY <2>1, <2>2
<1>5. CASE MonRead
  BY <1>1, <1>5 DEF MonRead, TypeOK, MonState
<1>6. CASE MonSave
  BY <1>6 DEF MonSave, TypeOK, MonState
<1>7. CASE MonError
  BY <1>7 DEF MonError, TypeOK, MonState
<1>8. CASE MasterRestart
  BY <1>8 DEF MasterRestart, MonIdle
<1>9. CASE UNCHANGED mon
  BY <1>1, <1>9
<1> QED
  BY <1>2, <1>3, <1>4, <1>5, <1>6, <1>7, <1>8, <1>9
  DEF Next, vars, StartRun, Route, Abort, ExpireCmd, ExpireRec, AgentStep, Poll, Finish, Submit,
      Log, Lose, GiveUp, Deadline, Crash, Restart, AgentOnly, Heartbeat, HandlerStep, HandlerError,
      PollSelect, PollClaim, UpdateRead, UpdateSave, ResultFind, ResultComplete, ConvergeRead,
      ConvergeSave, MasterOnly, MarkOffline, Partition, MonitorStep

(* The agents.  First what the steps of the Master do to an agent that     *)
(* stays as it is, then what a reply makes of it.                          *)

LEMMA AgentKept ==
  ASSUME IInv, [Next]_vars, NEW a \in Agents, ~Finish(a)
  PROVE  AgentGood(agent[a], cmd', outcome')
<1> USE DEF IInv
<1>1. agent[a] \in AgentState /\ AgentGood(agent[a], cmd, outcome)
  BY DEF TypeOK, AgentInv
<1>2. CASE agent[a].pc \in {"down", "idle", "polling"}
  BY <1>1, <1>2 DEF AgentGood
<1>3. CASE agent[a].pc \notin {"down", "idle", "polling"}
  <2>1. agent[a].cmd \in Cmds /\ Kept(agent[a].cmd)
    BY <1>3, HeldCommand, KeptFacts
  <2>2. outcome'[agent[a].cmd] = outcome[agent[a].cmd]
    <3>1. CASE UNCHANGED outcome
      BY <3>1
    <3>2. ASSUME NEW b \in Agents, Finish(b)
          PROVE  outcome'[agent[a].cmd] = outcome[agent[a].cmd]
      <4>1. a # b /\ agent[b].cmd # agent[a].cmd
        BY <2>1, <3>2, AgentCommandsAssumption DEF OneExecutor, NoCmd
      <4> QED BY <3>2, <4>1, <2>1 DEF Finish, TypeOK
    <3> QED
      BY <3>1, <3>2
      DEF Next, vars, StartRun, Route, Abort, ExpireCmd, ExpireRec, AgentStep, Poll, Submit, Log,
          Lose, GiveUp, Deadline, Crash, Restart, Heartbeat, HandlerStep, HandlerError, PollSelect,
          PollClaim, UpdateRead, UpdateSave, ResultFind, ResultComplete, ConvergeRead,
          ConvergeSave, MasterOnly, MarkOffline, Partition, MonitorStep, MonScan, MonCheck,
          MonTimeout, MonRead, MonSave, MonError, MonOnly, MasterRestart
  <2> QED BY <1>1, <1>3, <2>1, <2>2 DEF AgentGood, Kept, AgentState, AgentPcs
<1> QED BY <1>2, <1>3

LEMMA AfterReplyGood ==
  ASSUME NEW ag \in AgentState, NEW ok \in BOOLEAN, NEW c \in Cmds \cup {NoCmd},
         NEW st, NEW oc, AgentGood(ag, st, oc),
         c # NoCmd => st[c] = "dispatched" /\ oc[c] = "none"
  PROVE  AgentGood(AfterReply(ag, ok, c), st, oc)
<1> USE DEF AgentState, AgentPcs, AgentGood
<1>0. AgentGood(Idle, st, oc)
  BY DEF Idle, NoCmd
<1>1. CASE ag.pc = "polling"
  <2>1. CASE ok /\ c # NoCmd
    <3>1. AfterReply(ag, ok, c) = [Idle EXCEPT !.pc = "working", !.cmd = c]
      BY <1>1, <2>1 DEF AfterReply
    <3>2. AfterReply(ag, ok, c).pc = "working" /\ AfterReply(ag, ok, c).cmd = c
      BY <3>1 DEF Idle
    <3> QED BY <2>1, <3>2
  <2>2. CASE ~(ok /\ c # NoCmd)
    <3>1. AfterReply(ag, ok, c) = Idle
      BY <1>1, <2>2 DEF AfterReply
    <3> QED BY <1>0, <3>1
  <2> QED BY <2>1, <2>2
<1>2. CASE ag.pc = "logging"
  BY <1>2 DEF AfterReply
<1>3. CASE ag.pc = "closing"
  BY <1>3 DEF AfterReply
<1>4. CASE ag.pc = "submitting"
  <2>1. CASE ok \/ ag.tries = MaxTries
    <3>1. AfterReply(ag, ok, c) = Idle
      BY <1>4, <2>1 DEF AfterReply
    <3> QED BY <1>0, <3>1
  <2>2. CASE ~(ok \/ ag.tries = MaxTries)
    BY <1>4, <2>2 DEF AfterReply
  <2> QED BY <2>1, <2>2
<1>5. CASE ag.pc \notin {"polling", "logging", "closing", "submitting"}
  <2>1. AfterReply(ag, ok, c) = ag
    BY <1>5 DEF AfterReply
  <2> QED BY <2>1
<1> QED BY <1>1, <1>2, <1>3, <1>4, <1>5

LEMMA ReplyGood ==
  ASSUME IInv, [Next]_vars, NEW s \in Slots, NEW ok \in BOOLEAN, NEW c \in Cmds \cup {NoCmd},
         Reply(s, ok, c), \A a \in Agents : ~Finish(a),
         c # NoCmd => cmd'[c] = "dispatched" /\ outcome'[c] = "none"
  PROVE  AgentInv'
<1> SUFFICES ASSUME NEW a \in Agents PROVE AgentGood(agent'[a], cmd', outcome')
  BY DEF AgentInv
<1>1. AgentGood(agent[a], cmd', outcome') /\ agent[a] \in AgentState
  BY AgentKept DEF IInv, TypeOK
<1>2. AgentGood(AfterReply(agent[a], ok, c), cmd', outcome')
  BY <1>1, AfterReplyGood
<1> QED BY <1>1, <1>2 DEF Reply

(* A request that is sent leaves the other agents alone.                   *)
LEMMA SendGood ==
  ASSUME IInv, [Next]_vars, NEW a \in Agents, NEW kind, NEW c, NEW next,
         Send(a, kind, c, next), AgentGood(next, cmd', outcome'),
         \A b \in Agents \ {a} : AgentGood(agent[b], cmd', outcome')
  PROVE  AgentInv'
  BY DEF IInv, TypeOK, Send, AgentInv

(* Two agents never finish in the same step: they hold different commands. *)
LEMMA OneFinish ==
  ASSUME IInv, NEW a \in Agents, NEW b \in Agents, a # b, Finish(a), Finish(b)
  PROVE  FALSE
<1>1. agent[a].cmd \in Cmds /\ agent[b].cmd \in Cmds /\ agent[a].cmd # agent[b].cmd
  BY HeldCommand, AgentCommandsAssumption DEF Finish, IInv, OneExecutor, NoCmd
<1>2. outcome[agent[b].cmd] = "none" /\ outcome'[agent[b].cmd] # "none"
  BY <1>1 DEF Finish, IInv, TypeOK, AgentInv, AgentGood
<1> QED BY <1>1, <1>2 DEF Finish, IInv, TypeOK

LEMMA AgentStays == IInv /\ [Next]_vars => AgentInv'
<1> SUFFICES ASSUME IInv, [Next]_vars PROVE AgentInv'
  OBVIOUS
<1> USE DEF IInv
<1>0. \A a \in Agents : agent[a] \in AgentState /\ AgentGood(agent[a], cmd, outcome)
  BY DEF TypeOK, AgentInv
<1>a. ASSUME NEW a \in Agents, \A b \in Agents \ {a} : agent'[b] = agent[b],
             AgentGood(agent'[a], cmd', outcome'), \A b \in Agents : ~Finish(b)
      PROVE  AgentInv'
  BY <1>a, AgentKept DEF AgentInv
<1>1. ASSUME NEW a \in Agents, Finish(a) PROVE AgentInv'
  <2>1. \A b \in Agents \ {a} : AgentGood(agent[b], cmd', outcome')
    BY <1>1, OneFinish, AgentKept
  <2>2. agent[a].cmd \in Cmds
    BY <1>1, HeldCommand DEF Finish
  <2>3. Taken(cmd'[agent[a].cmd])
    BY <1>0, <1>1 DEF Finish, AgentOnly, AgentGood, Taken
  <2>4. ASSUME NEW o \in {"success", "failure"}, outcome' = [outcome EXCEPT ![agent[a].cmd] = o]
        PROVE  AgentGood([agent[a] EXCEPT !.pc = "closing", !.out = o], cmd', outcome')
    <3>1. outcome'[agent[a].cmd] = o
      BY <2>2, <2>4 DEF TypeOK
    <3>2. agent[a].cmd # NoCmd
      BY <2>2, AgentCommandsAssumption DEF NoCmd
    <3> DEFINE ag == [agent[a] EXCEPT !.pc = "closing", !.out = o]
    <3>3. ag.pc = "closing" /\ ag.out = o /\ ag.cmd = agent[a].cmd
      BY <1>0 DEF AgentState
    <3> HIDE DEF ag
    <3> QED BY <2>3, <3>1, <3>2, <3>3 DEF AgentGood, ag
  <2> QED BY <1>1, <2>1, <2>4, SendGood DEF Finish
<1>2. CASE \A a \in Agents : ~Finish(a)
  <2>0. \A a \in Agents : AgentGood(agent[a], cmd', outcome')
    BY <1>2, AgentKept
  <2>1. ASSUME NEW a \in Agents, Poll(a) PROVE AgentInv'
    <3>1. AgentGood([Idle EXCEPT !.pc = "polling"], cmd', outcome')
      BY DEF Idle, AgentGood, NoCmd
    <3> QED BY <2>0, <2>1, <3>1, SendGood DEF Poll
  <2>2. ASSUME NEW a \in Agents, Log(a) PROVE AgentInv'
    <3>1. AgentGood([agent[a] EXCEPT !.pc = "logging", !.logs = @ + 1], cmd', outcome')
      BY <1>0, <2>0, <2>2 DEF Log, AgentGood, AgentState
    <3> QED BY <2>0, <2>2, <3>1, SendGood DEF Log
  <2>3. ASSUME NEW a \in Agents, Submit(a) PROVE AgentInv'
    <3>1. AgentGood([agent[a] EXCEPT !.pc = "submitting", !.tries = @ + 1], cmd', outcome')
      BY <1>0, <2>0, <2>3 DEF Submit, AgentGood, AgentState
    <3> QED BY <2>0, <2>3, <3>1, SendGood DEF Submit
  <2>4. ASSUME NEW a \in Agents, Lose(a) PROVE AgentInv'
    BY <1>2, <2>4, ReplyGood DEF Lose, TypeOK
  <2>5. ASSUME NEW a \in Agents, GiveUp(a) PROVE AgentInv'
    <3>1. AgentGood(AfterReply(agent[a], FALSE, NoCmd), cmd', outcome')
      BY <1>0, <2>0, AfterReplyGood
    <3> QED BY <1>a, <1>2, <2>5, <3>1 DEF GiveUp, TypeOK
  <2>6. ASSUME NEW a \in Agents, Deadline(a) \/ Crash(a) \/ Restart(a) PROVE AgentInv'
    <3>1. /\ AgentGood(Idle, cmd', outcome')
          /\ AgentGood([Idle EXCEPT !.pc = "down"], cmd', outcome')
      BY DEF Idle, AgentGood, NoCmd
    <3> QED BY <1>a, <1>2, <2>6, <3>1 DEF Deadline, Crash, Restart, TypeOK
  <2>7. ASSUME NEW s \in Slots, PollClaim(s) PROVE AgentInv'
    <3>1. CASE Reply(s, TRUE, NoCmd)
      BY <1>2, <3>1, ReplyGood
    <3>2. CASE cmd[handler[s].cmd] = "pending"
      <4>1. handler[s].cmd \in Cmds
        BY <2>7 DEF PollClaim, At, HandlerInv, HandlerGood
      <4>2. cmd'[handler[s].cmd] = "dispatched" /\ Reply(s, TRUE, handler[s].cmd)
        BY <2>7, <3>2, <4>1 DEF PollClaim, TypeOK
      <4>3. outcome'[handler[s].cmd] = "none"
        BY <2>7, <3>2, <4>1 DEF PollClaim, MasterOnly, StartInv, Taken
      <4> QED BY <1>2, <4>1, <4>2, <4>3, ReplyGood
    <3> QED BY <2>7, <3>1, <3>2 DEF PollClaim
  <2>8. ASSUME NEW s \in Slots, HandlerStep(s) \/ HandlerError(s), ~PollClaim(s) PROVE AgentInv'
    <3>1. UNCHANGED agent \/ \E ok \in BOOLEAN : Reply(s, ok, NoCmd)
      BY <2>8 DEF HandlerStep, HandlerError, PollSelect, UpdateRead, UpdateSave, ResultFind,
                  ResultComplete, ConvergeRead, ConvergeSave, Continue
    <3>2. CASE UNCHANGED agent
      BY <2>0, <3>2 DEF AgentInv
    <3> QED BY <1>2, <3>1, <3>2, ReplyGood
  <2>9. CASE MasterRestart
    <3>1. \A a \in Agents : AgentGood(AfterReply(agent[a], FALSE, NoCmd), cmd', outcome')
      BY <1>0, <2>0, AfterReplyGood
    <3> QED BY <2>0, <2>9, <3>1 DEF MasterRestart, AgentInv
  <2>10. CASE UNCHANGED agent
    BY <2>0, <2>10 DEF AgentInv
  <2> QED
    BY <1>2, <2>1, <2>2, <2>3, <2>4, <2>5, <2>6, <2>7, <2>8, <2>9, <2>10
    DEF Next, vars, StartRun, Route, Abort, ExpireCmd, ExpireRec, AgentStep, Heartbeat,
        MarkOffline, Partition, MonitorStep, MonScan, MonCheck, MonTimeout, MonRead, MonSave,
        MonError, MonOnly
<1> QED BY <1>1, <1>2

(* The requests.  What a request says stays true, so only a request that   *)
(* is new or has moved on needs an argument.                               *)

LEMMA HandlerKept ==
  ASSUME IInv, [Next]_vars, NEW s \in Slots
  PROVE  HandlerGood(handler[s], cmd', outcome')
<1>1. HandlerGood(handler[s], cmd, outcome) /\ handler[s].kind \in Kinds
  BY DEF IInv, HandlerInv, TypeOK, Handler
<1>2. CASE handler[s].phase # "free" /\ handler[s].kind # "poll"
  <2>1. Kept(handler[s].cmd)
    BY <1>1, <1>2, KeptFacts DEF HandlerGood
  <2> QED BY <1>1, <1>2, <2>1 DEF HandlerGood, Kept
<1>3. CASE ~(handler[s].phase # "free" /\ handler[s].kind # "poll")
  BY <1>1, <1>3 DEF HandlerGood, Results, Converging
<1> QED BY <1>2, <1>3

LEMMA FreeGood == \A st, oc : HandlerGood(Free, st, oc)
  BY DEF HandlerGood, Free, Converging

LEMMA HandlerSent ==
  ASSUME IInv, [Next]_vars, NEW a \in Agents, NEW kind, NEW c, NEW next, Send(a, kind, c, next),
         kind # "poll" =>
           /\ c \in Cmds
           /\ Taken(cmd'[c])
           /\ kind \in {"success", "ok"} => outcome'[c] = "success"
           /\ kind = "failed" => outcome'[c] = "failure"
           /\ kind = "err" => outcome'[c] # "none"
  PROVE  HandlerInv' /\ WaitInv'
<1> DEFINE h == [phase |-> "received", kind |-> kind, by |-> a, cmd |-> c]
<1>1. HandlerGood(h, cmd', outcome')
  BY DEF HandlerGood, Converging
<1>2. PICK s \in Slots : /\ handler[s].phase = "free"
                        /\ handler' = [handler EXCEPT ![s] = h]
                        /\ wait' = [wait EXCEPT ![a] = s]
  BY DEF Send
<1>3. HandlerInv'
  <2> SUFFICES ASSUME NEW t \in Slots PROVE HandlerGood(handler'[t], cmd', outcome')
    BY DEF HandlerInv
  <2> QED BY <1>1, <1>2, HandlerKept DEF IInv, TypeOK
<1>4. WaitInv'
  <2> SUFFICES ASSUME NEW b \in Agents, wait'[b] # None PROVE handler'[wait'[b]].by = b
    BY DEF WaitInv
  <2>1. CASE b = a
    BY <1>2, <2>1 DEF IInv, TypeOK
  <2>2. CASE b # a
    <3>1. wait'[b] = wait[b] /\ wait[b] \in Slots /\ handler[wait[b]].by = b
      BY <1>2, <2>2 DEF IInv, TypeOK, WaitInv
    <3>2. handler[s].by = None
      BY <1>2 DEF IInv, HandlerInv, HandlerGood
    <3>3. wait[b] # s
      BY <3>1, <3>2, AgentCommandsAssumption
    <3> QED BY <1>2, <3>1, <3>3 DEF IInv, TypeOK
  <2> QED BY <2>1, <2>2
<1> QED BY <1>3, <1>4

LEMMA HandlerReplied ==
  ASSUME IInv, [Next]_vars, NEW s \in Slots, NEW ok, NEW c, Reply(s, ok, c)
  PROVE  HandlerInv' /\ WaitInv'
<1>1. HandlerInv'
  <2> SUFFICES ASSUME NEW t \in Slots PROVE HandlerGood(handler'[t], cmd', outcome')
    BY DEF HandlerInv
  <2> QED BY HandlerKept, FreeGood DEF Reply, IInv, TypeOK
<1>2. WaitInv'
  BY DEF Reply, IInv, TypeOK, WaitInv
<1> QED BY <1>1, <1>2

LEMMA HandlerContinued ==
  ASSUME IInv, [Next]_vars, NEW s \in Slots, NEW ph \in Phases, Continue(s, ph),
         ph \in {"read", "found"} \cup Converging,
         handler[s].phase # "free", handler[s].kind # "poll",
         ph \in Converging => handler[s].kind \in Results /\ cmd'[handler[s].cmd] = "failed"
  PROVE  HandlerInv' /\ WaitInv'
<1>0. handler[s] \in Handler /\ handler' = [handler EXCEPT ![s] = [handler[s] EXCEPT !.phase = ph]]
  BY DEF Continue, IInv, TypeOK
<1>1. HandlerGood([handler[s] EXCEPT !.phase = ph], cmd', outcome')
  BY <1>0, HandlerKept DEF HandlerGood, Handler, Converging
<1>2. HandlerInv'
  <2> SUFFICES ASSUME NEW t \in Slots PROVE HandlerGood(handler'[t], cmd', outcome')
    BY DEF HandlerInv
  <2> QED BY <1>0, <1>1, HandlerKept DEF IInv, TypeOK
<1>3. WaitInv'
  BY <1>0 DEF Continue, IInv, TypeOK, WaitInv, Handler
<1> QED BY <1>2, <1>3

LEMMA HandlerStays == IInv /\ [Next]_vars => HandlerInv' /\ WaitInv'
<1> SUFFICES ASSUME IInv, [Next]_vars PROVE HandlerInv' /\ WaitInv'
  OBVIOUS
<1>0. \A a \in Agents : AgentGood(agent[a], cmd, outcome) /\ agent[a] \in AgentState
  BY DEF IInv, AgentInv, TypeOK
<1>1. ASSUME NEW a \in Agents, Poll(a) PROVE HandlerInv' /\ WaitInv'
  BY <1>1, HandlerSent DEF Poll
<1>2. ASSUME NEW a \in Agents, Log(a) PROVE HandlerInv' /\ WaitInv'
  <2>1. agent[a].cmd \in Cmds /\ Taken(cmd'[agent[a].cmd])
    BY <1>0, <1>2, HeldCommand DEF Log, AgentOnly, AgentGood, Taken
  <2> QED BY <1>2, <2>1, HandlerSent DEF Log
<1>3. ASSUME NEW a \in Agents, Finish(a) PROVE HandlerInv' /\ WaitInv'
  <2>1. agent[a].cmd \in Cmds /\ Taken(cmd'[agent[a].cmd])
    BY <1>0, <1>3, HeldCommand DEF Finish, AgentOnly, AgentGood, Taken
  <2>2. CASE outcome' = [outcome EXCEPT ![agent[a].cmd] = "success"]
             /\ Send(a, "success", agent[a].cmd, [agent[a] EXCEPT !.pc = "closing", !.out = "success"])
    <3>1. outcome'[agent[a].cmd] = "success"
      BY <2>1, <2>2 DEF IInv, TypeOK
    <3> QED BY <2>1, <2>2, <3>1, HandlerSent
  <2>3. CASE outcome' = [outcome EXCEPT ![agent[a].cmd] = "failure"]
             /\ Send(a, "failed", agent[a].cmd, [agent[a] EXCEPT !.pc = "closing", !.out = "failure"])
    <3>1. outcome'[agent[a].cmd] = "failure"
      BY <2>1, <2>3 DEF IInv, TypeOK
    <3> QED BY <2>1, <2>3, <3>1, HandlerSent
  <2> QED BY <1>3, <2>2, <2>3 DEF Finish
<1>4. ASSUME NEW a \in Agents, Submit(a) PROVE HandlerInv' /\ WaitInv'
  <2>1. agent[a].cmd \in Cmds
    BY <1>4, HeldCommand DEF Submit
  <2>2. /\ Taken(cmd'[agent[a].cmd])
        /\ outcome'[agent[a].cmd] # "none"
        /\ agent[a].out = "success" => outcome'[agent[a].cmd] = "success"
    BY <1>0, <1>4 DEF Submit, AgentOnly, AgentGood
  <2> QED BY <1>4, <2>1, <2>2, HandlerSent DEF Submit
<1>5. ASSUME NEW a \in Agents, Lose(a) PROVE HandlerInv' /\ WaitInv'
  BY <1>5, HandlerReplied DEF Lose, IInv, TypeOK
<1>6. ASSUME NEW a \in Agents, GiveUp(a) \/ Deadline(a) \/ Crash(a) \/ Restart(a) PROVE HandlerInv' /\ WaitInv'
  <2>1. HandlerInv'
    BY <1>6, HandlerKept DEF GiveUp, Deadline, Crash, Restart, AgentOnly, HandlerInv
  <2>2. WaitInv'
    BY <1>6 DEF GiveUp, Deadline, Crash, Restart, AgentOnly, WaitInv, IInv, TypeOK
  <2> QED BY <2>1, <2>2
<1>7. ASSUME NEW s \in Slots, HandlerError(s) PROVE HandlerInv' /\ WaitInv'
  BY <1>7, HandlerReplied DEF HandlerError
<1>8. ASSUME NEW s \in Slots, HandlerStep(s) PROVE HandlerInv' /\ WaitInv'
  <2>1. CASE \E ok \in BOOLEAN, c \in Cmds \cup {NoCmd} : Reply(s, ok, c)
    BY <2>1, HandlerReplied
  <2>2. CASE PollSelect(s) /\ ~Reply(s, TRUE, NoCmd)
    <3>0. PICK c \in Cmds : /\ handler' = [handler EXCEPT ![s].phase = "selected", ![s].cmd = c]
                           /\ UNCHANGED wait
      BY <2>2 DEF PollSelect
    <3>1. handler[s] \in Handler /\ handler[s].kind = "poll" /\ handler[s].phase = "received"
      BY <2>2 DEF PollSelect, At, IInv, TypeOK
    <3> DEFINE h == [handler[s] EXCEPT !.phase = "selected", !.cmd = c]
    <3>2. handler' = [handler EXCEPT ![s] = h]
      BY <3>0 DEF IInv, TypeOK
    <3>3. h.phase = "selected" /\ h.kind = "poll" /\ h.cmd = c /\ h.by = handler[s].by
      BY <3>1 DEF Handler
    <3>4. handler[s].by \in Agents
      BY <3>1 DEF IInv, HandlerInv, HandlerGood
    <3> HIDE DEF h
    <3>5. HandlerGood(h, cmd', outcome')
      BY <3>3, <3>4 DEF HandlerGood, Converging
    <3>6. HandlerInv'
      BY <3>2, <3>5, HandlerKept DEF HandlerInv, IInv, TypeOK
    <3>7. WaitInv'
      BY <3>0, <3>2, <3>3 DEF WaitInv, IInv, TypeOK
    <3> QED BY <3>6, <3>7
  <2>3. CASE UpdateRead(s) /\ Continue(s, "read")
    BY <2>3, HandlerContinued DEF UpdateRead, At, Updates, Phases, Converging
  <2>4. CASE ResultFind(s) /\ Continue(s, "found")
    BY <2>4, HandlerContinued DEF ResultFind, At, Results, Phases, Converging
  <2>5. CASE ResultFind(s) /\ Continue(s, "retry") /\ cmd[handler[s].cmd] = "failed"
    BY <2>5, HandlerContinued DEF ResultFind, At, Results, Phases, Converging
  <2>6. CASE ResultComplete(s) /\ Continue(s, "converge")
    <3>1. handler[s].cmd \in Cmds /\ handler[s].phase = "found" /\ handler[s].kind \in Results
      BY <2>6 DEF ResultComplete, At, Results, IInv, HandlerInv, HandlerGood
    <3>2. cmd' = [cmd EXCEPT ![handler[s].cmd] = "failed"] \/ Reply(s, TRUE, NoCmd)
      BY <2>6 DEF ResultComplete
    <3>3. CASE cmd' = [cmd EXCEPT ![handler[s].cmd] = "failed"]
      <4>1. cmd'[handler[s].cmd] = "failed"
        BY <3>1, <3>3 DEF IInv, TypeOK
      <4> QED BY <2>6, <3>1, <4>1, HandlerContinued DEF Results, Phases, Detached, Converging
    <3> QED BY <3>2, <3>3, HandlerReplied
  <2>7. CASE ConvergeRead(s) /\ (Continue(s, "fail") \/ Continue(s, "refail"))
    <3>1. cmd[handler[s].cmd] = "failed" /\ handler[s].kind \in Results
      BY <2>7 DEF ConvergeRead, Converging, IInv, HandlerInv, HandlerGood
    <3> QED BY <2>7, <3>1, HandlerContinued DEF ConvergeRead, Results, Phases, Detached, Converging
  <2>8. CASE PollClaim(s) \/ UpdateSave(s) \/ ConvergeSave(s)
    BY <2>8, HandlerReplied DEF PollClaim, UpdateSave, ConvergeSave
  <2> QED
    BY <1>8, <2>1, <2>2, <2>3, <2>4, <2>5, <2>6, <2>7, <2>8
    DEF HandlerStep, UpdateRead, ResultFind, ResultComplete, ConvergeRead
<1>9. CASE MasterRestart
  BY <1>9, FreeGood DEF MasterRestart, HandlerInv, WaitInv
<1>10. CASE UNCHANGED <<handler, wait>>
  <2>1. HandlerInv'
    BY <1>10, HandlerKept DEF HandlerInv
  <2> QED BY <1>10, <2>1 DEF WaitInv, IInv
<1> QED
  BY <1>1, <1>2, <1>3, <1>4, <1>5, <1>6, <1>7, <1>8, <1>9, <1>10
  DEF Next, vars, StartRun, Route, Abort, ExpireCmd, ExpireRec, AgentStep, Heartbeat,
      MarkOffline, Partition, MonitorStep, MonScan, MonCheck, MonTimeout, MonRead, MonSave,
      MonError, MonOnly

(* One executor: a poll hands out a command that no agent holds, and the   *)
(* reply reaches no other agent.                                           *)

LEMMA ReplyCmd ==
  \A ag \in AgentState, ok \in BOOLEAN :
    AfterReply(ag, ok, NoCmd).cmd \in {ag.cmd, NoCmd}
<1> SUFFICES ASSUME NEW ag \in AgentState, NEW ok \in BOOLEAN
             PROVE  AfterReply(ag, ok, NoCmd).cmd \in {ag.cmd, NoCmd}
  OBVIOUS
<1> USE DEF AgentState
<1>0. Idle.cmd = NoCmd
  BY DEF Idle
<1>1. CASE ag.pc = "polling"
  <2>1. AfterReply(ag, ok, NoCmd) = Idle
    BY <1>1 DEF AfterReply
  <2> QED BY <1>0, <2>1
<1>2. CASE ag.pc = "logging" \/ ag.pc = "closing"
  BY <1>2 DEF AfterReply
<1>3. CASE ag.pc = "submitting"
  <2>1. AfterReply(ag, ok, NoCmd) \in {Idle, [ag EXCEPT !.pc = "reporting"]}
    BY <1>3 DEF AfterReply
  <2> QED BY <1>0, <2>1
<1>4. CASE ag.pc \notin {"polling", "logging", "closing", "submitting"}
  <2>1. AfterReply(ag, ok, NoCmd) = ag
    BY <1>4 DEF AfterReply
  <2> QED BY <2>1
<1> QED BY <1>1, <1>2, <1>3, <1>4

LEMMA ExecutorStays == IInv /\ [Next]_vars => OneExecutor'
<1> SUFFICES ASSUME IInv, [Next]_vars PROVE OneExecutor'
  OBVIOUS
<1> USE DEF IInv
<1>0. /\ \A a \in Agents : agent[a] \in AgentState
      /\ Idle.cmd = NoCmd /\ [Idle EXCEPT !.pc = "down"].cmd = NoCmd
      /\ [Idle EXCEPT !.pc = "polling"].cmd = NoCmd
  BY DEF TypeOK, Idle
<1>1. ASSUME \A a \in Agents : agent'[a].cmd \in {agent[a].cmd, NoCmd} PROVE OneExecutor'
  BY <1>1 DEF OneExecutor
<1>2. ASSUME NEW a \in Agents, NEW kind, NEW c, NEW next, Send(a, kind, c, next),
             next.cmd \in {agent[a].cmd, NoCmd}
      PROVE  OneExecutor'
  BY <1>1, <1>2 DEF Send, TypeOK
<1>3. ASSUME NEW s \in Slots, NEW ok \in BOOLEAN, Reply(s, ok, NoCmd) PROVE OneExecutor'
  BY <1>0, <1>1, <1>3, ReplyCmd DEF Reply
<1>4. ASSUME NEW a \in Agents, AgentStep(a) \/ Log(a) PROVE OneExecutor'
  <2>1. \A p, t, l, o :
          /\ [agent[a] EXCEPT !.pc = p, !.logs = l].cmd = agent[a].cmd
          /\ [agent[a] EXCEPT !.pc = p, !.out = o].cmd = agent[a].cmd
          /\ [agent[a] EXCEPT !.pc = p, !.tries = t].cmd = agent[a].cmd
    BY <1>0 DEF AgentState
  <2> QED BY <1>0, <1>2, <1>4, <2>1 DEF AgentStep, Poll, Finish, Submit, Log
<1>5. ASSUME NEW a \in Agents, Lose(a) PROVE OneExecutor'
  BY <1>3, <1>5 DEF Lose, TypeOK
<1>6. ASSUME NEW a \in Agents, GiveUp(a) PROVE OneExecutor'
  BY <1>0, <1>1, <1>6, ReplyCmd DEF GiveUp, TypeOK
<1>7. ASSUME NEW a \in Agents, Deadline(a) \/ Crash(a) \/ Restart(a) PROVE OneExecutor'
  BY <1>0, <1>1, <1>7 DEF Deadline, Crash, Restart, TypeOK
<1>8. ASSUME NEW s \in Slots, HandlerStep(s) \/ HandlerError(s), ~PollClaim(s) PROVE OneExecutor'
  <2>1. UNCHANGED agent \/ \E ok \in BOOLEAN : Reply(s, ok, NoCmd)
    BY <1>8 DEF HandlerStep, HandlerError, PollSelect, UpdateRead, UpdateSave, ResultFind,
                ResultComplete, ConvergeRead, ConvergeSave, Continue
  <2> QED BY <1>1, <1>3, <2>1
<1>9. ASSUME NEW s \in Slots, PollClaim(s) PROVE OneExecutor'
  <2>1. CASE Reply(s, TRUE, NoCmd)
    BY <1>3, <2>1
  <2>2. CASE cmd[handler[s].cmd] = "pending" /\ Reply(s, TRUE, handler[s].cmd)
    <3> DEFINE c == handler[s].cmd
    <3>1. \A a \in Agents : agent[a].cmd # c
      <4>1. c \in Cmds /\ c # NoCmd
        BY <1>9, AgentCommandsAssumption DEF PollClaim, At, HandlerInv, HandlerGood, NoCmd
      <4> QED BY <1>0, <2>2, <4>1 DEF AgentInv, AgentGood, AgentState, AgentPcs, Taken
    <3>2. \A a, b \in Agents : wait[a] = s /\ wait[b] = s => a = b
      BY AgentCommandsAssumption DEF WaitInv
    <3>3. \A a \in Agents : AfterReply(agent[a], TRUE, c).cmd \in {agent[a].cmd, NoCmd, c}
      <4> SUFFICES ASSUME NEW a \in Agents
                   PROVE  AfterReply(agent[a], TRUE, c).cmd \in {agent[a].cmd, NoCmd, c}
        OBVIOUS
      <4>1. CASE agent[a].pc = "polling"
        <5>1. AfterReply(agent[a], TRUE, c) \in {[Idle EXCEPT !.pc = "working", !.cmd = c], Idle}
          BY <4>1 DEF AfterReply
        <5>2. [Idle EXCEPT !.pc = "working", !.cmd = c].cmd = c
          BY DEF Idle
        <5> QED BY <1>0, <5>1, <5>2
      <4>2. CASE agent[a].pc # "polling"
        <5>1. AfterReply(agent[a], TRUE, c) = AfterReply(agent[a], TRUE, NoCmd)
          BY <4>2 DEF AfterReply
        <5> QED BY <1>0, <5>1, ReplyCmd
      <4> QED BY <4>1, <4>2
    <3>4. \A a \in Agents : agent'[a].cmd \in {agent[a].cmd, NoCmd} \/ (wait[a] = s /\ agent'[a].cmd = c)
      BY <2>2, <3>3 DEF Reply
    <3> HIDE DEF c
    <3> QED BY <3>1, <3>2, <3>4 DEF OneExecutor
  <2> QED BY <1>9, <2>1, <2>2 DEF PollClaim
<1>10. CASE MasterRestart
  BY <1>0, <1>1, <1>10, ReplyCmd DEF MasterRestart
<1>11. CASE UNCHANGED agent
  BY <1>1, <1>11
<1> QED
  BY <1>4, <1>5, <1>6, <1>7, <1>8, <1>9, <1>10, <1>11
  DEF Next, vars, StartRun, Route, Abort, ExpireCmd, ExpireRec, Heartbeat, MarkOffline,
      Partition, MonitorStep, MonScan, MonCheck, MonTimeout, MonRead, MonSave, MonError, MonOnly

(* The records.                                                            *)

(* Who may write what into a record.                                       *)
LEMMA RecordStep ==
  ASSUME IInv, [Next]_vars, NEW c \in Cmds
  PROVE  \/ rec'[c] = rec[c]
         \/ rec'[c] = "running"
         \/ rec'[c] = "failed" /\ cmd'[c] \notin Active
         \/ rec'[c] = "success" /\ Taken(cmd'[c]) /\ outcome'[c] = "success"
         \/ rec'[c] = "failed" /\ Taken(cmd'[c]) /\ outcome'[c] = "failure"
<1> USE DEF IInv
<1>1. ASSUME NEW d \in Cmds, StartRun(d) PROVE rec'[c] \in {rec[c], "running"}
  BY <1>1 DEF StartRun, TypeOK
<1>2. ASSUME NEW d \in Cmds, Abort(d)
      PROVE  rec'[c] = rec[c] \/ (rec'[c] = "failed" /\ cmd'[c] \notin Active)
  BY <1>2 DEF Abort, TypeOK, StartInv, Active
<1>3. ASSUME NEW s \in Slots, UpdateSave(s)
      PROVE  \/ rec'[c] \in {rec[c], "running"}
             \/ rec'[c] = "success" /\ Taken(cmd'[c]) /\ outcome'[c] = "success"
             \/ rec'[c] = "failed" /\ Taken(cmd'[c]) /\ outcome'[c] = "failure"
  <2>1. /\ handler[s].kind \in Updates
        /\ Taken(cmd[handler[s].cmd])
        /\ handler[s].kind = "success" => outcome[handler[s].cmd] = "success"
        /\ handler[s].kind = "failed" => outcome[handler[s].cmd] = "failure"
    BY <1>3 DEF UpdateSave, At, Updates, HandlerInv, HandlerGood
  <2> QED BY <1>3, <2>1 DEF UpdateSave, MasterOnly, Updates, TypeOK
<1>4. ASSUME NEW s \in Slots, ConvergeSave(s)
      PROVE  rec'[c] = rec[c] \/ (rec'[c] = "failed" /\ cmd'[c] \notin Active)
  <2>1. cmd[handler[s].cmd] = "failed"
    BY <1>4 DEF ConvergeSave, Converging, HandlerInv, HandlerGood
  <2> QED BY <1>4, <2>1 DEF ConvergeSave, Active, TypeOK
<1>5. CASE MonSave
  BY <1>5 DEF MonSave, MonInv, Active, TypeOK
<1>6. CASE MasterRestart
  BY <1>6 DEF MasterRestart
<1>7. CASE UNCHANGED rec
  BY <1>7
<1> QED
  BY <1>1, <1>2, <1>3, <1>4, <1>5, <1>6, <1>7
  DEF Next, vars, Route, ExpireCmd, ExpireRec, AgentStep, Poll, Finish, Submit, Log, Lose,
      GiveUp, Deadline, Crash, Restart, AgentOnly, Heartbeat, HandlerStep, HandlerError, PollSelect,
      PollClaim, UpdateRead, ResultFind, ResultComplete, ConvergeRead, MarkOffline, Partition,
      MonitorStep, MonScan, MonCheck, MonTimeout, MonRead, MonError

LEMMA SuccessStays == IInv /\ [Next]_vars => SuccessIsStored'
<1> SUFFICES ASSUME IInv, [Next]_vars, NEW c \in Cmds, rec'[c] = "success" \/ cmd'[c] = "succeeded"
             PROVE  outcome'[c] = "success"
  BY DEF SuccessIsStored
<1>1. Kept(c)
  BY KeptFacts
<1>2. rec[c] = "success" \/ cmd[c] = "succeeded" => outcome[c] = "success"
  BY DEF IInv, SuccessIsStored
<1> QED BY <1>1, <1>2, RecordStep DEF Kept

(* A command that is enqueued has a running record.                        *)
LEMMA ActiveStays == IInv /\ [Next]_vars => ActiveRecordIsOpen'
<1> SUFFICES ASSUME IInv, [Next]_vars, NEW c \in Cmds
             PROVE  /\ cmd'[c] = "pending" => rec'[c] = "running"
                    /\ cmd'[c] = "dispatched" /\ rec'[c] = "success" => outcome'[c] = "success"
                    /\ cmd'[c] = "dispatched" /\ rec'[c] = "failed" => outcome'[c] = "failure"
  BY DEF ActiveRecordIsOpen
<1> USE DEF IInv
<1>0. /\ cmd[c] = "pending" => rec[c] = "running"
      /\ cmd[c] = "dispatched" /\ rec[c] = "failed" => outcome[c] = "failure"
      /\ Kept(c)
  BY KeptFacts DEF ActiveRecordIsOpen
<1>1. cmd'[c] = "dispatched" /\ rec'[c] = "success" => outcome'[c] = "success"
  BY SuccessStays DEF SuccessIsStored
<1>2. cmd'[c] \in Active => cmd[c] \in Active \/ (cmd'[c] = "pending" /\ rec'[c] = "running")
  <2>1. CASE \E d \in Cmds : Route(d)
    BY <2>1 DEF Route, TypeOK, StartInv
  <2>2. ASSUME NEW s \in Slots, PollClaim(s) PROVE cmd'[c] \in Active => cmd[c] \in Active
    BY <2>2 DEF PollClaim, TypeOK, Active
  <2>3. ASSUME NEW s \in Slots, ResultComplete(s) PROVE cmd'[c] \in Active => cmd[c] \in Active
    BY <2>3 DEF ResultComplete, TypeOK, Active
  <2>4. CASE MonTimeout
    BY <2>4 DEF MonTimeout, TypeOK, Active
  <2>5. CASE UNCHANGED cmd
    BY <2>5
  <2> QED
    BY <2>1, <2>2, <2>3, <2>4, <2>5
    DEF Next, vars, StartRun, Abort, ExpireCmd, ExpireRec, AgentStep, Poll, Finish, Submit, Log,
        Lose, GiveUp, Deadline, Crash, Restart, AgentOnly, Heartbeat, HandlerStep, HandlerError, PollSelect,
        UpdateRead, UpdateSave, ResultFind, ConvergeRead, ConvergeSave, MarkOffline, Partition,
        MonitorStep, MonScan, MonCheck, MonRead, MonSave, MonError, MasterRestart
<1>3. cmd'[c] = "pending" => rec'[c] = "running"
  BY <1>0, <1>2, RecordStep DEF Active, Taken, Kept
<1>4. cmd'[c] = "dispatched" /\ rec'[c] = "failed" => outcome'[c] = "failure"
  BY <1>0, <1>2, RecordStep DEF Active, Taken, Kept
<1> QED BY <1>1, <1>3, <1>4

-----------------------------------------------------------------------------
(* The invariant and the theorems.                                         *)

LEMMA Initially == Init => IInv
<1> SUFFICES ASSUME Init PROVE IInv
  OBVIOUS
<1> USE AgentCommandsAssumption DEF Init
<1>1. TypeOK
  BY DEF TypeOK, Free, Handler, Phases, Kinds, Idle, AgentState, AgentPcs, MonIdle, MonState
<1>2. StartInv /\ AgentInv /\ OneExecutor /\ SuccessIsStored /\ ActiveRecordIsOpen
  BY DEF StartInv, Taken, AgentInv, AgentGood, Idle, NoCmd, OneExecutor, SuccessIsStored,
         ActiveRecordIsOpen
<1>3. WaitInv /\ HandlerInv /\ MonInv
  BY FreeGood DEF WaitInv, HandlerInv, MonInv, MonIdle
<1> QED BY <1>1, <1>2, <1>3 DEF IInv

LEMMA Inductive == IInv /\ [Next]_vars => IInv'
  BY TypeStep, StartStep, AgentStays, HandlerStays, MonStep, ExecutorStays, SuccessStays,
     ActiveStays DEF IInv

THEOREM Invariance == Spec => []IInv
  BY Initially, Inductive, PTL DEF Spec

(* The variables of the Master, the monitor and the agents stay within     *)
(* their types, whatever the handlers, the faults and time do; a handler   *)
(* never touches a row that is not there.                                  *)
THEOREM TypeCorrect == Spec => []TypeOK
<1>1. IInv => TypeOK
  BY DEF IInv
<1> QED BY <1>1, Invariance, PTL

(* ClaimPending hands a command to one agent process, for any number of    *)
(* processes with the token of the node, of polls in flight and of faults. *)
THEOREM OneExecutorHolds == Spec => []OneExecutor
<1>1. IInv => OneExecutor
  BY DEF IInv
<1> QED BY <1>1, Invariance, PTL

(* Neither UpdateRecord nor SubmitCommandResult announces a success that   *)
(* did not happen.                                                         *)
THEOREM SuccessIsStoredHolds == Spec => []SuccessIsStored
<1>1. IInv => SuccessIsStored
  BY DEF IInv
<1> QED BY <1>1, Invariance, PTL

(* Only the report of its own execution settles the record of an active    *)
(* command: not the monitor, not failLinkedRecord, not a Master restart.   *)
THEOREM ActiveRecordIsOpenHolds == Spec => []ActiveRecordIsOpen
<1>1. IInv => ActiveRecordIsOpen
  BY DEF IInv
<1> QED BY <1>1, Invariance, PTL

(* The queue between the Master and its Agents implements JobQueue.        *)
THEOREM Implementation == Spec => ImplementsJobQueue
<1>1. Init => Queue!Init
  BY DEF Init, Queue!Init
<1>2. IInv /\ [Next]_vars => [Queue!Next]_(Queue!vars)
  BY QueueStep DEF Queue!vars
<1> QED BY <1>1, <1>2, Invariance, PTL DEF Spec, ImplementsJobQueue, Queue!Spec
====
