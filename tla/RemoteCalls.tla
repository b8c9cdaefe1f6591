---------------------------- MODULE RemoteCalls -----------------------------
(* Questions to a remote node (a directory listing, the databases of a      *)
(* server) and deletions on it.  The command queue carries both: the        *)
(* handler of a question stores a command and looks at its row until there  *)
(* is an answer or fifteen seconds are over; a deletion is not waited for.  *)
(* The node's Agent handles one command after the other, long backups among *)
(* them, so that an answer may come when nobody waits for it any more.      *)
EXTENDS Integers, Sequences

CONSTANTS
    Nobody,
    Callers,      \* handlers of questions
    Places,       \* what may be asked about, or deleted
    MaxCommands,  \* bound: commands of a behaviour
    MaxChanges,   \* bound: changes on the node
    MaxAttempts,  \* attempts of submitCommandResult (three in the code)
    MaxLosses     \* bound: polls and results lost, failures of the Agent

ASSUME RemoteCallsAssumption ==
    /\ MaxCommands \in Nat /\ MaxChanges \in Nat /\ MaxLosses \in Nat
    /\ MaxAttempts \in Nat \ {0}

VARIABLES
    commands,  \* the rows of the queue, by id
    caller,    \* [Callers -> the question it waits for, or what came of its last]
    node,      \* the command in the Agent's hands, or Nobody
    place,     \* [Places -> version of what is there, 0 when it was deleted]
    changes, losses

remoteVars == <<commands, caller, node, place, changes, losses>>

Ids == DOMAIN commands
ActiveStates == {"pending", "dispatched"}
FinalStates == {"succeeded", "failed", "timeout"}

Loss ==
    /\ losses < MaxLosses
    /\ losses' = losses + 1

NoLoss == UNCHANGED losses

Command(kind, p) == [kind |-> kind, place |-> p, status |-> "pending", result |-> Nobody]
Settled(id, status, result) ==
    commands' = [commands EXCEPT ![id].status = status, ![id].result = result]

-----------------------------------------------------------------------------
(* The Master.                                                              *)

(* Mutant: a command that asks the same is shared.                          *)
ShareCommand(kind, p) ==
    /\ Len(commands) < MaxCommands
    /\ commands' = IF \E i \in Ids : commands[i].kind = kind /\ commands[i].place = p
                   THEN commands ELSE Append(commands, Command(kind, p))

EnqueueCommand(kind, p) ==
    /\ Len(commands) < MaxCommands
    /\ commands' = Append(commands, Command(kind, p))

IdOf(kind, p) == CHOOSE i \in DOMAIN commands' :
    /\ commands'[i].kind = kind /\ commands'[i].place = p
    /\ \A j \in DOMAIN commands' : commands'[j].kind = kind /\ commands'[j].place = p => j <= i

(* remoteListDirectory, discoverViaAgent: the node is online.               *)
Ask(c, p) ==
    /\ caller[c].step # "waiting"
    /\ EnqueueCommand("question", p)
    /\ caller' = [caller EXCEPT ![c] = [step |-> "waiting", id |-> IdOf("question", p), place |-> p,
                                        since |-> place[p], answer |-> Nobody]]
    /\ UNCHANGED <<node, place, changes>> /\ NoLoss

(* deleteRemoteLocalDiskObject, and the run_task commands of backups.       *)
Enqueued(kind, p) ==
    /\ EnqueueCommand(kind, p)
    /\ UNCHANGED <<caller, node, place, changes>> /\ NoLoss

Returns(c, step, answer) ==
    /\ caller' = [caller EXCEPT ![c].step = step, ![c].answer = answer]
    /\ UNCHANGED <<commands, node, place, changes>> /\ NoLoss

(* WaitForCommandResult looks at the row every 300 ms.                      *)
SeeResult(c) ==
    /\ caller[c].step = "waiting"
    /\ LET row == commands[caller[c].id] IN
       /\ row.status \in FinalStates
       /\ IF row.status = "succeeded" THEN Returns(c, "answered", row.result)
          ELSE Returns(c, "failed", Nobody)

(* The deadline, a client that is gone, or an error of the database.        *)
GiveUpWaiting(c) ==
    /\ caller[c].step = "waiting"
    /\ Returns(c, "failed", Nobody)

(* TimeoutActive, ten minutes after the command was stored or dispatched.   *)
TimeoutCommand(id) ==
    /\ commands[id].status \in ActiveStates
    /\ Settled(id, "timeout", Nobody)
    /\ UNCHANGED <<caller, node, place, changes>> /\ NoLoss

-----------------------------------------------------------------------------
(* The Agent.                                                               *)

(* Its poll claims the oldest pending command; the reply may be lost.       *)
PollCommand ==
    /\ node = Nobody
    /\ \E id \in Ids :
         /\ commands[id].status = "pending"
         /\ \A j \in Ids : commands[j].status = "pending" => id <= j
         /\ Settled(id, "dispatched", Nobody)
         /\ \/ node' = [id |-> id, step |-> "work", ok |-> FALSE, result |-> Nobody, tries |-> 0] /\ NoLoss
            \/ node' = Nobody /\ Loss
    /\ UNCHANGED <<caller, place, changes>>

Handled(ok, result) ==
    node' = [node EXCEPT !.step = "submit", !.ok = ok, !.result = result]

HandleCommand ==
    /\ node # Nobody /\ node.step = "work"
    /\ LET row == commands[node.id] IN
       \/ /\ row.kind = "question"
          /\ Handled(TRUE, [place |-> row.place, version |-> place[row.place]]) /\ UNCHANGED place
       \/ /\ row.kind = "delete"
          /\ Handled(TRUE, Nobody) /\ place' = [place EXCEPT ![row.place] = 0]
       \/ row.kind = "run" /\ Handled(TRUE, Nobody) /\ UNCHANGED place
    /\ UNCHANGED <<commands, caller, changes>> /\ NoLoss

FailCommand ==
    /\ node # Nobody /\ node.step = "work"
    /\ Handled(FALSE, Nobody)
    /\ UNCHANGED <<commands, caller, place, changes>> /\ Loss

CompleteDispatched ==
    IF commands[node.id].status = "dispatched"
    THEN Settled(node.id, IF node.ok THEN "succeeded" ELSE "failed", node.result)
    ELSE UNCHANGED commands

(* An attempt of submitCommandResult: it arrives (CompleteDispatched), and  *)
(* the reply may be lost, or it does not arrive.                            *)
SubmitResult ==
    /\ node # Nobody /\ node.step = "submit"
    /\ \/ CompleteDispatched /\ node' = Nobody /\ NoLoss
       \/ /\ CompleteDispatched \/ UNCHANGED commands
          /\ node' = IF node.tries + 1 = MaxAttempts THEN Nobody ELSE [node EXCEPT !.tries = @ + 1]
          /\ Loss
    /\ UNCHANGED <<caller, place, changes>>

AgentRestarts ==
    /\ node # Nobody
    /\ node' = Nobody
    /\ UNCHANGED <<commands, caller, place, changes>> /\ Loss

(* Something else changes what there is on the node.                        *)
ChangePlace(p) ==
    /\ changes < MaxChanges /\ place[p] # 0
    /\ changes' = changes + 1
    /\ place' = [place EXCEPT ![p] = @ + 1]
    /\ UNCHANGED <<commands, caller, node>> /\ NoLoss

-----------------------------------------------------------------------------
RemoteInit ==
    /\ commands = <<>>
    /\ caller = [c \in Callers |-> [step |-> "idle", id |-> 0, place |-> Nobody, since |-> 0,
                                    answer |-> Nobody]]
    /\ node = Nobody
    /\ place = [p \in Places |-> 1]
    /\ changes = 0 /\ losses = 0

CallerStep(c) == SeeResult(c) \/ GiveUpWaiting(c)

RemoteNext ==
    \/ \E c \in Callers : CallerStep(c) \/ \E p \in Places : Ask(c, p)
    \/ \E p \in Places : Enqueued("delete", p) \/ Enqueued("run", p) \/ ChangePlace(p)
    \/ \E id \in Ids : TimeoutCommand(id)
    \/ PollCommand \/ HandleCommand \/ FailCommand \/ SubmitResult \/ AgentRestarts

RemoteSpec == RemoteInit /\ [][RemoteNext]_remoteVars

-----------------------------------------------------------------------------
(* A question is answered with what it asked about, and with what was there *)
(* after it was asked: never with the answer to a question of another       *)
(* caller, nor with one that came too late for an earlier question          *)
(* (EnqueueCommand, WaitForCommandResult, CompleteDispatched).              *)
AnswerIsCurrent ==
    \A c \in Callers : caller[c].step = "answered" =>
      /\ caller[c].answer.place = caller[c].place
      /\ caller[c].answer.version >= caller[c].since \/ caller[c].answer.version = 0

=============================================================================
