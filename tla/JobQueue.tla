------------------------------- MODULE JobQueue -------------------------------
(***************************************************************************)
(* What the command queue promises for every job: it is taken at most      *)
(* once, executed at most once and only after it was taken, its verdict is *)
(* final, and "succeeded" is a verdict on an execution that succeeded.     *)
(***************************************************************************)
CONSTANT Jobs

VARIABLES
  stage,   \* what the queue says of the job
  done     \* what its execution came to

vars == <<stage, done>>

Init ==
  /\ stage = [j \in Jobs |-> "none"]
  /\ done = [j \in Jobs |-> "none"]

Enqueue(j) ==
  /\ stage[j] = "none"
  /\ stage' = [stage EXCEPT ![j] = "pending"]
  /\ UNCHANGED done

Take(j) ==
  /\ stage[j] = "pending"
  /\ stage' = [stage EXCEPT ![j] = "dispatched"]
  /\ UNCHANGED done

(* The execution ends; the queue may have given the job up meanwhile.      *)
Execute(j) ==
  /\ stage[j] \in {"dispatched", "timeout"}
  /\ done[j] = "none"
  /\ \E o \in {"success", "failure"} : done' = [done EXCEPT ![j] = o]
  /\ UNCHANGED stage

Settle(j) ==
  /\ stage[j] = "dispatched"
  /\ \/ done[j] = "success" /\ stage' = [stage EXCEPT ![j] = "succeeded"]
     \/ done[j] # "none" /\ stage' = [stage EXCEPT ![j] = "failed"]
  /\ UNCHANGED done

Expire(j) ==
  /\ stage[j] \in {"pending", "dispatched"}
  /\ stage' = [stage EXCEPT ![j] = "timeout"]
  /\ UNCHANGED done

Next == \E j \in Jobs : Enqueue(j) \/ Take(j) \/ Execute(j) \/ Settle(j) \/ Expire(j)

Spec == Init /\ [][Next]_vars
================================================================================
