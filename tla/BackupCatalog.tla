----------------------------- MODULE BackupCatalog -----------------------------
(***************************************************************************)
(* What the runs of a task promise of its backups: one is made at a time,  *)
(* a backup is complete or failed for good, one that builds on a base is   *)
(* only complete while its base is, and what others build on stays.        *)
(***************************************************************************)
CONSTANTS Ids, NoBase

VARIABLES
  state,   \* where each backup stands
  base     \* the backup it builds on

vars == <<state, base>>

Init ==
  /\ state = [i \in Ids |-> "none"]
  /\ base = [i \in Ids |-> NoBase]

Begin(i) ==
  /\ state[i] = "none"
  /\ \A j \in Ids : state[j] # "running"
  /\ state' = [state EXCEPT ![i] = "running"]
  /\ UNCHANGED base

Complete(i, b) ==
  /\ state[i] = "running"
  /\ b # NoBase => state[b] = "success"
  /\ state' = [state EXCEPT ![i] = "success"]
  /\ base' = [base EXCEPT ![i] = b]

Fail(i) ==
  /\ state[i] = "running"
  /\ state' = [state EXCEPT ![i] = "failed"]
  /\ UNCHANGED base

Remove(i) ==
  /\ state[i] \in {"success", "failed"}
  /\ \A j \in Ids : state[j] = "success" => base[j] # i
  /\ state' = [state EXCEPT ![i] = "deleted"]
  /\ UNCHANGED base

Next == \E i \in Ids : Begin(i) \/ Fail(i) \/ Remove(i) \/ \E b \in Ids \cup {NoBase} : Complete(i, b)

Spec == Init /\ [][Next]_vars
================================================================================
