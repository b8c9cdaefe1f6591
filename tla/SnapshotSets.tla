------------------------------ MODULE SnapshotSets ------------------------------
(***************************************************************************)
(* What the chunk repository promises of the snapshots in its targets:     *)
(* each of them can be read as a whole, and they come and go one at a time.*)
(* Nothing that happens to one snapshot touches another.                   *)
(***************************************************************************)
CONSTANTS Targets, Runs

VARIABLE held    \* the snapshots each target can restore

TypeOK == held \in [Targets -> SUBSET Runs]

Init == held = [t \in Targets |-> {}]

(* An upload is complete. *)
Store(t, r) == held' = [held EXCEPT ![t] = @ \cup {r}]

(* Retention or an operator removes a snapshot. *)
Remove(t, r) == held' = [held EXCEPT ![t] = @ \ {r}]

Next == \E t \in Targets, r \in Runs : Store(t, r) \/ Remove(t, r)

Spec == Init /\ [][Next]_held
================================================================================
