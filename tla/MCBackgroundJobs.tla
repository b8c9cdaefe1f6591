---------------------------- MODULE MCBackgroundJobs ----------------------------
(* An instance of BackgroundJobs for TLC.                                    *)
EXTENDS BackgroundJobs

CONSTANTS j1, j2

MCJobs == {j1, j2}

\* A differential backup and the full one it builds on.
MCBaseOf == [r \in Sources |-> IF r = "diff" THEN "full" ELSE None]

\* Every kind of job of the Master, two that compete for a slot, and restores on
\* another node, one of a differential backup whose task has moved.
MCRequests == [j \in Jobs |->
  IF j = j1 THEN {<<"restore", "diff">>, <<"verify", "diff">>, <<"remote", "full">>, <<"remote", "diff">>}
            ELSE {<<"restore", "diff">>, <<"drill", "full">>, <<"copy", "full">>}]

\* A restore on another node competes for nothing on the Master: it is the only job
\* of its behaviours, which may meet MaxFaults faults. The others meet one at most.
Remote == \E j \in Jobs : kind[j] = "remote"
Apart ==
  /\ Remote => \A j \in Jobs : kind[j] \in {"none", "remote"}
  /\ ~Remote => Cardinality(faults) <= 1

MCSpec == JobsInit /\ [][JobsNext /\ Apart']_jobVars /\ JobsFairness
================================================================================
