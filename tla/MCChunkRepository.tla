--------------------------- MODULE MCChunkRepository ---------------------------
(* Instances of ChunkRepository for TLC.                                     *)
EXTENDS ChunkRepository, TLC

\* Runs 1 and 2 belong to task a, a later one to task b.
MCTaskOf == [r \in Runs |-> IF r < 3 THEN "a" ELSE "b"]

\* Every task stores its backups in all targets.
MCTargetsOf == [k \in Tasks |-> Targets]

MCSymmetry == Permutations(Chunks)
================================================================================
