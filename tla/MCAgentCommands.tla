---------------------------- MODULE MCAgentCommands ----------------------------
(* Instances of AgentCommands for TLC.                                      *)
EXTENDS AgentCommands, TLC

CONSTANTS n1, n2, a1, a2, a3, s1, s2, s3

MCOneNode   == {n1}
MCOneAgent  == {a1}
MCTwoAgents == {a1, a2}

\* Every agent process carries the token of the only node.
MCNodeOf == [a \in Agents |-> n1]
MCTarget == [c \in Cmds |-> n1]

\* The goroutines of the HTTP server and the processes of one node are
\* interchangeable.
MCSymmetry == Permutations(Slots) \cup Permutations(Agents)
================================================================================
