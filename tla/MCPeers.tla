------------------------------ MODULE MCPeers -------------------------------
(* Parts that each deal with a party outside the Master and share no state: *)
(* a behaviour is one of them.                                              *)
EXTENDS LogHub, Backint, VdiTransfer, AgentUploads, RemoteCalls, Alerts, TLC

VARIABLE peer

(* The monitors share nothing but the clock: a behaviour of Alerts has one  *)
(* of them, with a record for the first to look at, or only runs.           *)
AlertPeers == Monitors \cup {"failures"}
Peers == {"viewers", "hana", "sqlserver", "uploads", "calls"} \cup AlertPeers

MCBackintConfigs == {[compress |-> TRUE, prefix |-> "p"], [compress |-> FALSE, prefix |-> "q"]}

(* One channel by the old switches, one by its list of events.              *)
MCSubscription ==
    [c \in Channels |-> [enabled |-> TRUE, onSuccess |-> FALSE, onFailure |-> c = 1,
                         events |-> IF c = 1 THEN {} ELSE {"backup_failed", "sla_violation"}]]

-----------------------------------------------------------------------------
Rest(p) ==
    /\ peer = p /\ UNCHANGED peer
    /\ p # "viewers" => UNCHANGED vars
    /\ p # "hana" => UNCHANGED backintVars
    /\ p # "sqlserver" => UNCHANGED transferVars
    /\ p # "uploads" => UNCHANGED uploadVars
    /\ p # "calls" => UNCHANGED remoteVars
    /\ p \notin AlertPeers => UNCHANGED alertVars

MCInit ==
    /\ peer \in Peers
    /\ Init /\ BackintInit /\ TransferInit /\ UploadsInit /\ RemoteInit
    /\ AlertsInit
    /\ peer # "uploads" => wanted = Targets /\ modeOf = [t \in Targets |-> "direct"] /\ exec.old

AlertsOf(p) ==
    /\ AlertsNext
    /\ \A m \in Monitors \ {p} : seen'[m] = Absent /\ watched'[m] = watched[m]
    /\ p = "failures" => hours' = 0
    /\ p # "failures" => Len(records') <= IF p = "sla" THEN 1 ELSE 0

MCNext ==
    \/ Rest("viewers") /\ Next
    \/ Rest("hana") /\ BackintNext
    \/ Rest("sqlserver") /\ TransferNext
    \/ Rest("uploads") /\ UploadsNext
    \/ Rest("calls") /\ RemoteNext
    \/ \E p \in AlertPeers : Rest(p) /\ AlertsOf(p)

MCVars == <<vars, backintVars, transferVars, uploadVars, remoteVars, alertVars, peer>>

(* The fairness of LogHub and of VdiTransfer, in the behaviours that are    *)
(* theirs.                                                                  *)
MCFairness ==
    /\ \A r \in Runs : WF_MCVars(Rest("viewers") /\ Finalize(r)) /\ SF_MCVars(Rest("viewers") /\ Complete(r))
    /\ \A v \in Viewers : SF_MCVars(Rest("viewers") /\ ViewStep(v))
    /\ WF_MCVars(Rest("sqlserver") /\ MasterStep)
    /\ WF_MCVars(Rest("sqlserver") /\ TimerFires)
    /\ WF_MCVars(Rest("sqlserver") /\ HelperStops)
    /\ WF_MCVars(Rest("sqlserver") /\ StatementStops)

MCSpec == MCInit /\ [][MCNext]_MCVars /\ MCFairness

(* Whoever deals with a peer that stalls gets away from it.  In behaviours  *)
(* with viewers (LogHub) a run is not held up by those who follow it and    *)
(* all of them learn of its end, as long as no stream is longer than their  *)
(* channels (a longer one blocks the hub, or loses its end); in those with  *)
(* SQL Server (VdiTransfer) a transfer comes to an end whatever the helper  *)
(* and the server do.                                                       *)
PeersRelease ==
    /\ peer = "viewers" /\ [](\A r \in Runs : events[r] <= Buffer) => RunEnds /\ ViewerEnds
    /\ TransferEnds
=============================================================================
