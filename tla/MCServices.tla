----------------------------- MODULE MCServices -----------------------------
(* Parts of the Master that share no state: a behaviour is one of them.     *)
EXTENDS NodeRegistry, StorageTargets, Accounts, Chunker, GFSRetention, FileArchives, TLC

VARIABLE part

RequestParts == {"nodes", "targets", "accounts"}
Parts == RequestParts \cup {"chunker", "retention", "archives"}

(* Bounds of the parts' behaviours.                                         *)
MCAsked == [nodes |-> 3, targets |-> 3, accounts |-> 4]
MCClock == [nodes |-> 2, targets |-> 1, accounts |-> 0]

(* Values of the constants.                                                 *)
MCAsk(name, type, enabled, secret) ==
    [name |-> name, type |-> type, enabled |-> enabled, secret |-> secret]
MCTargetAsks == {MCAsk("t", Drive, TRUE, "k"), MCAsk("t", Drive, FALSE, None)}
MCSecrets == {"k", "l"}

MCContact(email, sms) == [ch \in Channels |-> IF ch = "email" THEN email ELSE sms]
MCProfiles ==
    {[name |-> "a", role |-> "admin", disabled |-> FALSE, contact |-> MCContact("x", None)],
     [name |-> "a", role |-> "operator", disabled |-> TRUE, contact |-> MCContact("y", None)]}

MCGear == 0 :> 5 @@ 1 :> 6

MCTier(d, w, m, y) == [daily |-> d, weekly |-> w, monthly |-> m, yearly |-> y]
MCTiers == DOMAIN MCTier(0, 0, 0, 0)
MCDays == 0 .. 3
(* Weeks run over the ends of months and years.                             *)
MCPeriodOf ==
    MCTier([d \in MCDays |-> d], [d \in MCDays |-> (d + 1) \div 2],
           [d \in MCDays |-> d \div 2], [d \in MCDays |-> d \div 3])
MCPolicies == {MCTier(1, 0, 2, 0), MCTier(0, 1, 0, 1)}

MCOrder == <<"d", "d/f", "g">>
MCParentOf == [p \in {"d", "d/f", "g"} |-> IF p = "d/f" THEN "d" ELSE None]
MCExclusions == {{}, {"d"}}

-----------------------------------------------------------------------------
Still(p) ==
    /\ UNCHANGED part
    /\ p # "nodes" => UNCHANGED registryVars
    /\ p # "targets" => UNCHANGED <<targetRows, monitorVars, outside>>
    /\ p # "accounts" => UNCHANGED accountRows
    /\ p # "chunker" => UNCHANGED chunkerVars
    /\ p # "retention" => UNCHANGED retentionVars
    /\ p # "archives" => UNCHANGED archivesVars
    /\ p \notin RequestParts => UNCHANGED requestsVars

Within(p) == asked' <= MCAsked[p] /\ clock' <= MCClock[p]

MCInit ==
    /\ part \in Parts
    /\ RequestsInit /\ NodesInit /\ StorageInit /\ AccountsInit
    /\ ChunkerInit /\ RetentionInit /\ ArchivesInit
    /\ part # "targets" => working = {}
    /\ part # "accounts" => lastUser = 0
    /\ part # "chunker" => content = <<>>
    /\ part # "retention" => policy = MCTier(1, 0, 2, 0)

MCMonitorStep == part = "targets" /\ MonitorStep /\ Still("targets")

MCNext ==
    \/ part = "nodes" /\ NodesNext /\ Within("nodes") /\ Still("nodes")
    \/ part = "targets" /\ StorageNext /\ Within("targets") /\ Still("targets")
    \/ part = "accounts" /\ AccountsNext /\ Within("accounts") /\ Still("accounts")
    \/ part = "chunker" /\ ChunkerNext /\ Still("chunker")
    \/ part = "retention" /\ RetentionNext /\ Still("retention")
    \/ part = "archives" /\ ArchivesNext /\ Still("archives")

MCVars == <<requestsVars, registryVars, targetRows, monitorVars, outside, accountRows,
            chunkerVars, retentionVars, archivesVars, part>>

MCSpec == MCInit /\ [][MCNext]_MCVars /\ WF_MCVars(MCMonitorStep)
=============================================================================
