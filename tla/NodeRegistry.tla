---------------------------- MODULE NodeRegistry ----------------------------
(* The rows of the nodes and of the install tokens: NodeService,            *)
(* InstallTokenService, their repositories and the two public handlers that *)
(* hand out an installation.                                                *)
(*                                                                          *)
(* Update of the repository saves the WHOLE row, so that a request undoes   *)
(* what others stored since it read, and brings a deleted row back.  The    *)
(* spans of time keep their order, not their ratio.                         *)
EXTENDS Requests, FiniteSets, Sequences

CONSTANTS
    NodeIds,         \* ids of rows, handed out in increasing order
    LocalNode,       \* the id of the Master's own node, the first row
    NodeNames,       \* names that requests give to nodes
    Installs,        \* ids of install tokens, handed out in increasing order
    OfflineGrace,    \* OfflineGracePeriod, 45 s
    TokenGrace,      \* how long a rotated token is still accepted, 24 h
    TTLs,            \* lifetimes an install token is asked for
    Rate, RateWindow,\* InstallTokenRatePerWin, InstallTokenRateWindow
    Keep             \* how long an expired install token stays, 7 days

ASSUME NodesAssumption ==
    /\ NodeIds \subseteq Nat /\ LocalNode \in NodeIds /\ Installs \subseteq Nat
    /\ None \notin Nat /\ TTLs \subseteq Nat /\ Keep \in Nat
    /\ OfflineGrace \in Nat /\ TokenGrace \in Nat /\ Rate \in Nat /\ RateWindow \in Nat
    /\ IsFiniteSet(NodeNames)

VARIABLES
    nodes,     \* [NodeIds -> row or None]
    installs,  \* [Installs -> row or None]
    last,      \* the last node id, agent token and install token handed out
    beaten,    \* history: when a heartbeat of the node was last accepted
    served     \* history: [Installs -> sequence of the installations handed out]

registryVars == <<nodes, installs, last, beaten, served>>
nodesVars == <<requestsVars, registryVars>>

Remote == NodeIds \ {LocalNode}
Exists(n) == nodes[n] # None

(* The row of a node.  What a heartbeat reports of the host and the limits  *)
(* and labels an operator sets are carried with the row like its name.      *)
NodeRow(name, token) ==
    [name |-> name, token |-> token, prev |-> None, until |-> 0,
     status |-> "offline", seen |-> clock]

(* A row can be inserted or saved: names are unique.                        *)
NameFree(name, n) == \A m \in NodeIds \ {n} : Exists(m) => nodes[m].name # name

(* FindByToken: the token of a node, or the one before it until it expires.  *)
(* Its two queries are one step: what falls between them can only refuse    *)
(* the caller, which changes nothing.                                       *)
FindByToken(t) ==
    {n \in NodeIds : /\ Exists(n)
                     /\ \/ nodes[n].token = t
                        \/ nodes[n].prev = t /\ clock < nodes[n].until}

(* Mutant: the stored status is believed, however old it is. *)
StoredStatus(n) == nodes[n].status

(* The status that List, Get and the scheduler's choice of a node see.      *)
EffectiveStatus(n) ==
    IF n # LocalNode /\ clock - nodes[n].seen > OfflineGrace THEN "offline" ELSE nodes[n].status

Changed(n, row) == [op |-> "save", node |-> n, row |-> row]

-----------------------------------------------------------------------------
(* Nodes.                                                                   *)

NodesInit ==
    /\ nodes = [n \in NodeIds |->
                  IF n = LocalNode THEN [NodeRow("local", 0) EXCEPT !.status = "online"] ELSE None]
    /\ installs = [i \in Installs |-> None]
    /\ last = [node |-> LocalNode, token |-> 0, install |-> 0]
    /\ beaten = [n \in NodeIds |-> None]
    /\ served = [i \in Installs |-> <<>>]

(* Create inserts one row; BatchCreate refuses names that exist, and then   *)
(* inserts all rows in one transaction, which fails as a whole.             *)
NewNodes(names) ==
    /\ names # {} /\ asked < MaxRequests
    /\ \A name \in names : NameFree(name, None)
    /\ LET k == Cardinality(names)
           new == last.node + 1 .. last.node + k
       IN /\ new \subseteq NodeIds
          /\ \E order \in [new -> names] :
               /\ \A name \in names : \E n \in new : order[n] = name
               /\ nodes' = [n \in NodeIds |->
                     IF n \in new THEN NodeRow(order[n], last.token + (n - last.node)) ELSE nodes[n]]
          /\ last' = [last EXCEPT !.node = @ + k, !.token = @ + k]
    /\ asked' = asked + 1
    /\ UNCHANGED <<req, clock, installs, beaten, served>>

Heartbeat(c, t) ==
    /\ \E n \in FindByToken(t) :
         /\ Begin(c, Changed(n, [nodes[n] EXCEPT !.status = "online", !.seen = clock]))
         /\ beaten' = [beaten EXCEPT ![n] = clock]
    /\ UNCHANGED <<nodes, installs, last, served>>

(* Update, before its save: the edits of a name, of limits and of labels.   *)
UpdateNode(c, n, name) ==
    /\ Exists(n)
    /\ Begin(c, Changed(n, [nodes[n] EXCEPT !.name = name]))
    /\ UNCHANGED registryVars

RotateToken(c, n) ==
    /\ Exists(n) /\ n # LocalNode
    /\ last' = [last EXCEPT !.token = @ + 1]
    /\ Begin(c, Changed(n, [nodes[n] EXCEPT !.prev = nodes[n].token,
                                            !.until = clock + TokenGrace,
                                            !.token = last'.token]))
    /\ UNCHANGED <<nodes, installs, beaten, served>>

(* Update of the repository, gorm's Save: the whole row, inserted again     *)
(* when it is gone.  It fails when another node has taken the name.         *)
SaveNode(c) ==
    /\ req[c].op = "save"
    /\ LET n == req[c].node IN
         IF NameFree(req[c].row.name, n)
         THEN nodes' = [nodes EXCEPT ![n] = req[c].row] ELSE UNCHANGED nodes
    /\ Done(c)
    /\ UNCHANGED <<installs, last, beaten, served>>

(* Delete: the node is not the local one and no task is bound to it, when   *)
(* they are counted.  The tasks belong to another table.                    *)
CheckDelete(c, n) ==
    /\ Exists(n) /\ n # LocalNode
    /\ Begin(c, [op |-> "delete", node |-> n])
    /\ UNCHANGED registryVars

DeleteNode(c) ==
    /\ req[c].op = "delete"
    /\ nodes' = [nodes EXCEPT ![req[c].node] = None]
    /\ Done(c)
    /\ UNCHANGED <<installs, last, beaten, served>>

(* The offline monitor: one conditional UPDATE.                             *)
MarkStaleOffline ==
    /\ nodes' = [n \in NodeIds |->
                   IF n # LocalNode /\ Exists(n) /\ nodes[n].status = "online"
                        /\ nodes[n].seen < clock - OfflineGrace
                   THEN [nodes[n] EXCEPT !.status = "offline"] ELSE nodes[n]]
    /\ UNCHANGED <<requestsVars, installs, last, beaten, served>>

-----------------------------------------------------------------------------
(* Install tokens.                                                          *)

(* What makes a token valid, in FindValidByToken and in ConsumeByToken.     *)
Valid(i) == installs[i] # None /\ ~installs[i].consumed /\ clock < installs[i].expires

(* Mutant: the conditional update no longer asks whether it is consumed. *)
ValidTwice(i) == installs[i] # None /\ clock < installs[i].expires

(* The condition of ConsumeByToken's UPDATE.                                *)
Consumable(i) == Valid(i)

CountCreatedSince(n) ==
    Cardinality({i \in Installs : /\ installs[i] # None /\ installs[i].node = n
                                  /\ installs[i].created >= clock - RateWindow})

(* Create and CreateCommand, up to the insertion: the node exists, and the  *)
(* rate is kept when the rows are counted.                                  *)
CheckInstall(c, n, mode, ttl) ==
    /\ Exists(n) /\ CountCreatedSince(n) < Rate
    /\ Begin(c, [op |-> "issue", node |-> n, mode |-> mode, expires |-> clock + ttl])
    /\ UNCHANGED registryVars

IssueInstall(c) ==
    /\ req[c].op = "issue"
    /\ last.install + 1 \in Installs
    /\ installs' = [installs EXCEPT ![last.install + 1] =
         [node |-> req[c].node, mode |-> req[c].mode, expires |-> req[c].expires,
          created |-> clock, consumed |-> FALSE]]
    /\ last' = [last EXCEPT !.install = @ + 1]
    /\ Done(c)
    /\ UNCHANGED <<nodes, beaten, served>>

(* ConsumeByToken marks the row in one conditional UPDATE and reads it in   *)
(* the same transaction.                                                    *)
ConsumeByToken(c, i) ==
    /\ Consumable(i)
    /\ installs' = [installs EXCEPT ![i].consumed = TRUE]
    /\ UNCHANGED <<nodes, last, beaten, served>>

Hand(i) == [op |-> "hand", install |-> i, node |-> installs[i].node,
            at |-> clock, expires |-> installs[i].expires]

(* GET /install/:token consumes at once.                                    *)
Script(c, i) == ConsumeByToken(c, i) /\ Begin(c, Hand(i))

(* GET /install/:token/compose.yml looks at the mode first.                 *)
Compose(c, i) ==
    /\ Valid(i) /\ installs[i].mode = "docker"
    /\ Begin(c, [op |-> "consume", install |-> i])
    /\ UNCHANGED registryVars

ConsumeCompose(c) ==
    /\ req[c].op = "consume"
    /\ LET i == req[c].install IN
         \/ ConsumeByToken(c, i) /\ Then(c, Hand(i))
         \/ /\ ~Consumable(i) /\ Done(c)
            /\ UNCHANGED registryVars

(* Consume loads the node and the handler renders its current token; a      *)
(* deleted node is an error and the token is spent.                         *)
HandOut(c) ==
    /\ req[c].op = "hand"
    /\ LET r == req[c] IN
         served' = IF ~Exists(r.node) THEN served ELSE
             [served EXCEPT ![r.install] =
                Append(@, [at |-> r.at, expires |-> r.expires, token |-> nodes[r.node].token])]
    /\ Done(c)
    /\ UNCHANGED <<nodes, installs, last, beaten>>

(* StartGC deletes the tokens that expired long ago.                        *)
CollectInstalls ==
    /\ installs' = [i \in Installs |->
         IF installs[i] # None /\ installs[i].expires < clock - Keep THEN None ELSE installs[i]]
    /\ UNCHANGED <<requestsVars, nodes, last, beaten, served>>

-----------------------------------------------------------------------------
(* The Master restarts; EnsureLocalNode marks its own row online before it  *)
(* serves.  When that row was last seen is read by nobody and left out.     *)
RestartNodes ==
    /\ DropRequests
    /\ nodes' = [nodes EXCEPT ![LocalNode].status = "online"]
    /\ UNCHANGED <<installs, last, beaten, served>>

NodesNext ==
    \/ \E names \in SUBSET NodeNames : NewNodes(names)
    \/ \E c \in Clients :
         \/ \E t \in 1 .. last.token : Heartbeat(c, t)
         \/ \E n \in NodeIds, name \in NodeNames : UpdateNode(c, n, name)
         \/ \E n \in NodeIds : RotateToken(c, n) \/ CheckDelete(c, n)
         \/ \E n \in NodeIds, mode \in {"script", "docker"}, ttl \in TTLs :
              CheckInstall(c, n, mode, ttl)
         \/ \E i \in Installs : Script(c, i) \/ Compose(c, i)
         \/ SaveNode(c) \/ DeleteNode(c) \/ IssueInstall(c) \/ ConsumeCompose(c) \/ HandOut(c)
         \/ Abandon(c) /\ UNCHANGED registryVars
    \/ Tick /\ UNCHANGED registryVars
    \/ MarkStaleOffline \/ CollectInstalls \/ RestartNodes

NodesSpec == RequestsInit /\ NodesInit /\ [][NodesNext]_nodesVars

-----------------------------------------------------------------------------
(* An install token yields at most one installation, whatever downloads,    *)
(* collections and failures meet, and never after it expired: "一次性安装令牌" *)
(* (install_token_service.go, ConsumeByToken's conditional UPDATE).         *)
OneInstall ==
    \A i \in Installs :
      /\ Len(served[i]) <= 1
      /\ \A k \in DOMAIN served[i] : served[i][k].at < served[i][k].expires

(* A remote node is shown online only if a heartbeat of it was accepted     *)
(* within the grace period, although requests save statuses they read long  *)
(* ago over newer ones (model/node.go, EffectiveStatus).                    *)
HonestStatus ==
    \A n \in Remote :
      (Exists(n) /\ EffectiveStatus(n) = "online")
        => beaten[n] # None /\ clock - beaten[n] <= OfflineGrace
=============================================================================
