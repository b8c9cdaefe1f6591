---------------------------- MODULE ServicesProofs ----------------------------
(* The services of the Master whose requests overtake each other.           *)
(*                                                                          *)
(* NodeRegistry: one installation per install token and the honest status   *)
(* of a node, for any number of nodes, tokens and requests in flight.  A    *)
(* request that is about to hand out an installation is the only one for    *)
(* its token, and the token is spent (Once); whatever row a request         *)
(* carries, it says "online" only with the time of a heartbeat that was     *)
(* accepted (Current).                                                      *)
(*                                                                          *)
(* Accounts: the factors of every row fit together.  Requests save whole    *)
(* rows, so that it is enough that each row a request carries is consistent *)
(* by itself (AccountsTypeOK); the rest is about the operators that make    *)
(* one row from another.                                                    *)
(*                                                                          *)
(* GFSRetention: what the cleanup leaves of all backups there ever were.    *)
(* The newest backup of a period that the policy counts is always the first *)
(* of its period among those still there, and the periods before it in the  *)
(* walk are later periods (NewestLeft); what a cleanup keeps of a tier has  *)
(* ranks below the tier's number, and the tiers together no more than their *)
(* sum (FewLeft).                                                           *)
(*                                                                          *)
(* FileArchives: what a restore brings back, for any tree of paths.  A walk *)
(* has seen the directory of whatever it has seen or still has to look up,  *)
(* and has archived what it must of it (WalkInv), so that the two backups   *)
(* that are left hold every entry their manifests need (BackupsInv).  The   *)
(* rest is about extracting: an entry of a manifest over a tree that agrees *)
(* with it on which paths are directories never fails and changes nothing   *)
(* but that entry and the directories above it (ExtractIs, Extraction).     *)
(*                                                                          *)
(* Chunker: the chunks of a stream are those of its content, however the    *)
(* reader cuts it up.  The rolling hash is the sum over a window because    *)
(* what was shifted out of it is a multiple of 2 ^ HashBits, which the      *)
(* masks divide (WindowIs); the first cut in what was read is then the      *)
(* first in all that is left of the content (CutIsFirst), and what was      *)
(* emitted and the chunks of the rest make up its split (ChunkerInv).       *)
EXTENDS NodeRegistry, Accounts, GFSRetention, FileArchives, Chunker, FiniteSetTheorems, SequenceTheorems, WellFoundedInduction, TLAPS

-----------------------------------------------------------------------------
(* NodeRegistry                                                             *)
USE NodesAssumption, RequestsAssumption

NodeRows == [name : NodeNames \cup {"local"}, token : Nat, prev : Nat \cup {None}, until : Nat,
             status : {"online", "offline"}, seen : Nat]
InstallRows == [node : NodeIds, mode : {"script", "docker"}, expires : Nat, created : Nat,
                consumed : BOOLEAN]
CarriedByRequests ==
    UNION {[op : {"idle"}],
           [op : {"save"}, node : NodeIds, row : NodeRows],
           [op : {"delete"}, node : Remote],
           [op : {"issue"}, node : NodeIds, mode : {"script", "docker"}, expires : Nat],
           [op : {"consume"}, install : Installs],
           [op : {"hand"}, install : Installs, node : NodeIds, at : Nat, expires : Nat]}

NodesTypeOK ==
    /\ req \in [Clients -> CarriedByRequests] /\ clock \in Nat
    /\ nodes \in [NodeIds -> NodeRows \cup {None}] /\ nodes[LocalNode] \in NodeRows
    /\ installs \in [Installs -> InstallRows \cup {None}]
    /\ last \in [node : Nat, token : Nat, install : Nat]
    /\ beaten \in [NodeIds -> Nat \cup {None}]
    /\ served \in [Installs -> Seq([at : Nat, expires : Nat, token : Nat])]

(* No other request can spend the token any more.                           *)
Spent(i) == i <= last.install /\ (installs[i] = None \/ installs[i].consumed)

Handing(c) == req[c].op = "hand"

Once ==
    /\ \A i \in Installs : installs[i] # None => i <= last.install
    /\ \A c \in Clients : Handing(c) =>
         /\ Spent(req[c].install) /\ served[req[c].install] = <<>> /\ req[c].at < req[c].expires
         /\ \A d \in Clients : Handing(d) /\ req[d].install = req[c].install => d = c
    /\ \A i \in Installs : served[i] # <<>> =>
         Spent(i) /\ Len(served[i]) = 1 /\ served[i][1].at < served[i][1].expires

(* A row that says "online" has the time of a heartbeat.                    *)
Seen(n, row) == row.status = "online" => beaten[n] # None /\ row.seen <= beaten[n]

Current ==
    /\ \A n \in NodeIds : beaten[n] # None => beaten[n] <= clock
    /\ \A n \in Remote : Exists(n) => Seen(n, nodes[n])
    /\ \A c \in Clients : req[c].op = "save" /\ req[c].node \in Remote => Seen(req[c].node, req[c].row)

RegistryInv == NodesTypeOK /\ Once /\ Current

-----------------------------------------------------------------------------
LEMMA RegistryStarts == RequestsInit /\ NodesInit => RegistryInv
<1> SUFFICES ASSUME RequestsInit, NodesInit PROVE RegistryInv
  OBVIOUS
<1>1. Idle \in CarriedByRequests /\ Idle.op = "idle"
  BY DEF Idle, CarriedByRequests
<1>2. /\ NodeRow("local", 0) \in NodeRows
      /\ [NodeRow("local", 0) EXCEPT !.status = "online"] \in NodeRows
  BY DEF RequestsInit, NodeRow, NodeRows
<1>3. NodesTypeOK
  BY <1>1, <1>2 DEF RequestsInit, NodesInit, NodesTypeOK
<1>4. Once
  BY <1>1 DEF RequestsInit, NodesInit, Once, Handing
<1>5. Current
  BY <1>1 DEF RequestsInit, NodesInit, Current, Exists, Remote
<1> QED BY <1>3, <1>4, <1>5 DEF RegistryInv

LEMMA NewRow ==
  ASSUME NEW m \in NodeNames, NEW t \in Nat, clock \in Nat
  PROVE  NodeRow(m, t) \in NodeRows /\ NodeRow(m, t).status = "offline"
BY DEF NodeRow, NodeRows

LEMMA Marked ==
  ASSUME NEW r \in NodeRows, NEW s \in {"online", "offline"}
  PROVE  [r EXCEPT !.status = s] \in NodeRows /\ [r EXCEPT !.status = s].status = s
BY DEF NodeRows

LEMMA Renamed ==
  ASSUME NEW r \in NodeRows, NEW m \in NodeNames
  PROVE  /\ [r EXCEPT !.name = m] \in NodeRows
         /\ [r EXCEPT !.name = m].status = r.status /\ [r EXCEPT !.name = m].seen = r.seen
BY DEF NodeRows

(* What a request may carry.                                                *)
LEMMA Carrying ==
  /\ Idle \in CarriedByRequests /\ Idle.op = "idle"
  /\ \A n \in NodeIds, r \in NodeRows :
       Changed(n, r) \in CarriedByRequests /\ Changed(n, r).op = "save"
       /\ Changed(n, r).node = n /\ Changed(n, r).row = r
  /\ \A n \in Remote : [op |-> "delete", node |-> n] \in CarriedByRequests
  /\ \A n \in NodeIds, m \in {"script", "docker"}, t \in Nat :
       [op |-> "issue", node |-> n, mode |-> m, expires |-> t] \in CarriedByRequests
  /\ \A i \in Installs : [op |-> "consume", install |-> i] \in CarriedByRequests
  /\ \A i \in Installs, n \in NodeIds, t, u \in Nat :
       [op |-> "hand", install |-> i, node |-> n, at |-> t, expires |-> u] \in CarriedByRequests
BY DEF Idle, CarriedByRequests, Changed

LEMMA Shapes ==
  ASSUME NEW r \in CarriedByRequests
  PROVE  /\ r.op = "save" => r.node \in NodeIds /\ r.row \in NodeRows
         /\ r.op = "delete" => r.node \in Remote
         /\ r.op = "issue" => r.node \in NodeIds /\ r.mode \in {"script", "docker"} /\ r.expires \in Nat
         /\ r.op = "consume" => r.install \in Installs
         /\ r.op = "hand" => r.install \in Installs /\ r.node \in NodeIds /\ r.at \in Nat /\ r.expires \in Nat
BY DEF CarriedByRequests

-----------------------------------------------------------------------------
(* A step that changes no install token and hands nothing out.              *)
OnceStays ==
    /\ UNCHANGED <<installs, served>>
    /\ last'.install = last.install
    /\ \A c \in Clients : req'[c] = req[c] \/ req'[c].op # "hand"

LEMMA OnceKept ==
  ASSUME Once, OnceStays
  PROVE  Once'
<1>1. \A i : Spent(i)' <=> Spent(i)
  BY DEF OnceStays, Spent
<1>2. \A c \in Clients : Handing(c)' => Handing(c) /\ req'[c] = req[c]
  BY DEF OnceStays, Handing
<1> QED BY <1>1, <1>2 DEF Once, OnceStays

(* A step that changes no node and carries nothing new as online.           *)
CurrentStays ==
    /\ UNCHANGED <<nodes, beaten>>
    /\ clock' \in Nat /\ clock <= clock'
    /\ \A c \in Clients : \/ req'[c] = req[c] \/ req'[c].op # "save"
                          \/ req'[c].node \in Remote => Seen(req'[c].node, req'[c].row)

LEMMA CurrentKept ==
  ASSUME NodesTypeOK, Current, CurrentStays
  PROVE  Current'
<1>1. \A n \in NodeIds : \A r : Seen(n, r) => Seen(n, r)'
  BY DEF CurrentStays, Seen
<1>2. \A n \in NodeIds : beaten'[n] # None => beaten'[n] <= clock'
  BY DEF CurrentStays, Current, NodesTypeOK
<1>3. \A n \in Remote : Exists(n)' => Seen(n, nodes[n])'
  BY DEF CurrentStays, Current, Exists, Seen
<1>4. \A c \in Clients : req'[c].op = "save" /\ req'[c].node \in Remote => Seen(req[c].node, req[c].row)'
  BY DEF CurrentStays, Current, Seen
<1> QED BY <1>2, <1>3, <1>4 DEF Current

LEMMA ReqMoves ==
  ASSUME NodesTypeOK, NEW c \in Clients, NEW r \in CarriedByRequests, req' = [req EXCEPT ![c] = r]
  PROVE  /\ req' \in [Clients -> CarriedByRequests] /\ req'[c] = r
         /\ \A d \in Clients : d # c => req'[d] = req[d]
BY DEF NodesTypeOK

(* A request that has ended carries nothing.                                *)
LEMMA IdleReq ==
  ASSUME NodesTypeOK, NEW c \in Clients, req' = [req EXCEPT ![c] = Idle]
  PROVE  /\ req' \in [Clients -> CarriedByRequests] /\ req'[c].op = "idle"
         /\ \A d \in Clients : d # c => req'[d] = req[d]
<1>1. Idle \in CarriedByRequests /\ Idle.op = "idle"
  BY Carrying
<1>2. /\ req' \in [Clients -> CarriedByRequests] /\ req'[c] = Idle
      /\ \A d \in Clients : d # c => req'[d] = req[d]
  BY <1>1, ReqMoves
<1> QED BY <1>1, <1>2

-----------------------------------------------------------------------------
(* Requests that only read, and what ends without a write.                  *)
Reads(c, r) ==
    /\ UNCHANGED <<nodes, installs, last, beaten, served, clock>>
    /\ req' = [req EXCEPT ![c] = r]
    /\ r.op # "hand"
    /\ r.op = "save" => r.node \in NodeIds /\ (r.node \in Remote => Seen(r.node, r.row))

LEMMA ReadsInv ==
  ASSUME RegistryInv, NEW c \in Clients, NEW r \in CarriedByRequests, Reads(c, r)
  PROVE  RegistryInv'
<1>1. /\ req' \in [Clients -> CarriedByRequests] /\ req'[c] = r
      /\ \A d \in Clients : d # c => req'[d] = req[d]
  BY ReqMoves DEF RegistryInv, Reads
<1>2. NodesTypeOK'
  BY <1>1 DEF RegistryInv, NodesTypeOK, Reads
<1>3. OnceStays
  BY <1>1 DEF OnceStays, Reads
<1>4. CurrentStays
  BY <1>1 DEF CurrentStays, RegistryInv, NodesTypeOK, Reads
<1> QED BY <1>2, <1>3, <1>4, OnceKept, CurrentKept DEF RegistryInv

LEMMA UpdateInv ==
  ASSUME RegistryInv, NEW c \in Clients, NEW n \in NodeIds, NEW name \in NodeNames, UpdateNode(c, n, name)
  PROVE  RegistryInv'
<1> DEFINE row == [nodes[n] EXCEPT !.name = name]
           r == Changed(n, row)
<1>1. nodes[n] \in NodeRows /\ (n \in Remote => Seen(n, nodes[n]))
  BY DEF UpdateNode, Exists, RegistryInv, NodesTypeOK, Current
<1>2. row \in NodeRows /\ row.status = nodes[n].status /\ row.seen = nodes[n].seen
  BY <1>1, Renamed
<1>3. req' = [req EXCEPT ![c] = r] /\ UNCHANGED <<nodes, installs, last, beaten, served, clock>>
  BY DEF UpdateNode, Begin, registryVars
<1> HIDE DEF row
<1>4. n \in Remote => Seen(n, row)
  BY <1>1, <1>2 DEF Seen
<1>5. r \in CarriedByRequests /\ r.op = "save" /\ r.node = n /\ r.row = row
  BY <1>2, Carrying
<1> HIDE DEF r
<1>6. Reads(c, r)
  BY <1>3, <1>4, <1>5 DEF Reads
<1> QED BY <1>5, <1>6, ReadsInv

LEMMA ReadInv ==
  ASSUME RegistryInv, NEW c \in Clients,
         \/ \E n \in NodeIds : CheckDelete(c, n)
         \/ \E n \in NodeIds, mode \in {"script", "docker"}, ttl \in TTLs : CheckInstall(c, n, mode, ttl)
         \/ \E i \in Installs : Compose(c, i)
         \/ Abandon(c) /\ UNCHANGED registryVars
  PROVE  RegistryInv'
<1>1. CASE \E n \in NodeIds : CheckDelete(c, n)
  <2>1. PICK n \in NodeIds : CheckDelete(c, n)
    BY <1>1
  <2> DEFINE r == [op |-> "delete", node |-> n]
  <2>2. r \in CarriedByRequests /\ r.op = "delete"
    BY <2>1, Carrying DEF CheckDelete, Remote
  <2>3. Reads(c, r)
    BY <2>1, <2>2 DEF CheckDelete, Begin, registryVars, Reads
  <2> QED BY <2>2, <2>3, ReadsInv
<1>2. CASE \E n \in NodeIds, mode \in {"script", "docker"}, ttl \in TTLs : CheckInstall(c, n, mode, ttl)
  <2>1. PICK n \in NodeIds, mode \in {"script", "docker"}, ttl \in TTLs : CheckInstall(c, n, mode, ttl)
    BY <1>2
  <2> DEFINE r == [op |-> "issue", node |-> n, mode |-> mode, expires |-> clock + ttl]
  <2>2. clock + ttl \in Nat
    BY DEF RegistryInv, NodesTypeOK
  <2>3. r \in CarriedByRequests /\ r.op = "issue"
    BY <2>2, Carrying
  <2>4. Reads(c, r)
    BY <2>1, <2>3 DEF CheckInstall, Begin, registryVars, Reads
  <2> QED BY <2>3, <2>4, ReadsInv
<1>3. CASE \E i \in Installs : Compose(c, i)
  <2>1. PICK i \in Installs : Compose(c, i)
    BY <1>3
  <2> DEFINE r == [op |-> "consume", install |-> i]
  <2>2. r \in CarriedByRequests /\ r.op = "consume"
    BY Carrying
  <2>3. Reads(c, r)
    BY <2>1, <2>2 DEF Compose, Begin, registryVars, Reads
  <2> QED BY <2>2, <2>3, ReadsInv
<1>4. CASE Abandon(c) /\ UNCHANGED registryVars
  <2>1. Reads(c, Idle)
    BY <1>4, Carrying DEF Abandon, Done, Then, registryVars, Reads
  <2> QED BY <2>1, Carrying, ReadsInv
<1> QED BY <1>1, <1>2, <1>3, <1>4

-----------------------------------------------------------------------------
(* Requests that write nodes.                                               *)
LEMMA HeartbeatInv ==
  ASSUME RegistryInv, NEW c \in Clients, NEW t, Heartbeat(c, t)
  PROVE  RegistryInv'
<1>1. PICK n \in NodeIds : /\ Exists(n) /\ beaten' = [beaten EXCEPT ![n] = clock]
                           /\ Begin(c, Changed(n, [nodes[n] EXCEPT !.status = "online", !.seen = clock]))
  BY DEF Heartbeat, FindByToken
<1> DEFINE row == [nodes[n] EXCEPT !.status = "online", !.seen = clock]
           r == Changed(n, row)
<1>2. row \in NodeRows /\ row.seen = clock /\ clock \in Nat
  <2>1. nodes[n] \in NodeRows /\ clock \in Nat
    BY <1>1 DEF Exists, RegistryInv, NodesTypeOK
  <2> QED BY <2>1 DEF NodeRows
<1>3. req' = [req EXCEPT ![c] = r] /\ UNCHANGED <<clock, nodes, installs, last, served>>
  BY <1>1 DEF Begin, Heartbeat
<1> HIDE DEF row
<1>4. r \in CarriedByRequests /\ r.op = "save" /\ r.node = n /\ r.row = row
  BY <1>2, Carrying
<1> HIDE DEF r
<1>5. /\ req' \in [Clients -> CarriedByRequests] /\ req'[c] = r
      /\ \A d \in Clients : d # c => req'[d] = req[d]
  BY <1>3, <1>4, ReqMoves DEF RegistryInv
<1>6. beaten' \in [NodeIds -> Nat \cup {None}] /\ beaten'[n] = clock
      /\ \A m \in NodeIds : m # n => beaten'[m] = beaten[m]
  BY <1>1, <1>2 DEF RegistryInv, NodesTypeOK
<1>7. NodesTypeOK'
  BY <1>3, <1>5, <1>6 DEF RegistryInv, NodesTypeOK
<1>8. OnceStays
  BY <1>3, <1>4, <1>5 DEF OnceStays
<1>9. Current'
  <2>0. clock # None
    BY <1>2
  <2>1. ASSUME NEW m \in NodeIds, NEW x \in NodeRows, Seen(m, x) PROVE Seen(m, x)'
    <3>1. CASE m = n /\ x.status = "online"
      <4>1. beaten[n] # None /\ beaten[n] <= clock /\ x.seen <= beaten[n] /\ beaten[n] \in Nat
        BY <2>1, <3>1 DEF Seen, RegistryInv, Current, NodesTypeOK
      <4>2. x.seen \in Nat
        BY DEF NodeRows
      <4> QED BY <1>2, <1>6, <2>0, <3>1, <4>1, <4>2 DEF Seen
    <3>2. CASE m # n \/ x.status # "online"
      BY <1>6, <2>1, <3>2 DEF Seen
    <3> QED BY <3>1, <3>2
  <2>2. row.seen <= beaten'[n] /\ beaten'[n] # None
    BY <1>2, <1>6, <2>0
  <2>3. \A m \in NodeIds : beaten'[m] # None => beaten'[m] <= clock'
    BY <1>2, <1>3, <1>6 DEF RegistryInv, Current
  <2>4. \A m \in Remote : Exists(m)' => Seen(m, nodes[m])'
    BY <1>3, <2>1 DEF RegistryInv, Current, Exists, NodesTypeOK, Remote
  <2>5. \A d \in Clients : req'[d].op = "save" /\ req'[d].node \in Remote => Seen(req[d].node, req[d].row)'
    <3>1. ASSUME NEW d \in Clients, d # c, req'[d].op = "save", req'[d].node \in Remote
          PROVE  Seen(req[d].node, req[d].row)'
      <4>1. req'[d] = req[d] /\ req[d].node \in NodeIds /\ req[d].row \in NodeRows
        BY <1>5, <3>1, Shapes DEF RegistryInv, NodesTypeOK
      <4>2. Seen(req[d].node, req[d].row)
        BY <3>1, <4>1 DEF RegistryInv, Current
      <4> QED BY <2>1, <4>1, <4>2 DEF Seen
    <3>2. req'[c].op = "save" /\ req'[c].node \in Remote => Seen(req[c].node, req[c].row)'
      BY <1>4, <1>5, <2>2 DEF Seen
    <3> QED BY <3>1, <3>2
  <2> QED BY <2>3, <2>4, <2>5 DEF Current
<1> QED BY <1>7, <1>8, <1>9, OnceKept DEF RegistryInv

(* A request saves the row it carries, if the name is free.                 *)
LEMMA SaveInv ==
  ASSUME RegistryInv, NEW c \in Clients, SaveNode(c)
  PROVE  RegistryInv'
<1> DEFINE n == req[c].node
           row == req[c].row
<1>1. n \in NodeIds /\ row \in NodeRows /\ (n \in Remote => Seen(n, row))
  BY Shapes DEF SaveNode, RegistryInv, NodesTypeOK, Current
<1>2. /\ req' = [req EXCEPT ![c] = Idle] /\ UNCHANGED <<clock, installs, last, beaten, served>>
      /\ nodes' = nodes \/ nodes' = [nodes EXCEPT ![n] = row]
  BY DEF SaveNode, Done, Then
<1> HIDE DEF n, row
<1>3. /\ req' \in [Clients -> CarriedByRequests] /\ req'[c].op = "idle"
      /\ \A d \in Clients : d # c => req'[d] = req[d]
  BY <1>2, IdleReq DEF RegistryInv
<1>4. /\ nodes' \in [NodeIds -> NodeRows \cup {None}] /\ nodes'[LocalNode] \in NodeRows
      /\ \A m \in NodeIds : nodes'[m] = nodes[m] \/ (m = n /\ nodes'[m] = row)
  BY <1>1, <1>2 DEF RegistryInv, NodesTypeOK
<1>5. NodesTypeOK'
  BY <1>2, <1>3, <1>4 DEF RegistryInv, NodesTypeOK
<1>6. OnceStays
  BY <1>2, <1>3 DEF OnceStays
<1>7. Current'
  <2>1. \A m \in NodeIds : \A x : Seen(m, x) => Seen(m, x)'
    BY <1>2 DEF Seen
  <2>2. \A m \in Remote : nodes'[m] # None => Seen(m, nodes'[m])
    BY <1>1, <1>4 DEF RegistryInv, Current, Exists, Remote
  <2>3. \A d \in Clients : req'[d].op = "save" /\ req'[d].node \in Remote => Seen(req'[d].node, req'[d].row)
    BY <1>3 DEF RegistryInv, Current
  <2> QED BY <1>2, <2>2, <2>3 DEF RegistryInv, Current, Exists, Seen
<1> QED BY <1>5, <1>6, <1>7, OnceKept DEF RegistryInv

(* New rows begin offline, a deleted row is gone, a silent one goes offline, *)
(* a restart drops the requests.                                            *)
NodesMove ==
    /\ UNCHANGED <<clock, installs, beaten, served>>
    /\ last' \in [node : Nat, token : Nat, install : Nat] /\ last'.install = last.install
    /\ nodes' \in [NodeIds -> NodeRows \cup {None}] /\ nodes'[LocalNode] \in NodeRows
    /\ \A m \in Remote : \/ nodes'[m] = nodes[m] \/ nodes'[m] = None
                         \/ nodes'[m].status = "offline"
    /\ req' \in [Clients -> CarriedByRequests]
    /\ \A d \in Clients : req'[d] = req[d] \/ req'[d].op = "idle"

LEMMA MoveInv ==
  ASSUME RegistryInv, NodesMove
  PROVE  RegistryInv'
<1>1. NodesTypeOK'
  BY DEF NodesMove, RegistryInv, NodesTypeOK
<1>2. OnceStays
  BY DEF OnceStays, NodesMove
<1>3. Current'
  <2>1. \A m \in Remote : nodes'[m] # None => Seen(m, nodes'[m])
    BY DEF NodesMove, RegistryInv, Current, Exists, Seen
  <2>2. \A d \in Clients : req'[d].op = "save" /\ req'[d].node \in Remote => Seen(req'[d].node, req'[d].row)
    BY DEF NodesMove, RegistryInv, Current
  <2> QED BY <2>1, <2>2 DEF NodesMove, RegistryInv, Current, Exists, Seen
<1> QED BY <1>1, <1>2, <1>3, OnceKept DEF RegistryInv

LEMMA NewNodesInv ==
  ASSUME RegistryInv, NEW names \in SUBSET NodeNames, NewNodes(names)
  PROVE  RegistryInv'
<1> DEFINE k == Cardinality(names)
           new == last.node + 1 .. last.node + k
<1>1. k \in Nat
  BY FS_Subset, FS_CardinalityType
<1> HIDE DEF k
<1>2. /\ new \subseteq NodeIds /\ UNCHANGED <<req, clock, installs, beaten, served>>
      /\ last' = [last EXCEPT !.node = @ + k, !.token = @ + k]
      /\ \E order \in [new -> names] :
           nodes' = [n \in NodeIds |->
              IF n \in new THEN NodeRow(order[n], last.token + (n - last.node)) ELSE nodes[n]]
  BY DEF NewNodes, k
<1>3. last \in [node : Nat, token : Nat, install : Nat] /\ clock \in Nat
  BY DEF RegistryInv, NodesTypeOK
<1>4. last' \in [node : Nat, token : Nat, install : Nat] /\ last'.install = last.install
  <2>1. last' = [last EXCEPT !.node = last.node + k, !.token = last.token + k]
    BY <1>2
  <2>2. last.node + k \in Nat /\ last.token + k \in Nat
    BY <1>1, <1>3
  <2> QED BY <1>3, <2>1, <2>2
<1>5. PICK order \in [new -> names] :
        nodes' = [n \in NodeIds |->
           IF n \in new THEN NodeRow(order[n], last.token + (n - last.node)) ELSE nodes[n]]
  BY <1>2
<1>6. ASSUME NEW n \in new
      PROVE  nodes'[n] \in NodeRows /\ nodes'[n].status = "offline"
  <2>1. n \in NodeIds /\ order[n] \in NodeNames
    BY <1>2, <1>5
  <2>2. last.token + (n - last.node) \in Nat
    BY <1>1, <1>3, <1>6
  <2> DEFINE m == order[n]
             t == last.token + (n - last.node)
  <2>3. nodes'[n] = NodeRow(m, t) /\ m \in NodeNames /\ t \in Nat
    BY <1>5, <1>6, <2>1, <2>2
  <2> HIDE DEF m, t
  <2> QED BY <1>3, <2>3, NewRow
<1>7. \A n \in NodeIds \ new : nodes'[n] = nodes[n]
  BY <1>5
<1> HIDE DEF new
<1>8. DOMAIN nodes' = NodeIds /\ nodes' = [n \in NodeIds |-> nodes'[n]]
  BY <1>5
<1>9. nodes' \in [NodeIds -> NodeRows \cup {None}] /\ nodes'[LocalNode] \in NodeRows
  BY <1>6, <1>7, <1>8 DEF RegistryInv, NodesTypeOK
<1>10. NodesMove
  BY <1>2, <1>4, <1>6, <1>7, <1>9 DEF NodesMove, RegistryInv, NodesTypeOK, Remote
<1> QED BY <1>10, MoveInv

LEMMA OtherNodesInv ==
  ASSUME RegistryInv,
         \/ \E c \in Clients : DeleteNode(c)
         \/ MarkStaleOffline
         \/ RestartNodes
  PROVE  RegistryInv'
<1>1. /\ UNCHANGED <<clock, installs, last, beaten, served>>
      /\ last \in [node : Nat, token : Nat, install : Nat]
  BY DEF DeleteNode, MarkStaleOffline, RestartNodes, Done, Then, DropRequests, requestsVars, RegistryInv, NodesTypeOK
<1>2. CASE \E c \in Clients : DeleteNode(c)
  <2>1. PICK c \in Clients : DeleteNode(c)
    BY <1>2
  <2>2. req[c].node \in Remote /\ req' = [req EXCEPT ![c] = Idle] /\ nodes' = [nodes EXCEPT ![req[c].node] = None]
    BY <2>1, Shapes DEF DeleteNode, Done, Then, RegistryInv, NodesTypeOK
  <2>3. req' \in [Clients -> CarriedByRequests] /\ \A d \in Clients : req'[d] = req[d] \/ req'[d].op = "idle"
    BY <2>2, IdleReq DEF RegistryInv
  <2>4. NodesMove
    BY <1>1, <2>2, <2>3 DEF NodesMove, RegistryInv, NodesTypeOK, Remote
  <2> QED BY <2>4, MoveInv
<1>3. CASE MarkStaleOffline
  <2>1. \A n \in NodeIds : \/ nodes'[n] = nodes[n]
                           \/ n \in Remote /\ nodes'[n] \in NodeRows /\ nodes'[n].status = "offline"
    <3>1. ASSUME NEW n \in NodeIds, nodes'[n] # nodes[n]
          PROVE  n \in Remote /\ nodes'[n] \in NodeRows /\ nodes'[n].status = "offline"
      <4>1. n \in Remote /\ nodes[n] \in NodeRows /\ nodes'[n] = [nodes[n] EXCEPT !.status = "offline"]
        BY <1>3, <3>1 DEF MarkStaleOffline, Exists, RegistryInv, NodesTypeOK, Remote
      <4> QED BY <4>1, Marked
    <3> QED BY <3>1
  <2>2. nodes' \in [NodeIds -> NodeRows \cup {None}]
    BY <1>3, <2>1 DEF MarkStaleOffline, RegistryInv, NodesTypeOK
  <2>3. UNCHANGED req
    BY <1>3 DEF MarkStaleOffline, requestsVars
  <2>4. NodesMove
    BY <1>1, <2>1, <2>2, <2>3 DEF NodesMove, RegistryInv, NodesTypeOK, Remote
  <2> QED BY <2>4, MoveInv
<1>4. CASE RestartNodes
  <2>1. nodes' = [nodes EXCEPT ![LocalNode] = [nodes[LocalNode] EXCEPT !.status = "online"]]
    BY <1>4 DEF RestartNodes
  <2>2. [nodes[LocalNode] EXCEPT !.status = "online"] \in NodeRows
    BY Marked DEF RegistryInv, NodesTypeOK
  <2>3. req' \in [Clients -> CarriedByRequests] /\ \A d \in Clients : req'[d].op = "idle"
    BY <1>4, Carrying DEF RestartNodes, DropRequests
  <2>4. NodesMove
    BY <1>1, <2>1, <2>2, <2>3 DEF NodesMove, RegistryInv, NodesTypeOK, Remote
  <2> QED BY <2>4, MoveInv
<1> QED BY <1>2, <1>3, <1>4

LEMMA RotateInv ==
  ASSUME RegistryInv, NEW c \in Clients, NEW n \in NodeIds, RotateToken(c, n)
  PROVE  RegistryInv'
<1> DEFINE t == last.token + 1
           row == [nodes[n] EXCEPT !.prev = nodes[n].token, !.until = clock + TokenGrace, !.token = t]
           r == Changed(n, row)
<1>1. nodes[n] \in NodeRows /\ (n \in Remote => Seen(n, nodes[n])) /\ last.token \in Nat /\ clock \in Nat
  BY DEF RotateToken, Exists, RegistryInv, NodesTypeOK, Current
<1>2. last' = [last EXCEPT !.token = t] /\ last'.token = t
  BY DEF RotateToken, RegistryInv, NodesTypeOK
<1>3. req' = [req EXCEPT ![c] = r] /\ UNCHANGED <<nodes, installs, beaten, served, clock>>
  BY <1>2 DEF RotateToken, Begin
<1>4. row \in NodeRows /\ row.status = nodes[n].status /\ row.seen = nodes[n].seen
  <2>1. nodes[n].token \in Nat /\ clock + TokenGrace \in Nat /\ t \in Nat
    BY <1>1 DEF NodeRows
  <2> DEFINE x == nodes[n]
             p == x.token
             u == clock + TokenGrace
  <2>2. x \in NodeRows /\ p \in Nat /\ u \in Nat /\ t \in Nat /\ row = [x EXCEPT !.prev = p, !.until = u, !.token = t]
    BY <1>1, <2>1
  <2> HIDE DEF t, p, u, row
  <2>3. row \in NodeRows /\ row.status = x.status /\ row.seen = x.seen
    BY <2>2 DEF NodeRows
  <2> QED BY <2>3
<1> HIDE DEF row
<1>5. n \in Remote => Seen(n, row)
  BY <1>1, <1>4 DEF Seen
<1>6. r \in CarriedByRequests /\ r.op = "save" /\ r.node = n /\ r.row = row
  BY <1>4, Carrying
<1> HIDE DEF r
<1>7. /\ req' \in [Clients -> CarriedByRequests] /\ req'[c] = r
      /\ \A d \in Clients : d # c => req'[d] = req[d]
  BY <1>3, <1>6, ReqMoves DEF RegistryInv
<1>8. last' \in [node : Nat, token : Nat, install : Nat] /\ last'.install = last.install
  <2>1. last \in [node : Nat, token : Nat, install : Nat] /\ t \in Nat
    BY <1>1 DEF RegistryInv, NodesTypeOK
  <2> HIDE DEF t
  <2> QED BY <1>2, <2>1
<1>9. NodesTypeOK'
  BY <1>3, <1>7, <1>8 DEF RegistryInv, NodesTypeOK
<1>10. OnceStays
  BY <1>3, <1>6, <1>7, <1>8 DEF OnceStays
<1>11. CurrentStays
  BY <1>1, <1>3, <1>5, <1>6, <1>7 DEF CurrentStays
<1> QED BY <1>9, <1>10, <1>11, OnceKept, CurrentKept DEF RegistryInv

-----------------------------------------------------------------------------
(* Install tokens.                                                          *)

(* Steps on install tokens keep the nodes as they are.                      *)
LEMMA InstallCurrent ==
  ASSUME RegistryInv, UNCHANGED <<nodes, beaten, clock>>,
         \A d \in Clients : req'[d] = req[d] \/ req'[d].op # "save"
  PROVE  Current'
<1>1. CurrentStays
  BY DEF CurrentStays, RegistryInv, NodesTypeOK
<1> QED BY <1>1, CurrentKept DEF RegistryInv

LEMMA IssueInv ==
  ASSUME RegistryInv, NEW c \in Clients, IssueInstall(c)
  PROVE  RegistryInv'
<1> DEFINE k == last.install + 1
           row == [node |-> req[c].node, mode |-> req[c].mode, expires |-> req[c].expires,
                   created |-> clock, consumed |-> FALSE]
<1>1. /\ req[c].node \in NodeIds /\ req[c].mode \in {"script", "docker"} /\ req[c].expires \in Nat
      /\ clock \in Nat /\ last \in [node : Nat, token : Nat, install : Nat]
  BY Shapes DEF IssueInstall, RegistryInv, NodesTypeOK
<1>2. row \in InstallRows
  BY <1>1 DEF InstallRows
<1>3. /\ k \in Installs /\ installs' = [installs EXCEPT ![k] = row] /\ last' = [last EXCEPT !.install = k]
      /\ req' = [req EXCEPT ![c] = Idle] /\ UNCHANGED <<clock, nodes, beaten, served>>
  BY DEF IssueInstall, Done, Then
<1>4. k \in Nat /\ last.install \in Nat /\ last.install < k
  BY <1>1
<1> HIDE DEF row, k
<1>5. last' \in [node : Nat, token : Nat, install : Nat] /\ last'.install = k
  BY <1>1, <1>3, <1>4
<1>6. /\ req' \in [Clients -> CarriedByRequests] /\ req'[c].op = "idle"
      /\ \A d \in Clients : d # c => req'[d] = req[d]
  BY <1>3, IdleReq DEF RegistryInv
<1>7. /\ installs' \in [Installs -> InstallRows \cup {None}]
      /\ \A i \in Installs : i # k => installs'[i] = installs[i]
  BY <1>2, <1>3 DEF RegistryInv, NodesTypeOK
<1>8. NodesTypeOK'
  BY <1>3, <1>5, <1>6, <1>7 DEF RegistryInv, NodesTypeOK
<1>9. Once'
  <2>1. \A i \in Installs : Spent(i) => i # k /\ Spent(i)'
    BY <1>4, <1>5, <1>7 DEF Spent
  <2>2. \A d \in Clients : Handing(d)' => Handing(d) /\ req'[d] = req[d] /\ req[d].install \in Installs
    BY <1>6, Shapes DEF Handing, RegistryInv, NodesTypeOK
  <2>3. ASSUME NEW i \in Installs, installs'[i] # None PROVE i <= last'.install
    <3>1. CASE i = k
      BY <1>4, <1>5, <3>1
    <3>2. CASE i # k
      <4>1. i <= last.install /\ i \in Nat
        BY <1>7, <2>3, <3>2 DEF RegistryInv, Once
      <4> QED BY <1>4, <1>5, <4>1
    <3> QED BY <3>1, <3>2
  <2>4. \A d \in Clients : Handing(d)' =>
          /\ Spent(req[d].install)' /\ served'[req'[d].install] = <<>> /\ req'[d].at < req'[d].expires
          /\ \A e \in Clients : Handing(e)' /\ req'[e].install = req'[d].install => e = d
    BY <1>3, <2>1, <2>2 DEF RegistryInv, Once, Spent
  <2>5. \A i \in Installs : served'[i] # <<>> =>
          Spent(i)' /\ Len(served'[i]) = 1 /\ served'[i][1].at < served'[i][1].expires
    BY <1>3, <2>1 DEF RegistryInv, Once
  <2> QED BY <2>3, <2>4, <2>5 DEF Once
<1> QED BY <1>3, <1>6, <1>8, <1>9, InstallCurrent DEF RegistryInv

(* A request spends a token: none other does, or has done.                  *)
LEMMA ConsumeInv ==
  ASSUME RegistryInv, NEW c \in Clients, NEW i \in Installs, ConsumeByToken(c, i),
         req' = [req EXCEPT ![c] = Hand(i)], UNCHANGED clock
  PROVE  RegistryInv'
<1> DEFINE row == [installs[i] EXCEPT !.consumed = TRUE]
           r == Hand(i)
<1>1. /\ installs[i] # None /\ installs[i] \in InstallRows /\ ~installs[i].consumed
      /\ clock < installs[i].expires /\ clock \in Nat /\ last \in [node : Nat, token : Nat, install : Nat]
  BY DEF ConsumeByToken, Consumable, Valid, RegistryInv, NodesTypeOK
<1>2. row \in InstallRows /\ row.consumed
  BY <1>1 DEF InstallRows
<1>3. installs' = [installs EXCEPT ![i] = row] /\ UNCHANGED <<nodes, last, beaten, served>>
  BY DEF ConsumeByToken
<1>4. installs[i].node \in NodeIds /\ installs[i].expires \in Nat
  BY <1>1 DEF InstallRows
<1>5. /\ r \in CarriedByRequests /\ r.op = "hand" /\ r.install = i /\ r.at < r.expires
  BY <1>1, <1>4, Carrying DEF Hand
<1> HIDE DEF row, r
<1>6. /\ req' \in [Clients -> CarriedByRequests] /\ req'[c] = r
      /\ \A d \in Clients : d # c => req'[d] = req[d]
  BY <1>5, ReqMoves DEF RegistryInv, r
<1>7. /\ installs' \in [Installs -> InstallRows \cup {None}] /\ installs'[i] = row
      /\ \A j \in Installs : j # i => installs'[j] = installs[j]
  BY <1>2, <1>3 DEF RegistryInv, NodesTypeOK
<1>8. NodesTypeOK'
  BY <1>3, <1>6, <1>7 DEF RegistryInv, NodesTypeOK
<1>9. Once'
  <2>1. ~Spent(i) /\ Spent(i)' /\ \A j \in Installs : Spent(j) => Spent(j)'
    <3>1. i <= last.install
      BY <1>1 DEF RegistryInv, Once
    <3>2. ~Spent(i)
      BY <1>1 DEF Spent
    <3>3. Spent(i)'
      BY <1>2, <1>3, <1>7, <3>1 DEF Spent
    <3>4. \A j \in Installs : j # i => (Spent(j) => Spent(j)')
      BY <1>3, <1>7 DEF Spent
    <3> QED BY <3>2, <3>3, <3>4
  <2>2. served[i] = <<>>
    BY <2>1 DEF RegistryInv, Once
  <2>3. \A d \in Clients : d # c /\ Handing(d)' =>
          Handing(d) /\ req'[d] = req[d] /\ req[d].install \in Installs /\ req[d].install # i
    BY <1>6, <2>1, Shapes DEF Handing, RegistryInv, NodesTypeOK, Once
  <2>4. \A j \in Installs : installs'[j] # None => j <= last'.install
    BY <1>1, <1>3, <1>7 DEF RegistryInv, Once
  <2>5. Handing(c)' /\ Spent(req[c].install)' /\ served'[req'[c].install] = <<>> /\ req'[c].at < req'[c].expires
    BY <1>3, <1>5, <1>6, <2>1, <2>2 DEF Handing, Spent
  <2>6. \A d \in Clients : d # c /\ Handing(d)' =>
          Spent(req[d].install)' /\ served'[req'[d].install] = <<>> /\ req'[d].at < req'[d].expires
    BY <1>3, <2>1, <2>3 DEF RegistryInv, Once, Spent
  <2>7. \A d, e \in Clients : Handing(d)' /\ Handing(e)' /\ req'[e].install = req'[d].install => e = d
    BY <1>5, <1>6, <2>3 DEF RegistryInv, Once
  <2>8. \A j \in Installs : served'[j] # <<>> =>
          Spent(j)' /\ Len(served'[j]) = 1 /\ served'[j][1].at < served'[j][1].expires
    BY <1>3, <2>1 DEF RegistryInv, Once
  <2> QED BY <2>4, <2>5, <2>6, <2>7, <2>8 DEF Once
<1>10. \A d \in Clients : req'[d] = req[d] \/ req'[d].op # "save"
  BY <1>5, <1>6
<1> QED BY <1>3, <1>8, <1>9, <1>10, InstallCurrent DEF RegistryInv

LEMMA ScriptInv ==
  ASSUME RegistryInv, NEW c \in Clients, (\E i \in Installs : Script(c, i)) \/ ConsumeCompose(c)
  PROVE  RegistryInv'
<1>1. CASE \E i \in Installs : Script(c, i)
  <2>1. PICK i \in Installs : Script(c, i)
    BY <1>1
  <2>2. ConsumeByToken(c, i) /\ req' = [req EXCEPT ![c] = Hand(i)] /\ UNCHANGED clock
    BY <2>1 DEF Script, Begin
  <2> QED BY <2>2, ConsumeInv
<1>2. CASE ConsumeCompose(c)
  <2> DEFINE i == req[c].install
  <2>1. i \in Installs
    BY <1>2, Shapes DEF ConsumeCompose, RegistryInv, NodesTypeOK
  <2>2. CASE ConsumeByToken(c, i) /\ Then(c, Hand(i))
    <3>1. req' = [req EXCEPT ![c] = Hand(i)] /\ UNCHANGED clock
      BY <2>2 DEF Then
    <3> QED BY <2>1, <2>2, <3>1, ConsumeInv
  <2>3. CASE Done(c) /\ UNCHANGED registryVars
    <3>1. Reads(c, Idle)
      BY <2>3, Carrying DEF Done, Then, registryVars, Reads
    <3> QED BY <3>1, Carrying, ReadsInv
  <2> QED BY <1>2, <2>2, <2>3 DEF ConsumeCompose
<1> QED BY <1>1, <1>2

(* The installation is rendered and sent.                                   *)
LEMMA HandOutInv ==
  ASSUME RegistryInv, NEW c \in Clients, HandOut(c)
  PROVE  RegistryInv'
<1> DEFINE i == req[c].install
           n == req[c].node
           s == [at |-> req[c].at, expires |-> req[c].expires, token |-> nodes[n].token]
<1>1. /\ Handing(c) /\ i \in Installs /\ n \in NodeIds /\ req[c].at \in Nat /\ req[c].expires \in Nat
  BY Shapes DEF HandOut, Handing, RegistryInv, NodesTypeOK
<1>2. Spent(i) /\ served[i] = <<>> /\ req[c].at < req[c].expires
  BY <1>1 DEF RegistryInv, Once
<1>3. /\ req' = [req EXCEPT ![c] = Idle] /\ UNCHANGED <<clock, nodes, installs, last, beaten>>
      /\ served' = served \/ (Exists(n) /\ served' = [served EXCEPT ![i] = Append(served[i], s)])
  BY DEF HandOut, Done, Then
<1>4. Exists(n) => s \in [at : Nat, expires : Nat, token : Nat]
  BY <1>1 DEF Exists, RegistryInv, NodesTypeOK, NodeRows
<1>5. s.at < s.expires
  BY <1>2
<1> HIDE DEF i, n, s
<1>6. Exists(n) => /\ Append(served[i], s) \in Seq([at : Nat, expires : Nat, token : Nat])
                   /\ Len(Append(served[i], s)) = 1 /\ Append(served[i], s)[1] = s
  BY <1>2, <1>4
<1>7. /\ served' \in [Installs -> Seq([at : Nat, expires : Nat, token : Nat])]
      /\ \A j \in Installs : j # i => served'[j] = served[j]
      /\ served'[i] # <<>> => Len(served'[i]) = 1 /\ served'[i][1] = s
  <2>1. CASE served' = served
    BY <1>1, <1>2, <2>1 DEF RegistryInv, NodesTypeOK
  <2>2. CASE Exists(n) /\ served' = [served EXCEPT ![i] = Append(served[i], s)]
    <3> DEFINE one == Append(served[i], s)
    <3>1. one \in Seq([at : Nat, expires : Nat, token : Nat]) /\ Len(one) = 1 /\ one[1] = s
      BY <1>6, <2>2
    <3>2. served' = [served EXCEPT ![i] = one]
      BY <2>2
    <3> HIDE DEF one
    <3> QED BY <1>1, <3>1, <3>2 DEF RegistryInv, NodesTypeOK
  <2> QED BY <1>3, <2>1, <2>2
<1>8. /\ req' \in [Clients -> CarriedByRequests] /\ req'[c].op = "idle"
      /\ \A d \in Clients : d # c => req'[d] = req[d]
  BY <1>3, IdleReq DEF RegistryInv
<1>9. NodesTypeOK'
  BY <1>3, <1>7, <1>8 DEF RegistryInv, NodesTypeOK
<1>10. Once'
  <2>1. \A j : Spent(j)' <=> Spent(j)
    BY <1>3 DEF Spent
  <2>2. \A d \in Clients : Handing(d)' =>
          d # c /\ Handing(d) /\ req'[d] = req[d] /\ req[d].install \in Installs /\ req[d].install # i
    BY <1>1, <1>8, Shapes DEF Handing, RegistryInv, NodesTypeOK, Once, i
  <2>3. \A d \in Clients : Handing(d)' =>
          /\ Spent(req[d].install)' /\ served'[req'[d].install] = <<>> /\ req'[d].at < req'[d].expires
          /\ \A e \in Clients : Handing(e)' /\ req'[e].install = req'[d].install => e = d
    <3>1. \A d \in Clients : Handing(d)' => Spent(req[d].install) /\ served[req[d].install] = <<>>
      BY <2>2 DEF RegistryInv, Once
    <3>2. \A d \in Clients : Handing(d)' => Spent(req[d].install)' /\ served'[req'[d].install] = <<>>
      BY <1>3, <1>7, <2>2, <3>1 DEF Spent
    <3> QED BY <2>2, <3>2 DEF RegistryInv, Once
  <2>4. \A j \in Installs : served'[j] # <<>> =>
          Spent(j)' /\ Len(served'[j]) = 1 /\ served'[j][1].at < served'[j][1].expires
    BY <1>2, <1>5, <1>7, <2>1 DEF RegistryInv, Once
  <2> QED BY <1>3, <2>3, <2>4 DEF RegistryInv, Once
<1> QED BY <1>3, <1>8, <1>9, <1>10, InstallCurrent DEF RegistryInv

LEMMA CollectInv ==
  ASSUME RegistryInv, CollectInstalls
  PROVE  RegistryInv'
<1>1. /\ UNCHANGED <<req, clock, nodes, last, beaten, served>>
      /\ \A i \in Installs : installs'[i] = None \/ installs'[i] = installs[i]
      /\ installs' \in [Installs -> InstallRows \cup {None}]
  BY DEF CollectInstalls, requestsVars, RegistryInv, NodesTypeOK
<1>2. NodesTypeOK'
  BY <1>1 DEF RegistryInv, NodesTypeOK
<1>3. Once'
  <2>1. \A i \in Installs : Spent(i) => Spent(i)'
    BY <1>1 DEF Spent
  <2>2. \A d \in Clients : Handing(d) => req[d].install \in Installs
    BY Shapes DEF Handing, RegistryInv, NodesTypeOK
  <2>3. \A d \in Clients : Handing(d)' =>
          /\ Spent(req[d].install)' /\ served'[req'[d].install] = <<>> /\ req'[d].at < req'[d].expires
          /\ \A e \in Clients : Handing(e)' /\ req'[e].install = req'[d].install => e = d
    BY <1>1, <2>1, <2>2 DEF RegistryInv, Once, Handing, Spent
  <2> QED BY <1>1, <2>1, <2>3 DEF RegistryInv, Once
<1> QED BY <1>1, <1>2, <1>3, InstallCurrent DEF RegistryInv

LEMMA TickInv ==
  ASSUME RegistryInv, Tick /\ UNCHANGED registryVars
  PROVE  RegistryInv'
<1>1. UNCHANGED <<req, nodes, installs, last, beaten, served>> /\ clock' \in Nat /\ clock <= clock'
  BY DEF Tick, registryVars, RegistryInv, NodesTypeOK
<1>2. NodesTypeOK' /\ OnceStays /\ CurrentStays
  BY <1>1 DEF RegistryInv, NodesTypeOK, OnceStays, CurrentStays
<1> QED BY <1>2, OnceKept, CurrentKept DEF RegistryInv

-----------------------------------------------------------------------------
LEMMA NodesStep ==
  ASSUME RegistryInv, [NodesNext]_nodesVars
  PROVE  RegistryInv'
<1>1. ASSUME NEW c \in Clients,
             \/ \E t \in 1 .. last.token : Heartbeat(c, t)
             \/ \E n \in NodeIds, name \in NodeNames : UpdateNode(c, n, name)
             \/ \E n \in NodeIds : RotateToken(c, n)
      PROVE  RegistryInv'
  BY <1>1, HeartbeatInv, UpdateInv, RotateInv
<1>2. ASSUME NEW c \in Clients,
             \/ \E n \in NodeIds : CheckDelete(c, n)
             \/ \E n \in NodeIds, mode \in {"script", "docker"}, ttl \in TTLs : CheckInstall(c, n, mode, ttl)
             \/ \E i \in Installs : Compose(c, i)
             \/ Abandon(c) /\ UNCHANGED registryVars
      PROVE  RegistryInv'
  BY <1>2, ReadInv
<1>3. ASSUME NEW c \in Clients,
             \/ \E i \in Installs : Script(c, i)
             \/ SaveNode(c) \/ DeleteNode(c) \/ IssueInstall(c) \/ ConsumeCompose(c) \/ HandOut(c)
      PROVE  RegistryInv'
  BY <1>3, ScriptInv, SaveInv, OtherNodesInv, IssueInv, HandOutInv
<1>4. CASE UNCHANGED nodesVars
  <2>1. UNCHANGED <<req, clock, nodes, installs, last, beaten, served>>
    BY <1>4 DEF nodesVars, requestsVars, registryVars
  <2>2. NodesTypeOK' /\ OnceStays /\ CurrentStays
    BY <2>1 DEF RegistryInv, NodesTypeOK, OnceStays, CurrentStays
  <2> QED BY <2>2, OnceKept, CurrentKept DEF RegistryInv
<1>5. CASE NodesNext
  <2>1. CASE \E names \in SUBSET NodeNames : NewNodes(names)
    BY <2>1, NewNodesInv
  <2>2. CASE Tick /\ UNCHANGED registryVars
    BY <2>2, TickInv
  <2>3. CASE MarkStaleOffline \/ CollectInstalls \/ RestartNodes
    BY <2>3, OtherNodesInv, CollectInv
  <2> QED BY <1>1, <1>2, <1>3, <1>5, <2>1, <2>2, <2>3 DEF NodesNext
<1> QED BY <1>4, <1>5

THEOREM NodesInv == NodesSpec => []RegistryInv
<1> QED BY RegistryStarts, NodesStep, PTL DEF NodesSpec

(* The rows, and what requests carry from one statement to the next.        *)
THEOREM NodesTyped == NodesSpec => []NodesTypeOK
<1>1. RegistryInv => NodesTypeOK
  BY DEF RegistryInv
<1> QED BY <1>1, NodesInv, PTL

(* ConsumeByToken's conditional UPDATE makes a token good for at most one   *)
(* installation, in time, for any number of downloads at once, whatever is  *)
(* collected, deleted or restarted meanwhile.                               *)
THEOREM OneInstallHolds == NodesSpec => []OneInstall
<1>1. RegistryInv => OneInstall
  <2> SUFFICES ASSUME RegistryInv, NEW i \in Installs
               PROVE  /\ Len(served[i]) <= 1
                      /\ \A k \in DOMAIN served[i] : served[i][k].at < served[i][k].expires
    BY DEF OneInstall
  <2>1. served[i] \in Seq([at : Nat, expires : Nat, token : Nat])
    BY DEF RegistryInv, NodesTypeOK
  <2>2. CASE served[i] = <<>>
    BY <2>2
  <2>3. CASE served[i] # <<>>
    <3>1. Len(served[i]) = 1 /\ served[i][1].at < served[i][1].expires
      BY <2>3 DEF RegistryInv, Once
    <3>2. DOMAIN served[i] = {1}
      BY <2>1, <3>1
    <3> QED BY <3>1, <3>2
  <2> QED BY <2>2, <2>3
<1> QED BY <1>1, NodesInv, PTL

(* EffectiveStatus never shows a node online that nothing was heard of      *)
(* within the grace period, although whole rows are saved over newer ones.  *)
THEOREM HonestStatusHolds == NodesSpec => []HonestStatus
<1>1. RegistryInv => HonestStatus
  <2> SUFFICES ASSUME RegistryInv, NEW n \in Remote, Exists(n), EffectiveStatus(n) = "online"
               PROVE  beaten[n] # None /\ clock - beaten[n] <= OfflineGrace
    BY DEF HonestStatus
  <2>1. nodes[n].status = "online" /\ ~(clock - nodes[n].seen > OfflineGrace)
    BY DEF EffectiveStatus, Remote
  <2>2. nodes[n].seen \in Nat /\ clock \in Nat /\ beaten[n] \in Nat \cup {None}
    BY DEF RegistryInv, NodesTypeOK, Exists, Remote, NodeRows
  <2>3. beaten[n] # None /\ nodes[n].seen <= beaten[n]
    BY <2>1 DEF RegistryInv, Current, Seen
  <2> QED BY <2>1, <2>2, <2>3
<1> QED BY <1>1, NodesInv, PTL

HIDE NodesAssumption

-----------------------------------------------------------------------------
(* Recursion over 0 .. N, and induction, for which a nonempty set of        *)
(* numbers has a least element.                                             *)
Below == {e \in Nat \X Nat : e[1] < e[2]}

LEMMA LeastNumber ==
    ASSUME NEW S \in SUBSET Nat, S # {}
    PROVE  \E x \in S : \A y \in S : x <= y
<1>1. IsWellFoundedOn(Below, Nat)
  BY NatLessThanWellFounded DEF OpToRel, Below
<1>2. \A T : T \subseteq Nat /\ T # {} => \E x \in T : \A y \in T : ~ (<<y, x>> \in Below)
  BY <1>1, WFMin
<1>3. PICK x \in S : \A y \in S : ~ (<<y, x>> \in Below)
  <2>1. S \subseteq Nat
    OBVIOUS
  <2> QED BY <1>2, <2>1
<1>4. ASSUME NEW y \in S PROVE x <= y
  <2>1. x \in Nat /\ y \in Nat /\ <<y, x>> \in Nat \X Nat
    OBVIOUS
  <2>2. ~ (y < x)
    BY <1>3, <2>1 DEF Below
  <2> QED BY <2>1, <2>2
<1> QED BY <1>4

(* What holds at 0 and goes from a number to the next holds up to N.        *)
LEMMA UpTo ==
    ASSUME NEW N \in Nat, NEW Good, 0 \in Good,
           \A n \in 1 .. N : n - 1 \in Good => n \in Good
    PROVE  \A n \in 0 .. N : n \in Good
<1> DEFINE Bad == (0 .. N) \ Good
<1> SUFFICES ASSUME Bad # {} PROVE FALSE
  OBVIOUS
<1>1. PICK x \in Bad : \A y \in Bad : x <= y
  <2>1. Bad \in SUBSET Nat
    OBVIOUS
  <2> HIDE DEF Bad
  <2> QED BY <2>1, LeastNumber
<1>2. x \in 1 .. N /\ x - 1 \in 0 .. N
  BY <1>1
<1>3. x - 1 \in Good
  BY <1>1, <1>2
<1> QED BY <1>1, <1>2, <1>3

(* A function defined by recursion over 0 .. N exists.                      *)
StepsOf(N, V) == [(1 .. N) \X V -> V]
Solves(f, N, V, first, step) ==
    /\ f \in [0 .. N -> V] /\ f[0] = first
    /\ \A i \in 1 .. N : f[i] = step[<<i, f[i - 1]>>]

LEMMA RecursionExists ==
    ASSUME NEW N \in Nat, NEW V, NEW first \in V, NEW step \in StepsOf(N, V)
    PROVE  \E f : Solves(f, N, V, first, step)
<1> DEFINE Good == {n \in 0 .. N : \E f : Solves(f, n, V, first, step)}
<1>0. step \in [(1 .. N) \X V -> V]
  BY DEF StepsOf
<1>1. 0 \in Good
  <2> DEFINE f == [i \in 0 .. 0 |-> first]
  <2>1. Solves(f, 0, V, first, step)
    BY DEF Solves
  <2> HIDE DEF f
  <2> QED BY <2>1
<1>2. ASSUME NEW n \in 1 .. N, n - 1 \in Good PROVE n \in Good
  <2>1. PICK f : Solves(f, n - 1, V, first, step)
    BY <1>2
  <2>a. f \in [0 .. n - 1 -> V] /\ f[0] = first /\ \A i \in 1 .. n - 1 : f[i] = step[<<i, f[i - 1]>>]
    BY <2>1 DEF Solves
  <2> DEFINE g == [i \in 0 .. n |-> IF i = n THEN step[<<n, f[n - 1]>>] ELSE f[i]]
  <2>2. step[<<n, f[n - 1]>>] \in V
    <3>1. <<n, f[n - 1]>> \in (1 .. N) \X V
      BY <2>a
    <3> QED BY <1>0, <3>1
  <2>3. g \in [0 .. n -> V]
    BY <2>2, <2>a
  <2>4. g[n] = step[<<n, f[n - 1]>>] /\ \A i \in 0 .. n - 1 : g[i] = f[i]
    OBVIOUS
  <2> HIDE DEF g
  <2>5. ASSUME NEW i \in 1 .. n PROVE g[i] = step[<<i, g[i - 1]>>]
    <3>1. i - 1 \in 0 .. n - 1 /\ g[i - 1] = f[i - 1]
      BY <2>4
    <3>2. CASE i = n
      BY <2>4, <3>1, <3>2
    <3>3. CASE i \in 1 .. n - 1
      BY <2>a, <2>4, <3>1, <3>3
    <3> QED BY <3>2, <3>3
  <2>6. g[0] = first
    BY <2>a, <2>4
  <2>7. Solves(g, n, V, first, step) /\ n \in 0 .. N
    BY <2>3, <2>5, <2>6 DEF Solves
  <2> QED BY <2>7
<1> HIDE DEF Good
<1>3. N \in Good
  BY <1>1, <1>2, UpTo
<1> QED BY <1>3 DEF Good

-----------------------------------------------------------------------------
(* filterActiveTrustedDevices leaves out devices and adds none.             *)
LEMMA ActiveIsShorter ==
    ASSUME clock \in Nat, NEW devices \in Seq(Nat)
    PROVE  Active(devices) \in Seq(Nat) /\ Len(Active(devices)) <= Len(devices)
<1> DEFINE N == Len(devices)
           Next(i, kept) == IF devices[i] > clock THEN Append(kept, devices[i]) ELSE kept
           step == [e \in (1 .. N) \X Seq(Nat) |-> Next(e[1], e[2])]
           Filter(F) == [i \in 0 .. N |-> IF i = 0 THEN <<>> ELSE Next(i, F[i - 1])]
           kept == CHOOSE F : F = Filter(F)
<1>1. N \in Nat /\ \A i \in 1 .. N : devices[i] \in Nat
  OBVIOUS
<1>2. \A i \in 1 .. N, s \in Seq(Nat) : Next(i, s) \in Seq(Nat) /\ Len(Next(i, s)) <= Len(s) + 1
  BY <1>1
<1>3. Active(devices) = kept[N]
  BY DEF Active
<1> HIDE DEF N, Next
<1>4. /\ step \in [(1 .. N) \X Seq(Nat) -> Seq(Nat)]
      /\ \A i \in 1 .. N, s \in Seq(Nat) : step[<<i, s>>] = Next(i, s)
  BY <1>2
<1> HIDE DEF step
<1>5. <<>> \in Seq(Nat)
  OBVIOUS
<1>6. PICK f \in [0 .. N -> Seq(Nat)] : f[0] = <<>> /\ \A i \in 1 .. N : f[i] = step[<<i, f[i - 1]>>]
  <2>1. step \in StepsOf(N, Seq(Nat))
    BY <1>4 DEF StepsOf
  <2>2. \E f : Solves(f, N, Seq(Nat), <<>>, step)
    BY <1>1, <1>5, <2>1, RecursionExists
  <2> QED BY <2>2 DEF Solves
<1>7. f = Filter(f)
  <2>1. ASSUME NEW i \in 0 .. N PROVE f[i] = Filter(f)[i]
    <3>1. CASE i = 0
      BY <1>6, <3>1
    <3>2. CASE i \in 1 .. N
      <4>1. i - 1 \in 0 .. N /\ f[i - 1] \in Seq(Nat) /\ i # 0
        BY <1>1, <3>2
      <4> QED BY <1>4, <1>6, <3>2, <4>1
    <3> QED BY <1>1, <3>1, <3>2
  <2> QED BY <2>1
<1>8. kept = Filter(kept)
  BY <1>7
<1> HIDE DEF kept
<1>9. kept[0] = <<>> /\ \A i \in 1 .. N : kept[i] = Next(i, kept[i - 1])
  <2> DEFINE body == Filter(kept)
  <2>1. body[0] = <<>> /\ \A i \in 1 .. N : body[i] = Next(i, kept[i - 1])
    <3>1. 0 \in 0 .. N /\ \A i \in 1 .. N : i \in 0 .. N /\ i # 0
      BY <1>1
    <3> QED BY <3>1
  <2>2. kept = body
    BY <1>8
  <2> HIDE DEF body
  <2> QED BY <2>1, <2>2
<1> HIDE DEF Filter
<1> DEFINE Good == {i \in 0 .. N : kept[i] \in Seq(Nat) /\ Len(kept[i]) <= i}
<1>10. 0 \in Good
  <2>1. Len(kept[0]) = 0 /\ kept[0] \in Seq(Nat) /\ 0 \in 0 .. N
    BY <1>1, <1>9
  <2> QED BY <2>1
<1>11. ASSUME NEW n \in 1 .. N, n - 1 \in Good PROVE n \in Good
  <2>1. kept[n - 1] \in Seq(Nat) /\ Len(kept[n - 1]) \in Nat /\ Len(kept[n - 1]) <= n - 1
    BY <1>11
  <2>2. kept[n] \in Seq(Nat) /\ Len(kept[n]) <= Len(kept[n - 1]) + 1 /\ Len(kept[n]) \in Nat
    BY <1>2, <1>9, <2>1
  <2> QED BY <1>1, <2>1, <2>2
<1> HIDE DEF Good
<1>12. \A n \in 0 .. N : n \in Good
  BY <1>1, <1>10, <1>11, UpTo
<1> QED BY <1>1, <1>3, <1>12 DEF Good, N

-----------------------------------------------------------------------------
(* The rows of users.                                                       *)
UserRows ==
    [name : UserNames, role : Roles, disabled : BOOLEAN, contact : [Channels -> Contacts \cup {None}],
     totp : BOOLEAN, secret : BOOLEAN, codes : SUBSET Codes, otp : SUBSET Channels,
     passkeys : SUBSET Passkeys, devices : Seq(Nat),
     pending : Pending \cup {None}, challenge : Challenge \cup {None}]

GoodRows == {row \in UserRows : Consistent(row)}

(* All of Consistent but for the devices that stay trusted.                 *)
Almost(row) ==
    /\ row.totp => row.secret
    /\ row.codes # {} => row.totp
    /\ \A ch \in row.otp : row.contact[ch] # None
    /\ row.pending # None =>
         row.pending.channel \in row.otp /\ row.pending.to = row.contact[row.pending.channel]
    /\ Len(row.devices) <= MaxDevices

LEMMA NoDevices == <<>> \in Seq(Nat) /\ Len(<<>>) = 0
OBVIOUS

(* clearTrustedDevicesIfMFAOff mends what the loss of a factor leaves.      *)
LEMMA ClearedIsGood ==
    ASSUME NEW row \in UserRows, Almost(row)
    PROVE  clearTrustedDevicesIfMFAOff(row) \in GoodRows
<1>1. CASE userMFAEnabled(row)
  BY <1>1 DEF clearTrustedDevicesIfMFAOff, Almost, GoodRows, Consistent
<1>2. CASE ~userMFAEnabled(row)
  <2> DEFINE e == [row EXCEPT !.devices = <<>>, !.pending = None, !.challenge = None]
  <2>1. e \in UserRows
    BY NoDevices DEF UserRows
  <2>2. /\ e.totp = row.totp /\ e.secret = row.secret /\ e.codes = row.codes /\ e.otp = row.otp
        /\ e.contact = row.contact /\ e.pending = None /\ e.devices = <<>>
    BY DEF UserRows
  <2>3. clearTrustedDevicesIfMFAOff(row) = e
    BY <1>2 DEF clearTrustedDevicesIfMFAOff
  <2> HIDE DEF e
  <2>4. Consistent(e)
    BY <2>2, NoDevices, AccountsAssumption DEF Consistent, Almost
  <2> QED BY <2>1, <2>3, <2>4 DEF GoodRows
<1> QED BY <1>1, <1>2

(* The row of a new user, also after ResetTwoFactor.                        *)
LEMMA NewRowIsGood ==
    ASSUME NEW p, p.name \in UserNames, p.role \in Roles, p.disabled \in BOOLEAN,
           p.contact \in [Channels -> Contacts \cup {None}]
    PROVE  UserRow(p) \in GoodRows
<1>1. UserRow(p) \in UserRows
  BY NoDevices DEF UserRow, UserRows
<1>2. Consistent(UserRow(p))
  BY NoDevices, AccountsAssumption DEF UserRow, Consistent
<1> QED BY <1>1, <1>2 DEF GoodRows

(* UserService.Update                                                       *)
LEMMA EditedIsGood ==
    ASSUME NEW row \in GoodRows, NEW p \in Profiles, NEW password \in BOOLEAN
    PROVE  Edited(row, p, password) \in GoodRows
<1> DEFINE out == {ch \in row.otp : p.contact[ch] = None}
           forgotten == password \/ (p.disabled /\ ~row.disabled)
           dropped == forgotten \/ out # {} \/ p.contact # row.contact
           e == [row EXCEPT !.name = p.name, !.role = p.role, !.contact = p.contact,
            !.disabled = p.disabled,
            !.otp = @ \ out,
            !.devices = IF forgotten THEN <<>> ELSE @,
            !.challenge = IF forgotten THEN None ELSE @,
            !.pending = IF dropped THEN None ELSE @]
<1>1. /\ p.name \in UserNames /\ p.role \in Roles /\ p.disabled \in BOOLEAN
      /\ p.contact \in [Channels -> Contacts \cup {None}]
  BY AccountsAssumption
<1>2. row \in UserRows /\ Consistent(row)
  BY DEF GoodRows
<1>3. Edited(row, p, password) = clearTrustedDevicesIfMFAOff(e)
  BY DEF Edited
<1>4. \A ch \in row.otp \ out : p.contact[ch] # None
  OBVIOUS
<1>5. ~dropped => p.contact = row.contact /\ row.otp \ out = row.otp
  OBVIOUS
<1> HIDE DEF out, forgotten, dropped
<1>6. e \in UserRows
  BY <1>1, <1>2, NoDevices DEF UserRows
<1>7. /\ e.totp = row.totp /\ e.secret = row.secret /\ e.codes = row.codes /\ e.otp = row.otp \ out
      /\ e.contact = p.contact /\ e.pending = IF dropped THEN None ELSE row.pending
      /\ e.devices = IF forgotten THEN <<>> ELSE row.devices
  BY <1>2 DEF UserRows
<1> HIDE DEF e
<1>8. Almost(e)
  BY <1>2, <1>4, <1>5, <1>7, NoDevices, AccountsAssumption DEF Almost, Consistent
<1> QED BY <1>3, <1>6, <1>8, ClearedIsGood

(* A row whose factors and devices stay is good when its pending code is.   *)
LEMMA SameFactors ==
    ASSUME NEW row \in GoodRows, NEW e \in UserRows,
           e.totp => e.secret, e.codes # {} => e.totp,
           e.otp = row.otp, e.contact = row.contact, e.devices = row.devices,
           userMFAEnabled(row) => userMFAEnabled(e),
           e.pending = row.pending \/ e.pending = None
    PROVE  e \in GoodRows
BY DEF GoodRows, Consistent

LEMMA ConfiguredIsGood ==
    ASSUME NEW row \in GoodRows, NEW ch \in Channels, NEW contact \in Contacts \cup {None},
           NEW enabled \in BOOLEAN, enabled => contact # None \/ row.contact[ch] # None
    PROVE  Configured(row, ch, contact, enabled) \in GoodRows
<1> DEFINE changed == contact # None /\ contact # row.contact[ch]
           to == IF contact = None THEN row.contact[ch] ELSE contact
           new == [row EXCEPT !.contact[ch] = IF contact = None THEN @ ELSE contact,
                              !.otp = IF enabled THEN @ \cup {ch} ELSE @ \ {ch}]
           clear == shouldClearPendingOTP(new, ch, changed)
           e == [new EXCEPT !.pending = IF clear THEN None ELSE @]
<1>1. row \in UserRows /\ Consistent(row)
  BY DEF GoodRows
<1>2. /\ row.contact \in [Channels -> Contacts \cup {None}] /\ row.otp \in SUBSET Channels
      /\ row.pending \in Pending \cup {None}
  BY <1>1 DEF UserRows
<1>3. Configured(row, ch, contact, enabled) = clearTrustedDevicesIfMFAOff(e)
  BY DEF Configured
<1>4. [row.contact EXCEPT ![ch] = IF contact = None THEN @ ELSE contact] = [row.contact EXCEPT ![ch] = to]
  BY <1>2
<1>5. to \in Contacts \cup {None} /\ (~changed => to = row.contact[ch]) /\ (enabled => to # None)
  BY <1>2
<1>6. new \in UserRows
  BY <1>1, <1>2, <1>4, <1>5 DEF UserRows
<1>7. /\ new.totp = row.totp /\ new.secret = row.secret /\ new.codes = row.codes
      /\ new.contact = [row.contact EXCEPT ![ch] = to] /\ new.devices = row.devices
      /\ new.pending = row.pending
      /\ new.otp = IF enabled THEN row.otp \cup {ch} ELSE row.otp \ {ch}
  BY <1>1, <1>4 DEF UserRows
<1> HIDE DEF changed, to, new
<1>8. e \in UserRows
  BY <1>6 DEF UserRows
<1>9. /\ e.totp = new.totp /\ e.secret = new.secret /\ e.codes = new.codes /\ e.otp = new.otp
      /\ e.contact = new.contact /\ e.devices = new.devices
      /\ e.pending = IF clear THEN None ELSE row.pending
  BY <1>6, <1>7 DEF UserRows
<1>10. \A k \in new.otp : new.contact[k] # None
  BY <1>1, <1>2, <1>5, <1>7 DEF Consistent
<1>11. row.pending # None /\ ~clear =>
         row.pending.channel \in new.otp /\ row.pending.to = new.contact[row.pending.channel]
  BY <1>1, <1>2, <1>5, <1>7 DEF Consistent, shouldClearPendingOTP
<1> HIDE DEF clear, e
<1>12. Almost(e)
  BY <1>1, <1>7, <1>9, <1>10, <1>11 DEF Almost, Consistent
<1> QED BY <1>3, <1>8, <1>12, ClearedIsGood

(* One field changes.                                                       *)
LEMMA OneField ==
    ASSUME NEW row \in GoodRows
    PROVE  /\ \A d \in Seq(Nat) : Len(d) <= MaxDevices /\ (d # <<>> => userMFAEnabled(row)) =>
                [row EXCEPT !.devices = d] \in GoodRows
           /\ \A x \in Challenge \cup {None} : [row EXCEPT !.challenge = x] \in GoodRows
           /\ \A s \in SUBSET Codes : s \subseteq row.codes \/ row.totp => [row EXCEPT !.codes = s] \in GoodRows
           /\ \A x \in Pending \cup {None} :
                x = None \/ (x.channel \in row.otp /\ x.to = row.contact[x.channel]) =>
                  [row EXCEPT !.pending = x] \in GoodRows
<1>0. row \in UserRows /\ Consistent(row)
  BY DEF GoodRows
<1>1. ASSUME NEW d \in Seq(Nat), Len(d) <= MaxDevices, d # <<>> => userMFAEnabled(row)
      PROVE  [row EXCEPT !.devices = d] \in GoodRows
  <2> DEFINE e == [row EXCEPT !.devices = d]
  <2>1. e \in UserRows
    BY <1>0 DEF UserRows
  <2>2. /\ e.totp = row.totp /\ e.secret = row.secret /\ e.codes = row.codes /\ e.otp = row.otp
        /\ e.contact = row.contact /\ e.pending = row.pending /\ e.devices = d /\ e.passkeys = row.passkeys
    BY <1>0 DEF UserRows
  <2> HIDE DEF e
  <2>3. Consistent(e)
    BY <1>0, <1>1, <2>2 DEF Consistent, userMFAEnabled
  <2> QED BY <2>1, <2>3 DEF GoodRows, e
<1>2. ASSUME NEW x \in Challenge \cup {None}
      PROVE  [row EXCEPT !.challenge = x] \in GoodRows
  <2> DEFINE e == [row EXCEPT !.challenge = x]
  <2>1. e \in UserRows
    BY <1>0 DEF UserRows
  <2>2. /\ e.totp = row.totp /\ e.secret = row.secret /\ e.codes = row.codes /\ e.otp = row.otp
        /\ e.contact = row.contact /\ e.pending = row.pending /\ e.devices = row.devices
        /\ e.passkeys = row.passkeys
    BY <1>0 DEF UserRows
  <2> HIDE DEF e
  <2>3. Consistent(e)
    BY <1>0, <2>2 DEF Consistent, userMFAEnabled
  <2> QED BY <2>1, <2>3 DEF GoodRows, e
<1>3. ASSUME NEW s \in SUBSET Codes, s \subseteq row.codes \/ row.totp
      PROVE  [row EXCEPT !.codes = s] \in GoodRows
  <2> DEFINE e == [row EXCEPT !.codes = s]
  <2>1. e \in UserRows
    BY <1>0 DEF UserRows
  <2>2. /\ e.totp = row.totp /\ e.secret = row.secret /\ e.codes = s /\ e.otp = row.otp
        /\ e.contact = row.contact /\ e.pending = row.pending /\ e.devices = row.devices
        /\ e.passkeys = row.passkeys
    BY <1>0 DEF UserRows
  <2> HIDE DEF e
  <2>3. Consistent(e)
    BY <1>0, <1>3, <2>2 DEF Consistent, userMFAEnabled
  <2> QED BY <2>1, <2>3 DEF GoodRows, e
<1>4. ASSUME NEW x \in Pending \cup {None},
             x = None \/ (x.channel \in row.otp /\ x.to = row.contact[x.channel])
      PROVE  [row EXCEPT !.pending = x] \in GoodRows
  <2> DEFINE e == [row EXCEPT !.pending = x]
  <2>1. e \in UserRows
    BY <1>0 DEF UserRows
  <2>2. /\ e.totp = row.totp /\ e.secret = row.secret /\ e.codes = row.codes /\ e.otp = row.otp
        /\ e.contact = row.contact /\ e.pending = x /\ e.devices = row.devices
        /\ e.passkeys = row.passkeys
    BY <1>0 DEF UserRows
  <2> HIDE DEF e
  <2>3. Consistent(e)
    BY <1>0, <1>4, <2>2 DEF Consistent, userMFAEnabled
  <2> QED BY <2>1, <2>3 DEF GoodRows, e
<1> QED BY <1>1, <1>2, <1>3, <1>4

(* Signing in: what Login drops, uses up and adds leaves a good row.        *)
LEMMA WithoutCodeIsGood == \A row \in GoodRows : WithoutCode(row) \in GoodRows
BY OneField DEF WithoutCode

LEMMA CleanedIsGood ==
    ASSUME clock \in Nat, NEW row \in GoodRows, userMFAEnabled(row)
    PROVE  Cleaned(row) \in GoodRows /\ userMFAEnabled(Cleaned(row))
<1>1. row \in UserRows /\ Consistent(row)
  BY DEF GoodRows
<1>2. /\ row.devices \in Seq(Nat) /\ Len(row.devices) <= MaxDevices
      /\ MaxDevices \in Nat /\ Len(row.devices) \in Nat
  BY <1>1, AccountsAssumption DEF UserRows, Consistent
<1>3. /\ Active(row.devices) \in Seq(Nat) /\ Len(Active(row.devices)) <= Len(row.devices)
      /\ Len(Active(row.devices)) \in Nat
  BY <1>2, ActiveIsShorter
<1>4. Cleaned(row) \in GoodRows
  BY <1>2, <1>3, OneField DEF Cleaned
<1>5. /\ Cleaned(row).totp = row.totp /\ Cleaned(row).passkeys = row.passkeys
      /\ Cleaned(row).otp = row.otp
  BY <1>1 DEF Cleaned, UserRows
<1> QED BY <1>4, <1>5 DEF userMFAEnabled

LEMMA ProvedIsGood ==
    ASSUME NEW row \in GoodRows, userMFAEnabled(row), NEW proved \in Proved(row)
    PROVE  proved \in GoodRows /\ userMFAEnabled(proved)
<1>1. row \in UserRows
  BY DEF GoodRows
<1>2. \/ proved = row
      \/ \E code \in row.codes : proved = [row EXCEPT !.codes = @ \ {code}]
      \/ proved = [row EXCEPT !.pending = None]
      \/ proved = [row EXCEPT !.challenge = None]
  BY DEF Proved, WithoutCode
<1>3. proved \in GoodRows
  <2>1. ASSUME NEW code \in row.codes PROVE [row EXCEPT !.codes = @ \ {code}] \in GoodRows
    <3>1. row.codes \ {code} \in SUBSET Codes
      BY <1>1 DEF UserRows
    <3> QED BY <3>1, OneField
  <2> QED BY <1>2, <2>1, OneField
<1>4. proved.totp = row.totp /\ proved.passkeys = row.passkeys /\ proved.otp = row.otp
  BY <1>1, <1>2 DEF UserRows
<1> QED BY <1>3, <1>4 DEF userMFAEnabled

LEMMA RememberedIsGood ==
    ASSUME clock \in Nat, NEW row \in GoodRows, userMFAEnabled(row)
    PROVE  Remembered(row) \in GoodRows
<1> DEFINE all == Append(Active(row.devices), clock + DeviceTTL)
           over == IF Len(all) > MaxDevices THEN Len(all) - MaxDevices ELSE 0
           kept == SubSeq(all, over + 1, Len(all))
<1>1. row \in UserRows
  BY DEF GoodRows
<1>2. Active(row.devices) \in Seq(Nat)
  BY <1>1, ActiveIsShorter DEF UserRows
<1>3. all \in Seq(Nat) /\ Len(all) \in Nat /\ MaxDevices \in Nat \ {0}
  BY <1>2, AccountsAssumption
<1>4. Remembered(row) = [row EXCEPT !.devices = kept]
  BY DEF Remembered
<1> HIDE DEF all
<1>5. kept \in Seq(Nat) /\ Len(kept) <= MaxDevices
  <2>1. over \in Nat /\ over <= Len(all) /\ Len(all) - over <= MaxDevices
    BY <1>3
  <2> HIDE DEF over
  <2>2. \A i \in over + 1 .. Len(all) : all[i] \in Nat
    BY <1>3, <2>1
  <2>3. kept \in Seq(Nat)
    BY <1>3, <2>1, <2>2, SubSeqProperties
  <2>4. Len(kept) = IF over + 1 <= Len(all) THEN Len(all) - over ELSE 0
    BY <1>3, <2>1, SubSeqProperties
  <2> QED BY <1>3, <2>1, <2>3, <2>4
<1> HIDE DEF kept
<1> QED BY <1>4, <1>5, OneField

-----------------------------------------------------------------------------
(* Every row that is stored, and every row that a request carries and has   *)
(* yet to save, is good by itself: what requests undo for each other never  *)
(* mixes the fields of two rows.                                            *)
CarriedRows ==
    {Idle} \cup [op : {"insertUser"}, row : GoodRows]
           \cup [op : {"saveUser"}, user : UserIds, rows : Seq(GoodRows) \ {<<>>}]
           \cup [op : {"deleteUser"}, user : UserIds]

AccountsTypeOK ==
    /\ req \in [Clients -> CarriedRows]
    /\ users \in [UserIds -> GoodRows \cup {None}]
    /\ lastUser \in Nat /\ asked \in Nat /\ clock \in Nat

LEMMA AccountsStart == RequestsInit /\ AccountsInit => AccountsTypeOK
<1> SUFFICES ASSUME RequestsInit, AccountsInit PROVE AccountsTypeOK
  OBVIOUS
<1>1. req \in [Clients -> CarriedRows] /\ asked \in Nat /\ clock \in Nat
  BY DEF RequestsInit, CarriedRows
<1>2. users \in [UserIds -> GoodRows \cup {None}] /\ lastUser \in Nat
  <2>1. ASSUME NEW p \in Profiles PROVE UserRow(p) \in GoodRows
    <3>1. /\ p.name \in UserNames /\ p.role \in Roles /\ p.disabled \in BOOLEAN
          /\ p.contact \in [Channels -> Contacts \cup {None}]
      BY AccountsAssumption
    <3> QED BY <3>1, NewRowIsGood
  <2> QED BY <2>1 DEF AccountsInit
<1> QED BY <1>1, <1>2 DEF AccountsTypeOK

(* A request begins, goes on or ends and leaves the users alone.            *)
LEMMA Carries ==
    ASSUME AccountsTypeOK, NEW c \in Clients, NEW r \in CarriedRows, UNCHANGED accountRows,
           Begin(c, r) \/ Then(c, r)
    PROVE  AccountsTypeOK'
BY DEF AccountsTypeOK, accountRows, Begin, Then

LEMMA ChangesCarried ==
    ASSUME AccountsTypeOK, NEW c \in Clients, NEW u \in UserIds, NEW rows \in Seq(GoodRows),
           ChangeAll(c, u, rows)
    PROVE  AccountsTypeOK'
<1> DEFINE r == [op |-> "saveUser", user |-> u, rows |-> rows]
<1>1. rows # <<>> /\ Begin(c, r) /\ UNCHANGED accountRows
  BY DEF ChangeAll
<1>2. r \in CarriedRows
  BY <1>1 DEF CarriedRows
<1> HIDE DEF r
<1> QED BY <1>1, <1>2, Carries

LEMMA ChangeCarried ==
    ASSUME AccountsTypeOK, NEW c \in Clients, NEW u \in UserIds, NEW row \in GoodRows, Change(c, u, row)
    PROVE  AccountsTypeOK'
<1>1. <<row>> \in Seq(GoodRows)
  OBVIOUS
<1> QED BY <1>1, ChangesCarried DEF Change

LEMMA InsertsCarried ==
    ASSUME AccountsTypeOK, NEW c \in Clients, NEW row \in GoodRows, UNCHANGED accountRows,
           Begin(c, [op |-> "insertUser", row |-> row])
    PROVE  AccountsTypeOK'
<1> DEFINE r == [op |-> "insertUser", row |-> row]
<1>1. r \in CarriedRows /\ Begin(c, r)
  BY DEF CarriedRows
<1> HIDE DEF r
<1> QED BY <1>1, Carries

LEMMA UserIsGood == ASSUME AccountsTypeOK, NEW u \in UserIds, UserExists(u) PROVE users[u] \in GoodRows
BY DEF AccountsTypeOK, UserExists

(* The requests that write what others carried.                             *)
LEMMA SaveUserKeeps ==
    ASSUME AccountsTypeOK, NEW c \in Clients, SaveUser(c)
    PROVE  AccountsTypeOK'
<1> DEFINE r == req[c]
<1>1. r.user \in UserIds /\ r.rows \in Seq(GoodRows) /\ r.rows # <<>>
      /\ r \in [op : {"saveUser"}, user : UserIds, rows : Seq(GoodRows) \ {<<>>}]
  BY DEF SaveUser, AccountsTypeOK, CarriedRows, Idle
<1>2. Head(r.rows) \in GoodRows /\ Tail(r.rows) \in Seq(GoodRows) /\ (Len(r.rows) # 1 => Tail(r.rows) # <<>>)
  <2> DEFINE rows == r.rows
  <2>1. rows \in Seq(GoodRows) /\ rows # <<>>
    BY <1>1
  <2> HIDE DEF rows
  <2>2. Head(rows) \in GoodRows /\ Tail(rows) \in Seq(GoodRows) /\ Len(Tail(rows)) = Len(rows) - 1
    BY <2>1, HeadTailProperties
  <2>3. Len(rows) # 1 => Tail(rows) # <<>>
    <3>1. Len(rows) \in Nat /\ (Tail(rows) = <<>> <=> Len(Tail(rows)) = 0)
      BY <2>1, <2>2, EmptySeq
    <3> QED BY <2>2, <3>1
  <2> QED BY <2>2, <2>3 DEF rows
<1>3. users' \in [UserIds -> GoodRows \cup {None}] /\ lastUser' = lastUser
  BY <1>1, <1>2 DEF SaveUser, AccountsTypeOK
<1>4. \/ Done(c)
      \/ Len(r.rows) # 1 /\ Then(c, [r EXCEPT !.rows = Tail(@)])
  BY DEF SaveUser
<1>5. Idle \in CarriedRows
  BY DEF CarriedRows
<1>6. ASSUME Len(r.rows) # 1 PROVE [r EXCEPT !.rows = Tail(@)] \in CarriedRows
  BY <1>1, <1>2, <1>6 DEF CarriedRows
<1> HIDE DEF r
<1>7. req' \in [Clients -> CarriedRows] /\ asked' = asked /\ clock' = clock
  BY <1>4, <1>5, <1>6 DEF Done, Then, AccountsTypeOK
<1> QED BY <1>3, <1>7 DEF AccountsTypeOK

LEMMA InsertUserKeeps ==
    ASSUME AccountsTypeOK, NEW c \in Clients, InsertUser(c) \/ DeleteUser(c)
    PROVE  AccountsTypeOK'
<1>1. req' \in [Clients -> CarriedRows] /\ asked' = asked /\ clock' = clock
  BY DEF InsertUser, DeleteUser, Done, Then, AccountsTypeOK, CarriedRows
<1>2. users' \in [UserIds -> GoodRows \cup {None}] /\ lastUser' \in Nat
  <2>1. CASE InsertUser(c)
    <3>1. req[c].row \in GoodRows
      BY <2>1 DEF InsertUser, AccountsTypeOK, CarriedRows, Idle
    <3> QED BY <2>1, <3>1 DEF InsertUser, AccountsTypeOK, accountRows
  <2>2. CASE DeleteUser(c)
    BY <2>2 DEF DeleteUser, AccountsTypeOK
  <2> QED BY <2>1, <2>2
<1> QED BY <1>1, <1>2 DEF AccountsTypeOK

(* The requests that begin.                                                 *)
LEMMA NewUserKeeps ==
    ASSUME AccountsTypeOK, NEW c \in Clients,
           \/ \E name \in UserNames : Setup(c, name)
           \/ \E p \in Profiles : CreateUser(c, p)
    PROVE  AccountsTypeOK'
<1>1. ASSUME NEW name \in UserNames, Setup(c, name) PROVE AccountsTypeOK'
  <2> DEFINE p == [name |-> name, role |-> "admin", disabled |-> FALSE,
                   contact |-> [ch \in Channels |-> None]]
  <2>1. UserRow(p) \in GoodRows
    <3>1. /\ p.name \in UserNames /\ p.role \in Roles /\ p.disabled \in BOOLEAN
          /\ p.contact \in [Channels -> Contacts \cup {None}]
      BY DEF Roles
    <3> HIDE DEF p
    <3> QED BY <3>1, NewRowIsGood
  <2>2. Begin(c, [op |-> "insertUser", row |-> UserRow(p)]) /\ UNCHANGED accountRows
    BY <1>1 DEF Setup
  <2> QED BY <2>1, <2>2, InsertsCarried
<1>2. ASSUME NEW p \in Profiles, CreateUser(c, p) PROVE AccountsTypeOK'
  <2>1. /\ p.name \in UserNames /\ p.role \in Roles /\ p.disabled \in BOOLEAN
        /\ p.contact \in [Channels -> Contacts \cup {None}]
    BY AccountsAssumption
  <2>2. UserRow(p) \in GoodRows
    BY <2>1, NewRowIsGood
  <2> QED BY <1>2, <2>2, InsertsCarried DEF CreateUser
<1> QED BY <1>1, <1>2

LEMMA EditKeeps ==
    ASSUME AccountsTypeOK, NEW c \in Clients, NEW u \in UserIds,
           \/ \E p \in Profiles, password \in BOOLEAN : UpdateUser(c, u, p, password)
           \/ ResetTwoFactor(c, u) \/ CheckDeleteUser(c, u) \/ ChangePassword(c, u)
    PROVE  AccountsTypeOK'
<1>1. ASSUME NEW p \in Profiles, NEW password \in BOOLEAN, UpdateUser(c, u, p, password)
      PROVE  AccountsTypeOK'
  <2>1. Edited(users[u], p, password) \in GoodRows
    BY <1>1, UserIsGood, EditedIsGood DEF UpdateUser
  <2> QED BY <1>1, <2>1, ChangeCarried DEF UpdateUser
<1>2. CASE ResetTwoFactor(c, u)
  <2>1. UserRow(users[u]) \in GoodRows
    BY <1>2, UserIsGood, NewRowIsGood DEF ResetTwoFactor, GoodRows, UserRows
  <2> QED BY <1>2, <2>1, ChangeCarried DEF ResetTwoFactor
<1>3. CASE CheckDeleteUser(c, u)
  <2>1. [op |-> "deleteUser", user |-> u] \in CarriedRows
    BY DEF CarriedRows
  <2> QED BY <1>3, <2>1, Carries DEF CheckDeleteUser
<1>4. CASE ChangePassword(c, u)
  <2> DEFINE row == users[u]
             e == [row EXCEPT !.devices = <<>>, !.pending = None, !.challenge = None]
  <2>1. row \in GoodRows /\ row \in UserRows /\ Consistent(row)
    BY <1>4, UserIsGood DEF ChangePassword, GoodRows
  <2>2. Change(c, u, e)
    BY <1>4 DEF ChangePassword
  <2> HIDE DEF row
  <2>3. e \in UserRows
    BY <2>1, NoDevices DEF UserRows
  <2>4. /\ e.totp = row.totp /\ e.secret = row.secret /\ e.codes = row.codes /\ e.otp = row.otp
        /\ e.contact = row.contact /\ e.pending = None /\ e.devices = <<>>
    BY <2>1 DEF UserRows
  <2> HIDE DEF e
  <2>5. e \in GoodRows
    BY <2>1, <2>3, <2>4, NoDevices, AccountsAssumption DEF GoodRows, Consistent
  <2> QED BY <2>2, <2>5, ChangeCarried
<1> QED BY <1>1, <1>2, <1>3, <1>4

LEMMA FactorKeeps ==
    ASSUME AccountsTypeOK, NEW c \in Clients, NEW u \in UserIds,
           \/ PrepareTwoFactor(c, u) \/ EnableTwoFactor(c, u) \/ DisableTwoFactor(c, u)
           \/ RegenerateRecoveryCodes(c, u)
    PROVE  AccountsTypeOK'
<1> DEFINE row == users[u]
<1>0. row \in GoodRows /\ row \in UserRows /\ Consistent(row)
  BY UserIsGood DEF PrepareTwoFactor, EnableTwoFactor, DisableTwoFactor, RegenerateRecoveryCodes, GoodRows
<1>1. CASE PrepareTwoFactor(c, u)
  <2> DEFINE e == [row EXCEPT !.secret = TRUE]
  <2>1. Change(c, u, e)
    BY <1>1 DEF PrepareTwoFactor
  <2> HIDE DEF row
  <2>2. e \in UserRows
    BY <1>0 DEF UserRows
  <2>3. /\ e.totp = row.totp /\ e.secret = TRUE /\ e.codes = row.codes /\ e.otp = row.otp
        /\ e.contact = row.contact /\ e.pending = row.pending /\ e.devices = row.devices
        /\ e.passkeys = row.passkeys
    BY <1>0 DEF UserRows
  <2> HIDE DEF e
  <2>4. e \in GoodRows
    BY <1>0, <2>2, <2>3 DEF GoodRows, Consistent, userMFAEnabled
  <2> QED BY <2>1, <2>4, ChangeCarried
<1>2. CASE EnableTwoFactor(c, u)
  <2> DEFINE e == [row EXCEPT !.totp = TRUE, !.codes = Codes]
  <2>1. Change(c, u, e) /\ row.secret
    BY <1>2 DEF EnableTwoFactor
  <2> HIDE DEF row
  <2>2. e \in UserRows
    BY <1>0 DEF UserRows
  <2>3. /\ e.totp = TRUE /\ e.secret = row.secret /\ e.codes = Codes /\ e.otp = row.otp
        /\ e.contact = row.contact /\ e.pending = row.pending /\ e.devices = row.devices
        /\ e.passkeys = row.passkeys
    BY <1>0 DEF UserRows
  <2> HIDE DEF e
  <2>4. e \in GoodRows
    BY <1>0, <2>1, <2>2, <2>3 DEF GoodRows, Consistent, userMFAEnabled
  <2> QED BY <2>1, <2>4, ChangeCarried
<1>3. CASE DisableTwoFactor(c, u)
  <2> DEFINE e == [row EXCEPT !.totp = FALSE, !.secret = FALSE, !.codes = {}]
  <2>1. Change(c, u, clearTrustedDevicesIfMFAOff(e))
    BY <1>3 DEF DisableTwoFactor
  <2> HIDE DEF row
  <2>2. e \in UserRows
    BY <1>0 DEF UserRows
  <2>3. /\ e.totp = FALSE /\ e.secret = FALSE /\ e.codes = {} /\ e.otp = row.otp
        /\ e.contact = row.contact /\ e.pending = row.pending /\ e.devices = row.devices
    BY <1>0 DEF UserRows
  <2> HIDE DEF e
  <2>4. Almost(e)
    BY <1>0, <2>3 DEF Almost, Consistent
  <2>5. clearTrustedDevicesIfMFAOff(e) \in GoodRows
    BY <2>2, <2>4, ClearedIsGood
  <2> QED BY <2>1, <2>5, ChangeCarried
<1>4. CASE RegenerateRecoveryCodes(c, u)
  <2>1. Change(c, u, [row EXCEPT !.codes = Codes]) /\ row.totp
    BY <1>4 DEF RegenerateRecoveryCodes
  <2>2. [row EXCEPT !.codes = Codes] \in GoodRows
    BY <1>0, <2>1, OneField
  <2> QED BY <2>1, <2>2, ChangeCarried
<1> QED BY <1>1, <1>2, <1>3, <1>4

LEMMA ConfigureKeeps ==
    ASSUME AccountsTypeOK, NEW c \in Clients, NEW u \in UserIds, NEW ch \in Channels,
           NEW contact \in Contacts \cup {None}, NEW enabled \in BOOLEAN,
           ConfigureOutOfBandOTP(c, u, ch, contact, enabled)
    PROVE  AccountsTypeOK'
<1>1. users[u] \in GoodRows
  BY UserIsGood DEF ConfigureOutOfBandOTP
<1>2. Configured(users[u], ch, contact, enabled) \in GoodRows
  BY <1>1, ConfiguredIsGood DEF ConfigureOutOfBandOTP
<1> QED BY <1>2, ChangeCarried DEF ConfigureOutOfBandOTP

LEMMA PasskeyKeeps ==
    ASSUME AccountsTypeOK, NEW c \in Clients, NEW u \in UserIds,
           \/ BeginWebAuthnRegistration(c, u) \/ BeginWebAuthnLogin(c, u)
           \/ \E key \in Passkeys : FinishWebAuthnRegistration(c, u, key) \/ DeleteWebAuthnCredential(c, u, key)
    PROVE  AccountsTypeOK'
<1> DEFINE row == users[u]
<1>0. row \in GoodRows /\ row \in UserRows /\ Consistent(row)
  BY UserIsGood DEF BeginWebAuthnRegistration, BeginWebAuthnLogin, FinishWebAuthnRegistration,
     DeleteWebAuthnCredential, MayStart, GoodRows
<1>1. CASE BeginWebAuthnRegistration(c, u) \/ BeginWebAuthnLogin(c, u)
  <2>1. \A type \in {"register", "login"} :
          [type |-> type, until |-> clock + ChallengeTTL] \in Challenge
    BY AccountsAssumption DEF Challenge, AccountsTypeOK
  <2>2. \A type \in {"register", "login"} :
          [row EXCEPT !.challenge = [type |-> type, until |-> clock + ChallengeTTL]] \in GoodRows
    BY <1>0, <2>1, OneField
  <2>3. PICK type \in {"register", "login"} :
          Change(c, u, [row EXCEPT !.challenge = [type |-> type, until |-> clock + ChallengeTTL]])
    BY <1>1 DEF BeginWebAuthnRegistration, BeginWebAuthnLogin
  <2> QED BY <2>2, <2>3, ChangeCarried
<1>2. ASSUME NEW key \in Passkeys, FinishWebAuthnRegistration(c, u, key)
      PROVE  AccountsTypeOK'
  <2> DEFINE e == [row EXCEPT !.passkeys = @ \cup {key}, !.challenge = None]
  <2>1. Change(c, u, e)
    BY <1>2 DEF FinishWebAuthnRegistration
  <2> HIDE DEF row
  <2>2. e \in UserRows
    BY <1>0 DEF UserRows
  <2>3. /\ e.totp = row.totp /\ e.secret = row.secret /\ e.codes = row.codes /\ e.otp = row.otp
        /\ e.contact = row.contact /\ e.pending = row.pending /\ e.devices = row.devices
        /\ e.passkeys = row.passkeys \cup {key}
    BY <1>0 DEF UserRows
  <2> HIDE DEF e
  <2>4. e \in GoodRows
    BY <1>0, <2>2, <2>3 DEF GoodRows, Consistent, userMFAEnabled
  <2> QED BY <2>1, <2>4, ChangeCarried
<1>3. ASSUME NEW key \in Passkeys, DeleteWebAuthnCredential(c, u, key)
      PROVE  AccountsTypeOK'
  <2> DEFINE e == [row EXCEPT !.passkeys = @ \ {key}]
  <2>1. Change(c, u, clearTrustedDevicesIfMFAOff(e))
    BY <1>3 DEF DeleteWebAuthnCredential
  <2> HIDE DEF row
  <2>2. e \in UserRows
    BY <1>0 DEF UserRows
  <2>3. /\ e.totp = row.totp /\ e.secret = row.secret /\ e.codes = row.codes /\ e.otp = row.otp
        /\ e.contact = row.contact /\ e.pending = row.pending /\ e.devices = row.devices
    BY <1>0 DEF UserRows
  <2> HIDE DEF e
  <2>4. Almost(e)
    BY <1>0, <2>3 DEF Almost, Consistent
  <2>5. clearTrustedDevicesIfMFAOff(e) \in GoodRows
    BY <2>2, <2>4, ClearedIsGood
  <2> QED BY <2>1, <2>5, ChangeCarried
<1> QED BY <1>1, <1>2, <1>3

LEMMA RevokeKeeps ==
    ASSUME AccountsTypeOK, NEW c \in Clients, NEW u \in UserIds, NEW i \in 1 .. MaxDevices,
           RevokeTrustedDevice(c, u, i)
    PROVE  AccountsTypeOK'
<1> DEFINE row == users[u]
           d == row.devices
           left == SubSeq(d, 1, i - 1) \o SubSeq(d, i + 1, Len(d))
<1>1. row \in GoodRows /\ row \in UserRows /\ Consistent(row) /\ MaxDevices \in Nat
  BY UserIsGood, AccountsAssumption DEF RevokeTrustedDevice, GoodRows
<1>2. d \in Seq(Nat) /\ Len(d) <= MaxDevices /\ i \in 1 .. Len(d) /\ (d # <<>> => userMFAEnabled(row))
  BY <1>1 DEF UserRows, Consistent, RevokeTrustedDevice
<1>3. Change(c, u, [row EXCEPT !.devices = left])
  BY DEF RevokeTrustedDevice
<1> HIDE DEF row, d
<1>4. /\ SubSeq(d, 1, i - 1) \in Seq(Nat) /\ Len(SubSeq(d, 1, i - 1)) = i - 1
      /\ SubSeq(d, i + 1, Len(d)) \in Seq(Nat) /\ Len(SubSeq(d, i + 1, Len(d))) = Len(d) - i
  <2>1. /\ Len(d) \in Nat /\ i \in Nat /\ i <= Len(d) /\ i - 1 \in Int /\ i + 1 \in Int
        /\ \A k \in 1 .. i - 1 : d[k] \in Nat
        /\ \A k \in i + 1 .. Len(d) : d[k] \in Nat
    BY <1>2
  <2>2. SubSeq(d, 1, i - 1) \in Seq(Nat) /\ Len(SubSeq(d, 1, i - 1)) = IF 1 <= i - 1 THEN i - 1 ELSE 0
    BY <2>1, SubSeqProperties
  <2>3. /\ SubSeq(d, i + 1, Len(d)) \in Seq(Nat)
        /\ Len(SubSeq(d, i + 1, Len(d))) = IF i + 1 <= Len(d) THEN Len(d) - i ELSE 0
    BY <2>1, SubSeqProperties
  <2> QED BY <1>2, <2>1, <2>2, <2>3
<1>5. left \in Seq(Nat) /\ Len(left) = Len(d) - 1
  <2> DEFINE before == SubSeq(d, 1, i - 1)
             after == SubSeq(d, i + 1, Len(d))
  <2>1. before \in Seq(Nat) /\ after \in Seq(Nat) /\ Len(before) = i - 1 /\ Len(after) = Len(d) - i
    BY <1>4
  <2> HIDE DEF before, after
  <2>2. before \o after \in Seq(Nat) /\ Len(before \o after) = Len(before) + Len(after)
    BY <2>1, ConcatProperties
  <2>3. Len(d) \in Nat /\ i \in Nat
    BY <1>2
  <2>4. Len(before \o after) = Len(d) - 1
    BY <2>1, <2>2, <2>3
  <2>5. left = before \o after
    BY DEF before, after
  <2> HIDE DEF left
  <2> QED BY <2>2, <2>4, <2>5
<1>6. Len(left) <= MaxDevices /\ d # <<>>
  <2>1. Len(d) \in Nat /\ (d = <<>> <=> Len(d) = 0)
    BY <1>2, EmptySeq
  <2> HIDE DEF left
  <2> QED BY <1>1, <1>2, <1>5, <2>1
<1> HIDE DEF left
<1>7. [row EXCEPT !.devices = left] \in GoodRows
  BY <1>1, <1>2, <1>5, <1>6, OneField
<1> QED BY <1>3, <1>7, ChangeCarried

(* SendLoginOTP and the sign-ins, which save several rows in turn.          *)
LEMMA SavesGood == \A old : \A new \in GoodRows : Saves(old, new) \in Seq(GoodRows)
BY DEF Saves

LEMMA Joined == \A s, t \in Seq(GoodRows) : s \o t \in Seq(GoodRows)
OBVIOUS

LEMMA SendKeeps ==
    ASSUME AccountsTypeOK, NEW c \in Clients, NEW u \in UserIds, NEW ch \in Channels,
           NEW delivered \in BOOLEAN, SendLoginOTP(c, u, ch, delivered)
    PROVE  AccountsTypeOK'
<1> DEFINE code == [channel |-> ch, to |-> users[u].contact[ch], until |-> clock + ChallengeTTL]
           row == [users[u] EXCEPT !.pending = code]
           rows == <<row>> \o IF delivered THEN <<>> ELSE <<WithoutCode(row)>>
<1>1. users[u] \in GoodRows /\ users[u] \in UserRows /\ Consistent(users[u]) /\ ch \in users[u].otp
  BY UserIsGood DEF SendLoginOTP, MayStart, GoodRows
<1>2. ChangeAll(c, u, rows)
  BY DEF SendLoginOTP
<1>3. code \in Pending
  <2>1. users[u].contact[ch] \in Contacts
    BY <1>1 DEF UserRows, Consistent
  <2> QED BY <2>1, AccountsAssumption DEF Pending, AccountsTypeOK
<1>4. code.channel = ch /\ code.to = users[u].contact[ch]
  OBVIOUS
<1> HIDE DEF code
<1>5. row \in GoodRows
  BY <1>1, <1>3, <1>4, OneField
<1> HIDE DEF row
<1>6. rows \in Seq(GoodRows)
  <2>1. <<row>> \in Seq(GoodRows) /\ <<WithoutCode(row)>> \in Seq(GoodRows) /\ <<>> \in Seq(GoodRows)
    BY <1>5, WithoutCodeIsGood
  <2> QED BY <2>1
<1> HIDE DEF rows
<1> QED BY <1>2, <1>6, ChangesCarried

LEMMA LoginKeeps ==
    ASSUME AccountsTypeOK, NEW c \in Clients, NEW u \in UserIds,
           \/ LoginWithDevice(c, u) \/ RefuseLogin(c, u)
           \/ \E remember \in BOOLEAN : Login(c, u, remember)
    PROVE  AccountsTypeOK'
<1>0. clock \in Nat
  BY DEF AccountsTypeOK
<1>1. users[u] \in GoodRows /\ userMFAEnabled(users[u])
  BY UserIsGood DEF LoginWithDevice, RefuseLogin, Login, MayStart
<1>2. \A row \in {users[u], Cleaned(users[u])} : row \in GoodRows /\ userMFAEnabled(row)
  BY <1>0, <1>1, CleanedIsGood
<1>3. <<>> \in Seq(GoodRows)
  OBVIOUS
<1>4. CASE LoginWithDevice(c, u)
  BY <1>2, <1>4, ChangeCarried DEF LoginWithDevice
<1>5. CASE RefuseLogin(c, u)
  <2>1. PICK row \in {users[u], Cleaned(users[u])} :
          ChangeAll(c, u, Saves(users[u], row)
                            \o IF Answerable(row) THEN <<>> ELSE Saves(row, WithoutCode(row)))
    BY <1>5 DEF RefuseLogin
  <2>2. Saves(users[u], row) \in Seq(GoodRows) /\ Saves(row, WithoutCode(row)) \in Seq(GoodRows)
    BY <1>2, SavesGood, WithoutCodeIsGood
  <2>3. (Saves(users[u], row) \o IF Answerable(row) THEN <<>> ELSE Saves(row, WithoutCode(row)))
          \in Seq(GoodRows)
    BY <1>3, <2>2, Joined
  <2> QED BY <2>1, <2>3, ChangesCarried
<1>6. ASSUME NEW remember \in BOOLEAN, Login(c, u, remember)
      PROVE  AccountsTypeOK'
  <2>1. PICK row \in {users[u], Cleaned(users[u])} : \E proved \in Proved(row) :
          ChangeAll(c, u, Saves(users[u], row) \o Saves(row, proved)
                            \o IF remember THEN <<Remembered(proved)>> ELSE <<>>)
    BY <1>6 DEF Login
  <2>2. PICK proved \in Proved(row) :
          ChangeAll(c, u, Saves(users[u], row) \o Saves(row, proved)
                            \o IF remember THEN <<Remembered(proved)>> ELSE <<>>)
    BY <2>1
  <2>3. proved \in GoodRows /\ userMFAEnabled(proved)
    BY <1>2, ProvedIsGood
  <2>4. Remembered(proved) \in GoodRows
    BY <1>0, <2>3, RememberedIsGood
  <2>5. Saves(users[u], row) \in Seq(GoodRows) /\ Saves(row, proved) \in Seq(GoodRows)
    BY <1>2, <2>3, SavesGood
  <2>6. (IF remember THEN <<Remembered(proved)>> ELSE <<>>) \in Seq(GoodRows)
    BY <1>3, <2>4
  <2>7. (Saves(users[u], row) \o Saves(row, proved)
           \o IF remember THEN <<Remembered(proved)>> ELSE <<>>) \in Seq(GoodRows)
    BY <2>5, <2>6, Joined
  <2> QED BY <2>2, <2>7, ChangesCarried
<1> QED BY <1>4, <1>5, <1>6

LEMMA AccountsStep == AccountsTypeOK /\ [AccountsNext]_accountsVars => AccountsTypeOK'
<1> SUFFICES ASSUME AccountsTypeOK, [AccountsNext]_accountsVars PROVE AccountsTypeOK'
  OBVIOUS
<1>1. CASE UNCHANGED accountsVars
  BY <1>1 DEF accountsVars, requestsVars, accountRows, AccountsTypeOK
<1>2. CASE Tick /\ UNCHANGED accountRows
  BY <1>2 DEF Tick, accountRows, AccountsTypeOK
<1>3. ASSUME NEW c \in Clients, AccountsRequest(c) PROVE AccountsTypeOK'
  <2>1. CASE Abandon(c) /\ UNCHANGED accountRows
    <3>1. Idle \in CarriedRows
      BY DEF CarriedRows
    <3> QED BY <2>1, <3>1, Carries DEF Abandon, Done
  <2>2. CASE InsertUser(c) \/ DeleteUser(c)
    BY <2>2, InsertUserKeeps
  <2>3. CASE SaveUser(c)
    BY <2>3, SaveUserKeeps
  <2>4. CASE \/ \E name \in UserNames : Setup(c, name)
             \/ \E p \in Profiles : CreateUser(c, p)
    BY <2>4, NewUserKeeps
  <2>5. CASE \E p \in Profiles, u \in UserIds, password \in BOOLEAN : UpdateUser(c, u, p, password)
    BY <2>5, EditKeeps
  <2>6. CASE \E u \in UserIds : ResetTwoFactor(c, u) \/ CheckDeleteUser(c, u) \/ ChangePassword(c, u)
    BY <2>6, EditKeeps
  <2>7. CASE \E u \in UserIds : \/ PrepareTwoFactor(c, u) \/ EnableTwoFactor(c, u)
                                \/ DisableTwoFactor(c, u) \/ RegenerateRecoveryCodes(c, u)
    BY <2>7, FactorKeeps
  <2>8. CASE \E u \in UserIds : \/ BeginWebAuthnRegistration(c, u) \/ BeginWebAuthnLogin(c, u)
                                \/ \E key \in Passkeys : \/ FinishWebAuthnRegistration(c, u, key)
                                                         \/ DeleteWebAuthnCredential(c, u, key)
    BY <2>8, PasskeyKeeps
  <2>9. CASE \E u \in UserIds : \/ LoginWithDevice(c, u) \/ RefuseLogin(c, u)
                                \/ \E remember \in BOOLEAN : Login(c, u, remember)
    BY <2>9, LoginKeeps
  <2>10. CASE \E u \in UserIds, ch \in Channels, contact \in Contacts \cup {None}, enabled \in BOOLEAN :
                ConfigureOutOfBandOTP(c, u, ch, contact, enabled)
    BY <2>10, ConfigureKeeps
  <2>11. CASE \E u \in UserIds, i \in 1 .. MaxDevices : RevokeTrustedDevice(c, u, i)
    BY <2>11, RevokeKeeps
  <2>12. CASE \E u \in UserIds, ch \in Channels, delivered \in BOOLEAN : SendLoginOTP(c, u, ch, delivered)
    BY <2>12, SendKeeps
  <2> QED BY <1>3, <2>1, <2>2, <2>3, <2>4, <2>5, <2>6, <2>7, <2>8, <2>9, <2>10, <2>11, <2>12
        DEF AccountsRequest
<1> QED BY <1>1, <1>2, <1>3 DEF AccountsNext

(* AuthService, UserService: however requests of one user, or of several,   *)
(* overtake each other and whatever they undo, the factors, codes, devices  *)
(* and addresses in every row fit together.                                 *)
THEOREM FactorsConsistentHolds == AccountsSpec => []FactorsConsistent
<1>1. AccountsTypeOK => FactorsConsistent
  BY UserIsGood DEF FactorsConsistent, GoodRows
<1> QED BY <1>1, AccountsStart, AccountsStep, PTL DEF AccountsSpec

-----------------------------------------------------------------------------
(* GFSRetention                                                             *)
Rank(A, r) == Cardinality({q \in A : Before(q, r)})
(* The backups of the tier's period of r that r is the newest of, and the   *)
(* periods after it.                                                        *)
IsNewest(tier, r) == \A q \in Ids \ {r} : KeyOf(tier, q) = KeyOf(tier, r) => Before(r, q)
Keys(tier) == {KeyOf(tier, r) : r \in Ids}
After(tier, p) == {k \in Keys(tier) : k > p}

RetentionTypeOK ==
    /\ made \in Seq(Days) /\ policy \in Policies /\ tidy \in BOOLEAN
    /\ present \subseteq Ids

(* The newest backup of a period is left as long as the policy counts the   *)
(* period.                                                                  *)
NewestLeft ==
    \A tier \in Tiers : \A r \in Ids :
        IsNewest(tier, r) /\ Cardinality(After(tier, KeyOf(tier, r))) < policy[tier] => r \in present

FewLeft == tidy => Cardinality(present \ lockedIds) <= MapThenSumSet(LAMBDA tier : policy[tier], Tiers)

RetentionInv == RetentionTypeOK /\ NewestLeft /\ FewLeft

-----------------------------------------------------------------------------
(* The backups in the order of the list.                                    *)
LEMMA BackupsOrdered ==
    ASSUME made \in Seq(Days), RetentionAssumption
    PROVE  /\ IsFiniteSet(Ids) /\ Ids \subseteq Nat
           /\ \A r \in Ids : made[r] \in Days /\ made[r] \in Int
           /\ \A r \in Ids : ~Before(r, r)
           /\ \A r, q \in Ids : r # q => Before(r, q) \/ Before(q, r)
           /\ \A r, q \in Ids : ~(Before(r, q) /\ Before(q, r))
           /\ \A r, q, p \in Ids : Before(r, q) /\ Before(q, p) => Before(r, p)
<1>1. Ids = 1 .. Len(made) /\ Len(made) \in Nat
  BY DEF Ids
<1>2. IsFiniteSet(Ids)
  BY <1>1, FS_Interval
<1>3. \A r \in Ids : made[r] \in Days /\ made[r] \in Int
  <2>1. Days \subseteq Int
    BY DEF RetentionAssumption
  <2>2. \A r \in 1 .. Len(made) : made[r] \in Days
    BY <1>1
  <2> QED BY <1>1, <2>1, <2>2
<1> QED BY <1>1, <1>2, <1>3 DEF Before

LEMMA KeysTyped ==
    ASSUME made \in Seq(Days), RetentionAssumption, NEW tier \in Tiers
    PROVE  /\ \A r \in Ids : KeyOf(tier, r) \in Nat
           /\ \A r, q \in Ids : Before(r, q) => KeyOf(tier, q) <= KeyOf(tier, r)
           /\ IsFiniteSet(Keys(tier)) /\ Keys(tier) \subseteq Nat
<1>1. \A r \in Ids : made[r] \in Days /\ made[r] \in Int
  BY BackupsOrdered
<1>2. PeriodOf[tier] \in [Days -> Nat] /\ Days \subseteq Int
  BY DEF RetentionAssumption
<1>3. \A r \in Ids : KeyOf(tier, r) \in Nat
  BY <1>1, <1>2 DEF KeyOf
<1>4. ASSUME NEW r \in Ids, NEW q \in Ids, Before(r, q) PROVE KeyOf(tier, q) <= KeyOf(tier, r)
  <2>1. made[q] <= made[r]
    BY <1>1, <1>4 DEF Before
  <2>2. \A d, e \in Days : d <= e => PeriodOf[tier][d] <= PeriodOf[tier][e]
    BY DEF RetentionAssumption
  <2> QED BY <1>1, <2>1, <2>2 DEF KeyOf
<1>5. IsFiniteSet(Keys(tier))
  <2> DEFINE f == [r \in Ids |-> KeyOf(tier, r)]
  <2>1. f \in [Ids -> Keys(tier)] /\ \A k \in Keys(tier) : \E r \in Ids : f[r] = k
    BY DEF Keys
  <2> HIDE DEF f
  <2>2. f \in Surjection(Ids, Keys(tier))
    BY <2>1 DEF Surjection
  <2> QED BY <2>2, BackupsOrdered, FS_Surjection
<1> QED BY <1>3, <1>4, <1>5 DEF Keys

LEMMA RankGrows ==
    ASSUME made \in Seq(Days), RetentionAssumption, NEW A \in SUBSET Ids
    PROVE  /\ IsFiniteSet(A)
           /\ \A r \in A : Rank(A, r) \in Nat
           /\ \A r, q \in A : Before(r, q) => Rank(A, r) < Rank(A, q)
<1>1. IsFiniteSet(A)
  BY BackupsOrdered, FS_Subset
<1>2. ASSUME NEW r \in A PROVE IsFiniteSet({q \in A : Before(q, r)}) /\ Rank(A, r) \in Nat
  <2>1. {q \in A : Before(q, r)} \in SUBSET A
    OBVIOUS
  <2>2. IsFiniteSet({q \in A : Before(q, r)})
    BY <1>1, <2>1, FS_Subset
  <2> QED BY <2>2, FS_CardinalityType DEF Rank
<1>3. ASSUME NEW r \in A, NEW q \in A, Before(r, q) PROVE Rank(A, r) < Rank(A, q)
  <2> DEFINE Less(x) == {p \in A : Before(p, x)}
  <2>1. Less(r) \subseteq Less(q) /\ r \in Less(q) /\ r \notin Less(r)
    BY <1>3, BackupsOrdered
  <2>2. IsFiniteSet(Less(q)) /\ IsFiniteSet(Less(r)) /\ Cardinality(Less(r)) \in Nat /\ Cardinality(Less(q)) \in Nat
    BY <1>2 DEF Rank
  <2>3. Rank(A, r) = Cardinality(Less(r)) /\ Rank(A, q) = Cardinality(Less(q))
    BY DEF Rank
  <2> HIDE DEF Less
  <2>4. Cardinality(Less(r)) <= Cardinality(Less(q)) /\ (Cardinality(Less(q)) = Cardinality(Less(r)) => Less(q) = Less(r))
    BY <2>1, <2>2, FS_Subset
  <2> QED BY <2>1, <2>2, <2>3, <2>4
<1> QED BY <1>1, <1>2, <1>3

LEMMA FirstExists ==
    ASSUME made \in Seq(Days), RetentionAssumption, NEW A \in SUBSET Ids, A # {}
    PROVE  \E r \in A : \A q \in A \ {r} : Before(r, q)
<1> DEFINE Ranks == {Rank(A, r) : r \in A}
<1>1. Ranks \in SUBSET Nat /\ Ranks # {}
  BY RankGrows
<1>2. PICK n \in Ranks : \A m \in Ranks : n <= m
  <2> HIDE DEF Ranks
  <2> QED BY <1>1, LeastNumber
<1>3. PICK r \in A : n = Rank(A, r)
  BY <1>2
<1>4. \A q \in A : n <= Rank(A, q)
  BY <1>2
<1>b. \A q \in A : Rank(A, q) \in Nat /\ (Before(q, r) => Rank(A, q) < Rank(A, r))
  BY RankGrows
<1>5. \A q \in A : ~Before(q, r)
  BY <1>3, <1>4, <1>b
<1> QED BY <1>5, BackupsOrdered

(* The last backup of a set: the first in rank of those with none after.    *)
LEMMA LastExists ==
    ASSUME made \in Seq(Days), RetentionAssumption, NEW A \in SUBSET Ids, A # {}
    PROVE  \E r \in A : \A q \in A \ {r} : Before(q, r)
<1>0. IsFiniteSet(A) /\ Cardinality(A) \in Nat
  BY RankGrows, FS_CardinalityType
<1>a. ASSUME NEW r \in A PROVE Rank(A, r) <= Cardinality(A) /\ Rank(A, r) \in Nat
  <2>1. {q \in A : Before(q, r)} \in SUBSET A
    OBVIOUS
  <2> QED BY <1>0, <2>1, FS_Subset, RankGrows DEF Rank
<1> DEFINE Ranks == {Cardinality(A) - Rank(A, r) : r \in A}
<1>1. Ranks \in SUBSET Nat /\ Ranks # {}
  BY <1>0, <1>a
<1>2. PICK n \in Ranks : \A m \in Ranks : n <= m
  <2> HIDE DEF Ranks
  <2> QED BY <1>1, LeastNumber
<1>3. PICK r \in A : n = Cardinality(A) - Rank(A, r)
  BY <1>2
<1>4. \A q \in A : n <= Cardinality(A) - Rank(A, q)
  BY <1>2
<1>5. \A q \in A : Rank(A, q) <= Rank(A, r)
  BY <1>0, <1>a, <1>3, <1>4
<1>b. \A q \in A : Before(r, q) => Rank(A, r) < Rank(A, q)
  BY RankGrows
<1>6. \A q \in A : ~Before(r, q)
  BY <1>5, <1>a, <1>b
<1> QED BY <1>6, BackupsOrdered

(* At most n backups have fewer than n before them.                         *)
LEMMA FirstOnes ==
    ASSUME made \in Seq(Days), RetentionAssumption, NEW A \in SUBSET Ids, NEW n \in Nat
    PROVE  /\ IsFiniteSet({r \in A : Rank(A, r) < n})
           /\ Cardinality({r \in A : Rank(A, r) < n}) <= n
<1> DEFINE S == {r \in A : Rank(A, r) < n}
           f == [r \in S |-> Rank(A, r) + 1]
<1>0. \A r \in A : Rank(A, r) \in Nat
  BY RankGrows
<1>1. \A r \in S : Rank(A, r) + 1 \in 1 .. n
  BY <1>0
<1>2. \A r, q \in S : Rank(A, r) = Rank(A, q) => r = q
  <2> SUFFICES ASSUME NEW r \in S, NEW q \in S, r # q PROVE Rank(A, r) # Rank(A, q)
    OBVIOUS
  <2>1. r \in Ids /\ q \in Ids
    OBVIOUS
  <2>2. Before(r, q) \/ Before(q, r)
    BY <2>1, BackupsOrdered
  <2>3. Rank(A, r) < Rank(A, q) \/ Rank(A, q) < Rank(A, r)
    BY <2>2, RankGrows
  <2>4. Rank(A, r) \in Nat /\ Rank(A, q) \in Nat
    BY <1>0
  <2> QED BY <2>3, <2>4
<1>3. f \in [S -> 1 .. n] /\ \A r, q \in S : f[r] = f[q] => r = q
  BY <1>0, <1>1, <1>2
<1>4. f \in Injection(S, 1 .. n)
  <2> HIDE DEF f, S
  <2> QED BY <1>3 DEF Injection, IsInjective
<1>5. IsFiniteSet(1 .. n) /\ Cardinality(1 .. n) = n
  BY FS_Interval
<1>6. IsFiniteSet(S) /\ Cardinality(S) <= n
  <2> HIDE DEF f, S
  <2> QED BY <1>4, <1>5, FS_Injection
<1> QED BY <1>6

(* The backups that open a period.                                          *)
JustBefore(A, r) == {q \in A : Before(q, r) /\ ~\E p \in A : Before(q, p) /\ Before(p, r)}
Leads(A, tier) == {r \in A : \A q \in JustBefore(A, r) : KeyOf(tier, q) # KeyOf(tier, r)}

LEMMA KeepTierLeads ==
    \A A, tier : keepTier(A, tier) = {r \in Leads(A, tier) : Rank(Leads(A, tier), r) < policy[tier]}
  BY DEF keepTier, Leads, JustBefore, Rank

(* No two of them open the same period: the one just before the second is   *)
(* of a period between theirs.                                              *)
LEMMA LeadsDiffer ==
    ASSUME made \in Seq(Days), RetentionAssumption, NEW tier \in Tiers, NEW A \in SUBSET Ids,
           NEW q \in Leads(A, tier), NEW r \in Leads(A, tier), Before(q, r)
    PROVE  KeyOf(tier, q) # KeyOf(tier, r)
<1> SUFFICES ASSUME KeyOf(tier, q) = KeyOf(tier, r) PROVE FALSE
  OBVIOUS
<1>1. q \in A /\ r \in A /\ q \in Ids /\ r \in Ids
  BY DEF Leads
<1> DEFINE B == {p \in A : Before(p, r)}
<1>2. B \in SUBSET Ids /\ q \in B
  BY <1>1
<1>3. PICK x \in B : \A p \in B \ {x} : Before(p, x)
  <2> HIDE DEF B
  <2> QED BY <1>2, LastExists
<1>4. x \in A /\ x \in Ids /\ Before(x, r)
  BY <1>2, <1>3
<1>5. ~\E p \in A : Before(x, p) /\ Before(p, r)
  <2> SUFFICES ASSUME NEW p \in A, Before(x, p), Before(p, r) PROVE FALSE
    OBVIOUS
  <2>1. p \in Ids /\ p \in B
    OBVIOUS
  <2>2. p # x
    BY <1>4, BackupsOrdered
  <2>3. Before(p, x)
    BY <1>3, <2>1, <2>2
  <2> QED BY <1>4, <2>1, <2>3, BackupsOrdered
<1>6. x \in JustBefore(A, r)
  BY <1>4, <1>5 DEF JustBefore
<1>7. KeyOf(tier, x) # KeyOf(tier, r)
  BY <1>6 DEF Leads
<1>8. KeyOf(tier, r) <= KeyOf(tier, x)
  BY <1>1, <1>4, KeysTyped
<1>9. KeyOf(tier, x) <= KeyOf(tier, q)
  <2>1. CASE x = q
    BY <1>1, <2>1, KeysTyped
  <2>2. CASE x # q
    <3>1. Before(q, x)
      BY <1>2, <1>3, <2>2
    <3> QED BY <1>1, <1>4, <3>1, KeysTyped
  <2> QED BY <2>1, <2>2
<1>10. KeyOf(tier, x) \in Nat /\ KeyOf(tier, r) \in Nat
  BY <1>1, <1>4, KeysTyped
<1> QED BY <1>7, <1>8, <1>9, <1>10

(* What the walk keeps of a tier: the newest backup of a period that the    *)
(* policy counts, and no more backups than it counts.                       *)
LEMMA NewestIsKept ==
    ASSUME made \in Seq(Days), RetentionAssumption, policy \in Policies,
           NEW tier \in Tiers, NEW A \in SUBSET Ids, NEW r \in A,
           IsNewest(tier, r), Cardinality(After(tier, KeyOf(tier, r))) < policy[tier]
    PROVE  r \in keepTier(A, tier)
<1>1. r \in Ids
  OBVIOUS
<1>2. ASSUME NEW q \in Ids, Before(q, r) PROVE KeyOf(tier, q) # KeyOf(tier, r)
  <2>1. q # r /\ ~Before(r, q)
    BY <1>1, <1>2, BackupsOrdered
  <2> QED BY <1>2, <2>1 DEF IsNewest
<1>3. r \in Leads(A, tier)
  <2>1. \A q \in JustBefore(A, r) : q \in Ids /\ Before(q, r)
    BY DEF JustBefore
  <2> QED BY <1>2, <2>1 DEF Leads
<1> DEFINE L == Leads(A, tier)
           S == {q \in L : Before(q, r)}
           T == After(tier, KeyOf(tier, r))
           f == [q \in S |-> KeyOf(tier, q)]
<1>4. L \subseteq Ids
  BY DEF Leads
<1>5. ASSUME NEW q \in S PROVE KeyOf(tier, q) \in T
  <2>1. q \in Ids /\ Before(q, r)
    BY <1>4
  <2>2. KeyOf(tier, q) # KeyOf(tier, r) /\ KeyOf(tier, r) <= KeyOf(tier, q)
    BY <1>1, <1>2, <2>1, KeysTyped
  <2>3. KeyOf(tier, q) \in Nat /\ KeyOf(tier, r) \in Nat
    BY <1>1, <2>1, KeysTyped
  <2> QED BY <2>1, <2>2, <2>3 DEF After, Keys
<1>6. ASSUME NEW q \in S, NEW p \in S, q # p PROVE KeyOf(tier, q) # KeyOf(tier, p)
  <2>1. q \in Ids /\ p \in Ids /\ q \in Leads(A, tier) /\ p \in Leads(A, tier)
    BY <1>4
  <2>2. Before(q, p) \/ Before(p, q)
    BY <1>6, <2>1, BackupsOrdered
  <2>3. CASE Before(q, p)
    BY <2>1, <2>3, LeadsDiffer
  <2>4. CASE Before(p, q)
    <3>1. KeyOf(tier, p) # KeyOf(tier, q)
      BY <2>1, <2>4, LeadsDiffer
    <3> QED BY <3>1
  <2> QED BY <2>2, <2>3, <2>4
<1>7. f \in [S -> T] /\ \A q, p \in S : f[q] = f[p] => q = p
  <2> HIDE DEF S, T
  <2> QED BY <1>5, <1>6
<1>8. f \in Injection(S, T)
  <2> HIDE DEF f, S, T
  <2> QED BY <1>7 DEF Injection, IsInjective
<1>9. IsFiniteSet(T)
  <2>1. IsFiniteSet(Keys(tier)) /\ T \in SUBSET Keys(tier)
    BY KeysTyped DEF After
  <2> HIDE DEF T
  <2> QED BY <2>1, FS_Subset
<1>10. IsFiniteSet(S) /\ Cardinality(S) <= Cardinality(T)
  <2> HIDE DEF f, S, T
  <2> QED BY <1>8, <1>9, FS_Injection
<1>11. Cardinality(S) \in Nat /\ Cardinality(T) \in Nat
  BY <1>9, <1>10, FS_CardinalityType
<1>12. policy[tier] \in Nat
  BY DEF RetentionAssumption
<1>13. Rank(L, r) = Cardinality(S) /\ Cardinality(T) < policy[tier]
  BY DEF Rank
<1>14. Rank(L, r) < policy[tier]
  <2> HIDE DEF L, S, T
  <2> QED BY <1>10, <1>11, <1>12, <1>13
<1> QED BY <1>3, <1>14, KeepTierLeads

LEMMA KeptOfTier ==
    ASSUME made \in Seq(Days), RetentionAssumption, policy \in Policies,
           NEW tier \in Tiers, NEW A \in SUBSET Ids
    PROVE  /\ keepTier(A, tier) \subseteq A /\ IsFiniteSet(keepTier(A, tier))
           /\ Cardinality(keepTier(A, tier)) <= policy[tier] /\ policy[tier] \in Nat
<1>1. Leads(A, tier) \in SUBSET A /\ Leads(A, tier) \in SUBSET Ids
  BY DEF Leads
<1>2. policy[tier] \in Nat
  BY DEF RetentionAssumption
<1>3. /\ IsFiniteSet({r \in Leads(A, tier) : Rank(Leads(A, tier), r) < policy[tier]})
      /\ Cardinality({r \in Leads(A, tier) : Rank(Leads(A, tier), r) < policy[tier]}) <= policy[tier]
  BY <1>1, <1>2, FirstOnes
<1>4. keepTier(A, tier) \subseteq A
  BY <1>1, KeepTierLeads
<1> QED BY <1>2, <1>3, <1>4, KeepTierLeads

-----------------------------------------------------------------------------
(* A function on the subsets of a finite set that takes one element after   *)
(* another out of them.                                                     *)
Small(S, n) == {T \in SUBSET S : Cardinality(T) <= n}
TakesOut(f, D, first, step, pick) ==
    /\ f[{}] = first
    /\ \A T \in D \ {{}} : f[T] = step[<<T, f[T \ {pick[T]}]>>]

LEMMA SmallSets ==
    ASSUME NEW S, IsFiniteSet(S), NEW pick, \A T \in (SUBSET S) \ {{}} : pick[T] \in T
    PROVE  /\ Cardinality(S) \in Nat /\ Small(S, Cardinality(S)) = SUBSET S
           /\ \A T \in SUBSET S : IsFiniteSet(T) /\ Cardinality(T) \in Nat
           /\ \A n \in Nat : {} \in Small(S, n)
           /\ Small(S, 0) = {{}}
           /\ \A n \in Nat : \A T \in Small(S, n) \ {{}} :
                pick[T] \in T /\ pick[T] \in S /\ n - 1 \in Nat /\ T \ {pick[T]} \in Small(S, n - 1)
<1>1. \A T \in SUBSET S : IsFiniteSet(T) /\ Cardinality(T) \in Nat /\ Cardinality(T) <= Cardinality(S)
  BY FS_Subset, FS_CardinalityType
<1>2. \A T \in SUBSET S : Cardinality(T) = 0 <=> T = {}
  BY <1>1, FS_EmptySet
<1>3. ASSUME NEW n \in Nat, NEW T \in Small(S, n) \ {{}}
      PROVE  pick[T] \in T /\ pick[T] \in S /\ n - 1 \in Nat /\ T \ {pick[T]} \in Small(S, n - 1)
  <2>1. T \in SUBSET S /\ Cardinality(T) <= n /\ T # {}
    BY DEF Small
  <2>2. pick[T] \in T
    BY <2>1
  <2>3. Cardinality(T \ {pick[T]}) = Cardinality(T) - 1
    BY <1>1, <2>1, <2>2, FS_RemoveElement
  <2>4. Cardinality(T) \in Nat /\ Cardinality(T) # 0
    BY <1>1, <1>2, <2>1
  <2>5. T \ {pick[T]} \in SUBSET S
    BY <2>1
  <2> QED BY <2>1, <2>2, <2>3, <2>4, <2>5 DEF Small
<1>4. {} \in SUBSET S /\ Cardinality({}) = 0
  BY FS_EmptySet
<1>5. \A n \in Nat : {} \in Small(S, n)
  BY <1>4 DEF Small
<1>6. Small(S, 0) = {{}}
  <2>1. ASSUME NEW T \in Small(S, 0) PROVE T = {}
    <3>1. T \in SUBSET S /\ Cardinality(T) <= 0
      BY DEF Small
    <3> QED BY <1>1, <1>2, <3>1
  <2>2. {} \in Small(S, 0)
    BY <1>5
  <2>3. \A T : T \in Small(S, 0) <=> T \in {{}}
    BY <2>1, <2>2
  <2> QED BY <2>3
<1>7. Small(S, Cardinality(S)) = SUBSET S
  BY <1>1 DEF Small
<1>8. Cardinality(S) \in Nat
  BY FS_CardinalityType
<1> QED BY <1>1, <1>3, <1>5, <1>6, <1>7, <1>8

LEMMA TakingOutExists ==
    ASSUME NEW S, IsFiniteSet(S), NEW pick, \A T \in (SUBSET S) \ {{}} : pick[T] \in T,
           NEW V, NEW first \in V, NEW step \in [(SUBSET S) \X V -> V]
    PROVE  \E f \in [SUBSET S -> V] : TakesOut(f, SUBSET S, first, step, pick)
<1> DEFINE N == Cardinality(S)
           Good == {n \in 0 .. N : \E f \in [Small(S, n) -> V] : TakesOut(f, Small(S, n), first, step, pick)}
<1>1. N \in Nat
  BY SmallSets
<1>2. 0 \in Good
  <2> DEFINE f == [T \in Small(S, 0) |-> first]
  <2>1. Small(S, 0) = {{}}
    BY SmallSets
  <2>2. f \in [Small(S, 0) -> V] /\ TakesOut(f, Small(S, 0), first, step, pick)
    BY <2>1 DEF TakesOut
  <2> HIDE DEF f
  <2> QED BY <1>1, <2>2
<1>3. ASSUME NEW n \in 1 .. N, n - 1 \in Good PROVE n \in Good
  <2>1. PICK f \in [Small(S, n - 1) -> V] : TakesOut(f, Small(S, n - 1), first, step, pick)
    BY <1>3
  <2>2. /\ f[{}] = first
        /\ \A T \in Small(S, n - 1) \ {{}} : f[T] = step[<<T, f[T \ {pick[T]}]>>]
    BY <2>1 DEF TakesOut
  <2> DEFINE Body(T) == IF T = {} THEN first ELSE step[<<T, f[T \ {pick[T]}]>>]
             g == [T \in Small(S, n) |-> Body(T)]
  <2>3. n \in Nat
    BY <1>1
  <2>4. \A T \in Small(S, n) \ {{}} : T \ {pick[T]} \in Small(S, n - 1) /\ T \in SUBSET S
    BY <2>3, SmallSets DEF Small
  <2>5. \A T \in Small(S, n) : Body(T) \in V
    <3> SUFFICES ASSUME NEW T \in Small(S, n) \ {{}} PROVE step[<<T, f[T \ {pick[T]}]>>] \in V
      OBVIOUS
    <3>1. <<T, f[T \ {pick[T]}]>> \in (SUBSET S) \X V
      BY <2>1, <2>4
    <3> QED BY <3>1
  <2>6. ASSUME NEW T \in Small(S, n - 1) PROVE Body(T) = f[T]
    BY <2>2
  <2>7. {} \in Small(S, n)
    BY <2>3, SmallSets
  <2>8. g \in [Small(S, n) -> V] /\ \A T \in Small(S, n) : g[T] = Body(T)
    <3> HIDE DEF Body
    <3> QED BY <2>5
  <2>9. Small(S, n - 1) \subseteq Small(S, n)
    <3>1. \A T \in SUBSET S : Cardinality(T) \in Nat
      BY SmallSets
    <3> QED BY <2>3, <3>1 DEF Small
  <2> HIDE DEF g
  <2>10. ASSUME NEW T \in Small(S, n) \ {{}} PROVE g[T] = step[<<T, g[T \ {pick[T]}]>>]
    <3>1. g[T] = step[<<T, f[T \ {pick[T]}]>>]
      BY <2>8
    <3>2. T \ {pick[T]} \in Small(S, n - 1)
      BY <2>4
    <3>3. g[T \ {pick[T]}] = f[T \ {pick[T]}]
      <4> HIDE DEF Body
      <4> QED BY <2>6, <2>8, <2>9, <3>2
    <3> QED BY <3>1, <3>3
  <2>11. g[{}] = first
    BY <2>7, <2>8
  <2>12. TakesOut(g, Small(S, n), first, step, pick)
    BY <2>10, <2>11 DEF TakesOut
  <2> QED BY <2>8, <2>12
<1> HIDE DEF Good, N
<1>4. N \in Good
  BY <1>1, <1>2, <1>3, UpTo
<1>5. PICK f \in [Small(S, N) -> V] : TakesOut(f, Small(S, N), first, step, pick)
  BY <1>4 DEF Good
<1>6. Small(S, N) = SUBSET S
  BY SmallSets DEF N
<1> QED BY <1>5, <1>6

-----------------------------------------------------------------------------
(* Sums over sets.                                                          *)
Some(T) == CHOOSE x \in T : TRUE
Sums(f, S, w) ==
    /\ f[{}] = 0
    /\ \A T \in (SUBSET S) \ {{}} : f[T] = w[Some(T)] + f[T \ {Some(T)}]

LEMMA SomeOfSmall ==
    ASSUME NEW S, IsFiniteSet(S)
    PROVE  /\ Cardinality(S) \in Nat /\ Small(S, Cardinality(S)) = SUBSET S
           /\ Small(S, 0) = {{}}
           /\ \A n \in Nat : \A T \in Small(S, n) \ {{}} :
                Some(T) \in T /\ Some(T) \in S /\ n - 1 \in Nat /\ T \ {Some(T)} \in Small(S, n - 1)
<1> DEFINE pick == [T \in SUBSET S |-> Some(T)]
<1>1. \A T \in (SUBSET S) \ {{}} : pick[T] = Some(T) /\ pick[T] \in T
  BY DEF Some
<1>2. \A n \in Nat : \A T \in Small(S, n) : T \in SUBSET S
  BY DEF Small
<1> HIDE DEF pick
<1>3. /\ Cardinality(S) \in Nat /\ Small(S, Cardinality(S)) = SUBSET S
      /\ Small(S, 0) = {{}}
      /\ \A n \in Nat : \A T \in Small(S, n) \ {{}} :
           pick[T] \in T /\ pick[T] \in S /\ n - 1 \in Nat /\ T \ {pick[T]} \in Small(S, n - 1)
  BY <1>1, SmallSets
<1> QED BY <1>1, <1>2, <1>3

LEMMA SumsExist ==
    ASSUME NEW S, IsFiniteSet(S), NEW w \in [S -> Nat]
    PROVE  \E f \in [SUBSET S -> Nat] : Sums(f, S, w)
<1> DEFINE pick == [T \in SUBSET S |-> Some(T)]
           step == [e \in (SUBSET S) \X Nat |-> IF e[1] = {} THEN 0 ELSE w[Some(e[1])] + e[2]]
<1>1. \A T \in (SUBSET S) \ {{}} : Some(T) \in T /\ Some(T) \in S
  BY DEF Some
<1>2. \A T \in (SUBSET S) \ {{}} : pick[T] = Some(T) /\ pick[T] \in T
  BY <1>1
<1>3. step \in [(SUBSET S) \X Nat -> Nat]
  BY <1>1
<1>4. \A T \in (SUBSET S) \ {{}}, n \in Nat : step[<<T, n>>] = w[Some(T)] + n
  OBVIOUS
<1> HIDE DEF pick, step
<1>5. PICK f \in [SUBSET S -> Nat] : TakesOut(f, SUBSET S, 0, step, pick)
  BY <1>2, <1>3, TakingOutExists
<1>6. ASSUME NEW T \in (SUBSET S) \ {{}} PROVE f[T] = w[Some(T)] + f[T \ {Some(T)}]
  <2>1. f[T] = step[<<T, f[T \ {pick[T]}]>>]
    BY <1>5 DEF TakesOut
  <2>2. pick[T] = Some(T) /\ f[T \ {Some(T)}] \in Nat
    BY <1>2
  <2> QED BY <1>4, <2>1, <2>2
<1> QED BY <1>5, <1>6 DEF Sums, TakesOut

(* A union of sets has no more elements than the sets together may have.    *)
United(part, T) == UNION {part[t] : t \in T}

LEMMA UnionWithinSum ==
    ASSUME NEW S, IsFiniteSet(S), NEW w \in [S -> Nat], NEW sum, Sums(sum, S, w), NEW part,
           \A t \in S : IsFiniteSet(part[t]) /\ Cardinality(part[t]) <= w[t]
    PROVE  IsFiniteSet(United(part, S)) /\ Cardinality(United(part, S)) <= sum[S]
<1> DEFINE Together(T) == United(part, T)
           N == Cardinality(S)
           Good == {n \in 0 .. N : \A T \in Small(S, n) :
                      /\ IsFiniteSet(Together(T)) /\ Cardinality(Together(T)) <= sum[T]
                      /\ sum[T] \in Nat}
<1>1. N \in Nat
  BY SomeOfSmall
<1>2. /\ sum[{}] = 0
      /\ \A T \in (SUBSET S) \ {{}} : sum[T] = w[Some(T)] + sum[T \ {Some(T)}]
  BY DEF Sums
<1>3. IsFiniteSet(Together({})) /\ Cardinality(Together({})) = 0
  <2>1. Together({}) = {}
    BY DEF United
  <2> QED BY <2>1, FS_EmptySet
<1> HIDE DEF Together
<1>4. 0 \in Good
  <2>1. Small(S, 0) = {{}}
    BY SomeOfSmall
  <2>2. ASSUME NEW T \in Small(S, 0)
        PROVE  IsFiniteSet(Together(T)) /\ Cardinality(Together(T)) <= sum[T] /\ sum[T] \in Nat
    <3>1. T = {}
      BY <2>1
    <3> QED BY <1>2, <1>3, <3>1
  <2> QED BY <1>1, <2>2
<1>5. ASSUME NEW n \in 1 .. N, n - 1 \in Good PROVE n \in Good
  <2>1. n \in Nat
    BY <1>1
  <2>2. ASSUME NEW T \in Small(S, n)
        PROVE  IsFiniteSet(Together(T)) /\ Cardinality(Together(T)) <= sum[T] /\ sum[T] \in Nat
    <3>1. CASE T = {}
      BY <1>2, <1>3, <3>1
    <3>2. CASE T # {}
      <4> DEFINE x == Some(T)
                 U == T \ {x}
      <4>1. x \in T /\ x \in S /\ U \in Small(S, n - 1)
        BY <2>1, <3>2, SomeOfSmall
      <4>2. T \in SUBSET S /\ U \in SUBSET S
        BY DEF Small
      <4>a. sum[U] \in Nat
        BY <1>5, <4>1
      <4>3. sum[T] = w[x] + sum[U] /\ sum[T] \in Nat /\ sum[U] \in Nat /\ w[x] \in Nat
        BY <1>2, <3>2, <4>1, <4>2, <4>a
      <4>4. Together(T) = part[x] \cup Together(U)
        <5> HIDE DEF x
        <5> QED BY <4>1 DEF Together, United
      <4> HIDE DEF x, U
      <4>5. IsFiniteSet(Together(U)) /\ Cardinality(Together(U)) <= sum[U]
        BY <1>5, <4>1
      <4>6. IsFiniteSet(part[x]) /\ Cardinality(part[x]) <= w[x]
        BY <4>1
      <4>7. /\ IsFiniteSet(Together(T))
            /\ Cardinality(Together(T)) =
                 Cardinality(part[x]) + Cardinality(Together(U)) - Cardinality(part[x] \cap Together(U))
        BY <4>4, <4>5, <4>6, FS_Union
      <4>8. IsFiniteSet(part[x] \cap Together(U))
        BY <4>6, FS_Intersection
      <4>9. /\ Cardinality(part[x]) \in Nat /\ Cardinality(Together(U)) \in Nat
            /\ Cardinality(part[x] \cap Together(U)) \in Nat
        BY <4>5, <4>6, <4>8, FS_CardinalityType
      <4> QED BY <4>3, <4>5, <4>6, <4>7, <4>9
    <3> QED BY <3>1, <3>2
  <2> QED BY <2>2
<1> HIDE DEF Good, N
<1>6. N \in Good
  BY <1>1, <1>4, <1>5, UpTo
<1>7. S \in Small(S, N)
  BY SomeOfSmall DEF N
<1>8. IsFiniteSet(Together(S)) /\ Cardinality(Together(S)) <= sum[S]
  BY <1>6, <1>7 DEF Good
<1> QED BY <1>8 DEF Together

LEMMA SumOfPolicy ==
    ASSUME RetentionAssumption, policy \in Policies
    PROVE  \E sum : /\ Sums(sum, Tiers, policy)
                    /\ MapThenSumSet(LAMBDA tier : policy[tier], Tiers) = sum[Tiers]
<1> DEFINE Body(f) == [s \in SUBSET Tiers |->
                          IF s = {} THEN 0 ELSE policy[CHOOSE x \in s : TRUE] + f[s \ {CHOOSE x \in s : TRUE}]]
           sum == CHOOSE f : f = Body(f)
<1>1. MapThenSumSet(LAMBDA tier : policy[tier], Tiers) = sum[Tiers]
  BY DEF MapThenSumSet, MapThenFoldSet
<1>2. policy \in [Tiers -> Nat] /\ IsFiniteSet(Tiers)
  BY DEF RetentionAssumption
<1>3. PICK f \in [SUBSET Tiers -> Nat] : Sums(f, Tiers, policy)
  BY <1>2, SumsExist
<1>4. f = Body(f)
  <2>1. /\ f \in [SUBSET Tiers -> Nat] /\ f[{}] = 0
        /\ \A T \in (SUBSET Tiers) \ {{}} : f[T] = policy[Some(T)] + f[T \ {Some(T)}]
    BY <1>3 DEF Sums
  <2>2. ASSUME NEW T \in SUBSET Tiers PROVE f[T] = Body(f)[T]
    BY <2>1 DEF Some
  <2> DEFINE g == Body(f)
  <2>3. DOMAIN g = SUBSET Tiers /\ g = [s \in SUBSET Tiers |-> g[s]]
    OBVIOUS
  <2>4. \A T \in SUBSET Tiers : f[T] = g[T]
    BY <2>2
  <2> HIDE DEF g
  <2>5. f = g
    BY <2>1, <2>3, <2>4
  <2> QED BY <2>5 DEF g
<1>5. sum = Body(sum)
  <2> HIDE DEF Body
  <2> QED BY <1>4
<1> HIDE DEF sum
<1>6. Sums(sum, Tiers, policy)
  <2>1. sum[{}] = 0 /\ \A T \in (SUBSET Tiers) \ {{}} : sum[T] = policy[Some(T)] + sum[T \ {Some(T)}]
    <3> DEFINE g == Body(sum)
    <3>1. g[{}] = 0 /\ \A T \in (SUBSET Tiers) \ {{}} : g[T] = policy[Some(T)] + sum[T \ {Some(T)}]
      BY DEF Some
    <3>2. sum = g
      BY <1>5
    <3> HIDE DEF g
    <3> QED BY <3>1, <3>2
  <2> QED BY <2>1 DEF Sums
<1> QED BY <1>1, <1>6

-----------------------------------------------------------------------------
(* The steps.                                                               *)
LEMMA RetentionStarts == RetentionAssumption /\ RetentionInit => RetentionInv
<1> SUFFICES ASSUME RetentionAssumption, RetentionInit PROVE RetentionInv
  OBVIOUS
<1>1. Ids = {}
  BY DEF RetentionInit, Ids
<1>2. RetentionTypeOK
  <2>1. policy \in Policies /\ made = <<>> /\ present = {} /\ tidy = FALSE
    BY DEF RetentionInit
  <2>2. made \in Seq(Days)
    BY <2>1
  <2> QED BY <2>1, <2>2 DEF RetentionTypeOK
<1>3. NewestLeft /\ FewLeft
  BY <1>1 DEF RetentionInit, NewestLeft, FewLeft
<1> QED BY <1>2, <1>3 DEF RetentionInv

(* A further backup is the newest of its period or changes nothing for the  *)
(* others, and it can only move periods out of what the policy counts.      *)
LEMMA CompleteKeeps ==
    ASSUME RetentionAssumption, RetentionInv, NEW day \in Days, Complete(day)
    PROVE  RetentionInv'
<1>1. /\ made \in Seq(Days) /\ policy \in Policies /\ present \subseteq Ids
      /\ Ids = 1 .. Len(made) /\ Len(made) \in Nat
  BY DEF RetentionInv, RetentionTypeOK, Ids
<1>2. /\ made' = Append(made, day) /\ present' = present \cup {Len(made) + 1}
      /\ tidy' = FALSE /\ policy' = policy
  BY DEF Complete
<1>3. /\ made' \in Seq(Days) /\ Len(made') = Len(made) + 1
      /\ \A r \in Ids : made'[r] = made[r]
  BY <1>1, <1>2
<1>4. Ids' = Ids \cup {Len(made) + 1} /\ Len(made) + 1 \notin Ids
  BY <1>1, <1>3 DEF Ids
<1>5. RetentionTypeOK'
  BY <1>1, <1>2, <1>3, <1>4 DEF RetentionTypeOK
<1>6. FewLeft'
  BY <1>2 DEF FewLeft
<1>7. NewestLeft'
  <2> SUFFICES ASSUME NEW tier \in Tiers, NEW r \in Ids', IsNewest(tier, r)',
                      Cardinality(After(tier, KeyOf(tier, r))') < policy[tier]
               PROVE  r \in present'
    BY <1>2 DEF NewestLeft
  <2>1. CASE r = Len(made) + 1
    BY <1>2, <2>1
  <2>2. CASE r \in Ids
    <3>1. \A q \in Ids : KeyOf(tier, q)' = KeyOf(tier, q)
      BY <1>3 DEF KeyOf
    <3>2. \A q \in Ids : Before(r, q)' <=> Before(r, q)
      BY <1>3, <2>2 DEF Before
    <3>3. IsNewest(tier, r)
      BY <1>4, <2>2, <3>1, <3>2 DEF IsNewest
    <3>4. After(tier, KeyOf(tier, r)) \subseteq After(tier, KeyOf(tier, r))'
      BY <1>4, <2>2, <3>1 DEF After, Keys
    <3>5. IsFiniteSet(After(tier, KeyOf(tier, r))')
      <4>1. IsFiniteSet(Keys(tier)')
        <5>0. PICK n : n = Len(made) + 1
          OBVIOUS
        <5> DEFINE k == PeriodOf[tier][made'[n]]
        <5>a. \A q \in Ids : KeyOf(tier, q)' = KeyOf(tier, q)
          BY <3>1
        <5>b. KeyOf(tier, n)' = k
          BY DEF KeyOf
        <5>c. Keys(tier)' = {KeyOf(tier, q)' : q \in Ids'}
          BY DEF Keys
        <5>1. Keys(tier)' = Keys(tier) \cup {k}
          <6> HIDE DEF k
          <6>1. Ids' = Ids \cup {n}
            BY <1>4, <5>0
          <6>2. \A x : x \in Keys(tier)' <=> \E q \in Ids' : x = KeyOf(tier, q)'
            BY <5>c
          <6>3. \A x : x \in Keys(tier) <=> \E q \in Ids : x = KeyOf(tier, q)
            BY DEF Keys
          <6>4. \A x : x \in Keys(tier)' <=> x \in Keys(tier) \/ x = k
            BY <5>a, <5>b, <6>1, <6>2, <6>3
          <6> QED BY <6>4
        <5>2. IsFiniteSet(Keys(tier))
          BY <1>1, KeysTyped
        <5> HIDE DEF k
        <5> QED BY <5>1, <5>2, FS_AddElement
      <4>2. After(tier, KeyOf(tier, r))' \in SUBSET (Keys(tier)')
        BY DEF After
      <4> QED BY <4>1, <4>2, FS_Subset
    <3>6. /\ IsFiniteSet(After(tier, KeyOf(tier, r)))
          /\ Cardinality(After(tier, KeyOf(tier, r))) <= Cardinality(After(tier, KeyOf(tier, r))')
      BY <3>4, <3>5, FS_Subset
    <3>7. policy[tier] \in Nat
      BY <1>1 DEF RetentionAssumption
    <3>8. Cardinality(After(tier, KeyOf(tier, r))) \in Nat /\ Cardinality(After(tier, KeyOf(tier, r))') \in Nat
      BY <3>5, <3>6, FS_CardinalityType
    <3>9. Cardinality(After(tier, KeyOf(tier, r))) < policy[tier]
      BY <3>6, <3>7, <3>8
    <3>10. r \in present
      BY <2>2, <3>3, <3>9 DEF RetentionInv, NewestLeft
    <3> QED BY <1>2, <3>10
  <2> QED BY <1>4, <2>1, <2>2
<1> QED BY <1>5, <1>6, <1>7 DEF RetentionInv

(* The cleanup keeps the newest backup of each counted period, and all it   *)
(* keeps of the unlocked ones is kept for some tier.                        *)
LEMMA CleanupKeeps ==
    ASSUME RetentionAssumption, RetentionInv,
           NEW gone \in SUBSET selectGFSToDelete(present), Cleanup(gone)
    PROVE  RetentionInv'
<1>1. /\ made \in Seq(Days) /\ policy \in Policies /\ present \subseteq Ids
  BY DEF RetentionInv, RetentionTypeOK
<1>2. /\ present' = present \ gone /\ (tidy' <=> gone = selectGFSToDelete(present)) /\ tidy' \in BOOLEAN
      /\ policy' = policy /\ made' = made /\ lockedIds' = lockedIds
  BY DEF Cleanup
<1> DEFINE A == present \ lockedIds
<1>3. A \in SUBSET Ids
  BY <1>1
<1>4. selectGFSToDelete(present) = A \ UNION {keepTier(A, tier) : tier \in Tiers}
  BY DEF selectGFSToDelete
<1> HIDE DEF A
<1>5. RetentionTypeOK'
  BY <1>1, <1>2 DEF RetentionTypeOK, Ids
<1>6. NewestLeft'
  <2> SUFFICES ASSUME NEW tier \in Tiers, NEW r \in Ids, IsNewest(tier, r),
                      Cardinality(After(tier, KeyOf(tier, r))) < policy[tier]
               PROVE  r \in present \ gone
    BY <1>2 DEF NewestLeft, Ids, IsNewest, After, Keys, KeyOf, Before
  <2>1. r \in present
    BY DEF RetentionInv, NewestLeft
  <2>2. r \notin gone
    <3> SUFFICES ASSUME r \in gone PROVE FALSE
      OBVIOUS
    <3>1. r \in A /\ r \notin keepTier(A, tier)
      BY <1>4
    <3> QED BY <1>1, <1>3, <3>1, NewestIsKept
  <2> QED BY <2>1, <2>2
<1>7. FewLeft'
  <2>0. MapThenSumSet(LAMBDA tier : policy[tier], Tiers)' = MapThenSumSet(LAMBDA tier : policy[tier], Tiers)
    BY <1>2 DEF MapThenSumSet, MapThenFoldSet
  <2> SUFFICES ASSUME tidy'
               PROVE  Cardinality(present' \ lockedIds') <= MapThenSumSet(LAMBDA tier : policy[tier], Tiers)
    BY <2>0 DEF FewLeft
  <2> DEFINE part == [tier \in Tiers |-> keepTier(A, tier)]
  <2>1. \A tier \in Tiers : IsFiniteSet(part[tier]) /\ Cardinality(part[tier]) <= policy[tier] /\ part[tier] \subseteq A
    BY <1>1, <1>3, KeptOfTier
  <2>2. UNION {keepTier(A, tier) : tier \in Tiers} = United(part, Tiers)
    BY DEF United
  <2> HIDE DEF part
  <2>3. United(part, Tiers) \subseteq A
    BY <2>1 DEF United
  <2>4. present' \ lockedIds' = United(part, Tiers)
    BY <1>2, <1>4, <2>2, <2>3 DEF A
  <2>5. PICK sum : /\ Sums(sum, Tiers, policy)
                   /\ MapThenSumSet(LAMBDA tier : policy[tier], Tiers) = sum[Tiers]
    BY <1>1, SumOfPolicy
  <2>6. IsFiniteSet(Tiers) /\ policy \in [Tiers -> Nat]
    BY <1>1 DEF RetentionAssumption
  <2>7. Cardinality(United(part, Tiers)) <= sum[Tiers]
    BY <2>1, <2>5, <2>6, UnionWithinSum
  <2> QED BY <2>4, <2>5, <2>7
<1> QED BY <1>5, <1>6, <1>7 DEF RetentionInv

LEMMA RetentionStep ==
    RetentionAssumption /\ RetentionInv /\ [RetentionNext]_retentionVars => RetentionInv'
<1> SUFFICES ASSUME RetentionAssumption, RetentionInv, [RetentionNext]_retentionVars PROVE RetentionInv'
  OBVIOUS
<1>1. ASSUME NEW day \in Days, Complete(day) PROVE RetentionInv'
  BY <1>1, CompleteKeeps
<1>2. ASSUME NEW gone \in SUBSET selectGFSToDelete(present), Cleanup(gone) PROVE RetentionInv'
  BY <1>2, CleanupKeeps
<1>3. ASSUME NEW r \in Ids, SetLocked(r) PROVE RetentionInv'
  <2>1. /\ policy' = policy /\ made' = made /\ present' = present /\ tidy' = FALSE
    BY <1>3 DEF SetLocked
  <2>2. RetentionTypeOK' /\ FewLeft'
    BY <2>1 DEF RetentionInv, RetentionTypeOK, FewLeft, Ids
  <2>3. NewestLeft'
    BY <2>1 DEF RetentionInv, NewestLeft, Ids, IsNewest, After, Keys, KeyOf, Before
  <2> QED BY <2>2, <2>3 DEF RetentionInv
<1>4. CASE UNCHANGED retentionVars
  <2>1. /\ policy' = policy /\ made' = made /\ present' = present /\ tidy' = tidy /\ lockedIds' = lockedIds
    BY <1>4 DEF retentionVars
  <2>2. RetentionTypeOK'
    BY <2>1 DEF RetentionInv, RetentionTypeOK, Ids
  <2>3. NewestLeft'
    BY <2>1 DEF RetentionInv, NewestLeft, Ids, IsNewest, After, Keys, KeyOf, Before
  <2>4. FewLeft'
    <3>1. MapThenSumSet(LAMBDA tier : policy[tier], Tiers)' = MapThenSumSet(LAMBDA tier : policy[tier], Tiers)
      BY <2>1 DEF MapThenSumSet, MapThenFoldSet
    <3> QED BY <2>1, <3>1 DEF RetentionInv, FewLeft
  <2> QED BY <2>2, <2>3, <2>4 DEF RetentionInv
<1> QED BY <1>1, <1>2, <1>3, <1>4 DEF RetentionNext

(* Of all backups ever made, the newest of each period that the policy      *)
(* counts is left, and a complete cleanup leaves no more unlocked records   *)
(* than the policy counts.                                                  *)
LEMMA InvKeepsGenerations == RetentionAssumption /\ RetentionInv => GenerationsKept
<1> SUFFICES ASSUME RetentionAssumption, RetentionInv PROVE GenerationsKept
  OBVIOUS
<1>1. made \in Seq(Days) /\ policy \in Policies /\ present \subseteq Ids
  BY DEF RetentionInv, RetentionTypeOK
<1>2. ASSUME NEW tier \in Tiers, NEW period \in LastPeriods(tier) PROVE Newest(tier, period) \in present
  <2>1. period \in Keys(tier) /\ Cardinality(After(tier, period)) < policy[tier]
    BY DEF LastPeriods, Keys, After
  <2> DEFINE S == {r \in Ids : KeyOf(tier, r) = period}
  <2>2. S \in SUBSET Ids /\ S # {}
    BY <2>1 DEF Keys
  <2>3. PICK r \in S : \A q \in S \ {r} : Before(r, q)
    <3> HIDE DEF S
    <3> QED BY <1>1, <2>2, FirstExists
  <2>4. r \in Ids /\ KeyOf(tier, r) = period /\ \A q \in Ids \ {r} : KeyOf(tier, q) = period => Before(r, q)
    BY <2>3
  <2> DEFINE x == Newest(tier, period)
  <2>5. x \in Ids /\ KeyOf(tier, x) = period /\ \A q \in Ids \ {x} : KeyOf(tier, q) = period => Before(x, q)
    BY <2>4 DEF Newest
  <2> HIDE DEF x
  <2>6. IsNewest(tier, x)
    BY <2>5 DEF IsNewest
  <2>7. x \in present
    BY <2>1, <2>5, <2>6 DEF RetentionInv, NewestLeft
  <2> QED BY <2>7 DEF x
<1> QED BY <1>2 DEF GenerationsKept, RetentionInv, FewLeft

(* GFSRetention: however often the cleanup runs, fails in part or meets     *)
(* locked records, and in whatever order the clock of the Master makes the  *)
(* backups appear, the newest backup of each period the policy counts stays *)
(* (selectGFSToDelete), and a complete cleanup leaves no more unlocked      *)
(* records than the policy counts.                                          *)
THEOREM GenerationsKeptHolds == RetentionSpec => []GenerationsKept
<1>1. RetentionSpec => []RetentionInv
  BY RetentionAssumption, RetentionStarts, RetentionStep, PTL DEF RetentionSpec
<1>2. RetentionInv => GenerationsKept
  BY RetentionAssumption, InvKeepsGenerations
<1> QED BY <1>1, <1>2, PTL

-----------------------------------------------------------------------------
(* FileArchives                                                             *)

(* Folds over lists, which take the last element off a set of positions.    *)
LEMMA LastPosition ==
    ASSUME NEW N \in Nat
    PROVE  /\ \A T \in (SUBSET (1 .. N)) \ {{}} : Max(T) \in T
           /\ \A n \in 1 .. N : Max(1 .. n) = n /\ (1 .. n) \ {n} = 1 .. n - 1
<1>1. ASSUME NEW T \in (SUBSET (1 .. N)) \ {{}} PROVE Max(T) \in T
  <2> DEFINE Left == {N - x : x \in T}
  <2>1. Left \in SUBSET Nat /\ Left # {}
    OBVIOUS
  <2>2. PICK m \in Left : \A y \in Left : m <= y
    <3> HIDE DEF Left
    <3> QED BY <2>1, LeastNumber
  <2>3. PICK x \in T : m = N - x
    BY <2>2
  <2>4. \A y \in T : N - x <= N - y
    BY <2>2, <2>3
  <2>5. \A y \in T : x >= y
    BY <2>4
  <2> QED BY <2>5 DEF Max
<1>2. ASSUME NEW n \in 1 .. N PROVE Max(1 .. n) = n
  <2> DEFINE m == Max(1 .. n)
  <2>1. n \in 1 .. n /\ \A y \in 1 .. n : n >= y
    OBVIOUS
  <2>2. m \in 1 .. n /\ \A y \in 1 .. n : m >= y
    BY <2>1 DEF Max
  <2> HIDE DEF m
  <2>3. m = n
    BY <2>1, <2>2
  <2> QED BY <2>3 DEF m
<1> QED BY <1>1, <1>2

(* The equation of a fold of step over s.                                   *)
FoldBody(f, s, first, step) ==
    [T \in SUBSET (1 .. Len(s)) |-> IF T = {} THEN first ELSE step[<<f[T \ {Max(T)}], s[Max(T)]>>]]

FoldSteps(V, X) == [V \X X -> V]
FoldDefined(s, V, first, step) == \E f \in [SUBSET (1 .. Len(s)) -> V] : f = FoldBody(f, s, first, step)

LEMMA FoldExists ==
    ASSUME NEW X, NEW s \in Seq(X), NEW V, NEW first \in V, NEW step \in FoldSteps(V, X)
    PROVE  FoldDefined(s, V, first, step)
<1> DEFINE N == Len(s)
           S == 1 .. N
           pick == [T \in SUBSET S |-> Max(T)]
           move == [e \in (SUBSET S) \X V |-> IF e[1] = {} THEN first ELSE step[<<e[2], s[Max(e[1])]>>]]
<1>0. step \in [V \X X -> V]
  BY DEF FoldSteps
<1>1. N \in Nat /\ \A i \in S : s[i] \in X
  OBVIOUS
<1>2. IsFiniteSet(S)
  BY <1>1, FS_Interval
<1>3. \A T \in (SUBSET S) \ {{}} : Max(T) \in T /\ Max(T) \in S
  BY <1>1, LastPosition
<1>4. \A T \in (SUBSET S) \ {{}} : pick[T] = Max(T) /\ pick[T] \in T
  BY <1>3
<1>5. ASSUME NEW T \in (SUBSET S) \ {{}}, NEW v \in V PROVE step[<<v, s[Max(T)]>>] \in V
  <2>1. <<v, s[Max(T)]>> \in V \X X
    BY <1>1, <1>3
  <2> QED BY <1>0, <2>1
<1>6. move \in [(SUBSET S) \X V -> V]
  <2> HIDE DEF S
  <2> QED BY <1>5
<1>7. \A T \in (SUBSET S) \ {{}}, v \in V : move[<<T, v>>] = step[<<v, s[Max(T)]>>]
  <2> HIDE DEF S
  <2> QED OBVIOUS
<1> HIDE DEF pick, move, S
<1>8. PICK f \in [SUBSET S -> V] : TakesOut(f, SUBSET S, first, move, pick)
  BY <1>2, <1>4, <1>6, TakingOutExists
<1>9. f[{}] = first /\ \A T \in (SUBSET S) \ {{}} : f[T] = step[<<f[T \ {Max(T)}], s[Max(T)]>>]
  <2>1. ASSUME NEW T \in (SUBSET S) \ {{}} PROVE f[T] = step[<<f[T \ {Max(T)}], s[Max(T)]>>]
    <3>1. f[T] = move[<<T, f[T \ {pick[T]}]>>]
      BY <1>8 DEF TakesOut
    <3>2. pick[T] = Max(T) /\ f[T \ {Max(T)}] \in V
      BY <1>4
    <3> QED BY <1>7, <3>1, <3>2
  <2> QED BY <1>8, <2>1 DEF TakesOut
<1>10. f = [T \in SUBSET S |-> IF T = {} THEN first ELSE step[<<f[T \ {Max(T)}], s[Max(T)]>>]]
  BY <1>9
<1> QED BY <1>10 DEF FoldDefined, FoldBody, S

-----------------------------------------------------------------------------
(* Paths and what is above them.                                            *)
LEMMA OrderIsOfPaths ==
    /\ Order \in Seq(Paths) /\ Len(Order) \in Nat /\ DOMAIN Order = 1 .. Len(Order)
    /\ \A i \in 1 .. Len(Order) : Order[i] \in Paths
    /\ \A i, j \in 1 .. Len(Order) : Order[i] = Order[j] => i = j
    /\ \A p \in Paths : \E i \in 1 .. Len(Order) : Order[i] = p
    /\ \A i \in 1 .. Len(Order) :
         ParentOf[Order[i]] = Absent \/ \E j \in 1 .. i - 1 : Order[j] = ParentOf[Order[i]]
    /\ \A p \in Paths : ParentOf[p] \in Paths \cup {Absent}
<1>1. Order \in Seq(Paths) /\ IsInjective(Order)
  BY ArchivesAssumption
<1>2. Len(Order) \in Nat /\ DOMAIN Order = 1 .. Len(Order)
  BY <1>1
<1>3. \A p \in Paths : \E i \in 1 .. Len(Order) : Order[i] = p
  BY <1>2 DEF Paths, Range
<1>4. \A i \in 1 .. Len(Order) : Order[i] \in Paths
  BY <1>1
<1>5. \A p \in Paths : ParentOf[p] \in Paths \cup {Absent}
  BY ArchivesAssumption
<1>6. \A i \in 1 .. Len(Order) :
         ParentOf[Order[i]] = Absent \/ \E j \in 1 .. i - 1 : Order[j] = ParentOf[Order[i]]
  BY <1>2, ArchivesAssumption
<1>7. \A i, j \in 1 .. Len(Order) : Order[i] = Order[j] => i = j
  BY <1>1, <1>2 DEF IsInjective
<1> QED BY <1>1, <1>2, <1>3, <1>4, <1>5, <1>6, <1>7

(* What goes from a directory to what it holds is true of every path.       *)
LEMMA FromAbove ==
    ASSUME NEW Good, \A p \in Paths : ParentOf[p] = Absent \/ ParentOf[p] \in Good => p \in Good
    PROVE  \A p \in Paths : p \in Good
<1> DEFINE N == Len(Order)
           Upper == {n \in 0 .. N : \A i \in 1 .. n : Order[i] \in Good}
<1>1. N \in Nat
  BY OrderIsOfPaths
<1>2. 0 \in Upper
  BY <1>1
<1>3. ASSUME NEW n \in 1 .. N, n - 1 \in Upper PROVE n \in Upper
  <2>1. Order[n] \in Paths
    BY OrderIsOfPaths
  <2>2. ParentOf[Order[n]] = Absent \/ \E j \in 1 .. n - 1 : Order[j] = ParentOf[Order[n]]
    BY OrderIsOfPaths
  <2>3. \A i \in 1 .. n - 1 : Order[i] \in Good
    BY <1>3
  <2>4. Order[n] \in Good
    BY <2>1, <2>2, <2>3
  <2>5. ASSUME NEW i \in 1 .. n PROVE Order[i] \in Good
    <3>1. i = n \/ i \in 1 .. n - 1
      BY <1>1
    <3> QED BY <2>3, <2>4, <3>1
  <2> QED BY <2>5
<1> HIDE DEF Upper, N
<1>4. N \in Upper
  BY <1>1, <1>2, <1>3, UpTo
<1>5. \A i \in 1 .. N : Order[i] \in Good
  BY <1>4 DEF Upper
<1> QED BY <1>5, OrderIsOfPaths DEF N

Climbs(f, D) ==
    \A p \in D : f[p] = IF ParentOf[p] = Absent THEN {} ELSE {ParentOf[p]} \cup f[ParentOf[p]]

LEMMA AboveOfIs ==
    /\ \A p \in Paths : AboveOf[p] \in SUBSET Paths
    /\ \A p \in Paths : AboveOf[p] = IF ParentOf[p] = Absent THEN {} ELSE {ParentOf[p]} \cup AboveOf[ParentOf[p]]
<1> DEFINE N == Len(Order)
           Upper(n) == {Order[i] : i \in 1 .. n}
           Good == {n \in 0 .. N : \E f \in [Upper(n) -> SUBSET Paths] : Climbs(f, Upper(n))}
<1>1. N \in Nat
  BY OrderIsOfPaths
<1>2. 0 \in Good
  <2> DEFINE f == [p \in {} |-> {}]
  <2>1. Upper(0) = {}
    OBVIOUS
  <2> HIDE DEF Upper
  <2>2. f \in [Upper(0) -> SUBSET Paths] /\ Climbs(f, Upper(0))
    BY <2>1 DEF Climbs
  <2> HIDE DEF f
  <2> QED BY <1>1, <2>2
<1>3. ASSUME NEW n \in 1 .. N, n - 1 \in Good PROVE n \in Good
  <2>1. PICK f \in [Upper(n - 1) -> SUBSET Paths] : Climbs(f, Upper(n - 1))
    BY <1>3
  <2> DEFINE x == Order[n]
             new == IF ParentOf[x] = Absent THEN {} ELSE {ParentOf[x]} \cup f[ParentOf[x]]
             g == [p \in Upper(n) |-> IF p = x THEN new ELSE f[p]]
  <2>2. x \in Paths /\ (ParentOf[x] = Absent \/ (ParentOf[x] \in Upper(n - 1) /\ ParentOf[x] \in Paths))
    BY OrderIsOfPaths
  <2>3. x \notin Upper(n - 1)
    <3>1. \A i \in 1 .. n - 1 : Order[i] # x
      BY <1>1, OrderIsOfPaths
    <3> QED BY <3>1
  <2>4. Upper(n) = Upper(n - 1) \cup {x}
    <3>1. 1 .. n = (1 .. n - 1) \cup {n}
      BY <1>1
    <3> QED BY <3>1
  <2>5. new \in SUBSET Paths
    BY <2>1, <2>2
  <2>6. \A p \in Upper(n - 1) : ParentOf[p] = Absent \/ ParentOf[p] \in Upper(n - 1)
    <3> SUFFICES ASSUME NEW i \in 1 .. n - 1
                 PROVE  ParentOf[Order[i]] = Absent \/ \E j \in 1 .. n - 1 : Order[j] = ParentOf[Order[i]]
      OBVIOUS
    <3>1. i \in 1 .. N /\ \A j \in 1 .. i - 1 : j \in 1 .. n - 1
      BY <1>1
    <3> QED BY <3>1, OrderIsOfPaths
  <2> HIDE DEF Upper
  <2>7. g \in [Upper(n) -> SUBSET Paths]
    <3> HIDE DEF new, x
    <3> QED BY <2>1, <2>4, <2>5
  <2>8. g[x] = new /\ \A p \in Upper(n - 1) : g[p] = f[p]
    <3> HIDE DEF new
    <3> QED BY <2>3, <2>4
  <2> HIDE DEF g
  <2>9. ASSUME NEW p \in Upper(n)
        PROVE  g[p] = IF ParentOf[p] = Absent THEN {} ELSE {ParentOf[p]} \cup g[ParentOf[p]]
    <3>1. CASE p = x
      BY <2>2, <2>8, <3>1
    <3>2. CASE p \in Upper(n - 1)
      <4>1. f[p] = IF ParentOf[p] = Absent THEN {} ELSE {ParentOf[p]} \cup f[ParentOf[p]]
        BY <2>1, <3>2 DEF Climbs
      <4> QED BY <2>6, <2>8, <3>2, <4>1
    <3> QED BY <2>4, <3>1, <3>2
  <2>10. Climbs(g, Upper(n))
    BY <2>9 DEF Climbs
  <2> QED BY <2>7, <2>10
<1>a. Upper(N) = Paths
  BY OrderIsOfPaths
<1> HIDE DEF Good, N
<1>4. N \in Good
  BY <1>1, <1>2, <1>3, UpTo
<1>5. PICK f \in [Paths -> SUBSET Paths] : Climbs(f, Paths)
  <2> HIDE DEF Upper
  <2>1. \E f \in [Upper(N) -> SUBSET Paths] : Climbs(f, Upper(N))
    BY <1>4 DEF Good
  <2> QED BY <1>a, <2>1
<1> DEFINE Body(h) == [p \in Paths |-> IF ParentOf[p] = Absent THEN {} ELSE {ParentOf[p]} \cup h[ParentOf[p]]]
<1>6. f = Body(f)
  BY <1>5 DEF Climbs
<1>7. AboveOf = CHOOSE h : h = Body(h)
  BY DEF AboveOf
<1>8. AboveOf = Body(AboveOf)
  <2> HIDE DEF Body
  <2> QED BY <1>6, <1>7
<1>9. \A p \in Paths : AboveOf[p] = IF ParentOf[p] = Absent THEN {} ELSE {ParentOf[p]} \cup AboveOf[ParentOf[p]]
  <2> DEFINE g == Body(AboveOf)
  <2>1. \A p \in Paths : g[p] = IF ParentOf[p] = Absent THEN {} ELSE {ParentOf[p]} \cup AboveOf[ParentOf[p]]
    OBVIOUS
  <2>2. AboveOf = g
    BY <1>8
  <2> HIDE DEF g
  <2> QED BY <2>1, <2>2
<1>10. \A p \in Paths : AboveOf[p] \in SUBSET Paths
  <2> DEFINE Safe == {p \in Paths : AboveOf[p] \in SUBSET Paths}
  <2>1. \A p \in Paths : ParentOf[p] = Absent \/ ParentOf[p] \in Safe => p \in Safe
    <3> SUFFICES ASSUME NEW p \in Paths, ParentOf[p] = Absent \/ ParentOf[p] \in Safe
                 PROVE  AboveOf[p] \in SUBSET Paths
      OBVIOUS
    <3>1. CASE ParentOf[p] = Absent
      BY <1>9, <3>1
    <3>2. CASE ParentOf[p] # Absent
      <4>1. AboveOf[p] = {ParentOf[p]} \cup AboveOf[ParentOf[p]] /\ ParentOf[p] \in Paths
        BY <1>9, <3>2, OrderIsOfPaths
      <4>2. AboveOf[ParentOf[p]] \in SUBSET Paths
        BY <3>2
      <4> QED BY <4>1, <4>2
    <3> QED BY <3>1, <3>2
  <2> HIDE DEF Safe
  <2>2. \A p \in Paths : p \in Safe
    BY <2>1, FromAbove
  <2> QED BY <2>2 DEF Safe
<1> QED BY <1>9, <1>10

(* What is above a path is in a line.                                       *)
LEMMA AboveIsALine ==
    /\ \A p \in Paths : \A q \in AboveOf[p] : q \in Paths /\ AboveOf[q] \subseteq AboveOf[p]
    /\ \A p \in Paths : \A q, r \in AboveOf[p] : q = r \/ q \in AboveOf[r] \/ r \in AboveOf[q]
<1> DEFINE Good == {p \in Paths : /\ \A q \in AboveOf[p] : AboveOf[q] \subseteq AboveOf[p]
                                  /\ \A q, r \in AboveOf[p] : q = r \/ q \in AboveOf[r] \/ r \in AboveOf[q]}
<1>1. ASSUME NEW p \in Paths, ParentOf[p] = Absent \/ ParentOf[p] \in Good PROVE p \in Good
  <2>1. CASE ParentOf[p] = Absent
    BY <2>1, AboveOfIs
  <2>2. CASE ParentOf[p] # Absent
    <3>1. ParentOf[p] \in Good /\ AboveOf[p] = {ParentOf[p]} \cup AboveOf[ParentOf[p]]
      BY <1>1, <2>2, AboveOfIs
    <3> QED BY <3>1
  <2> QED BY <2>1, <2>2
<1> HIDE DEF Good
<1>2. \A p \in Paths : p \in Good
  BY <1>1, FromAbove
<1> QED BY <1>2, AboveOfIs DEF Good

(* What is above a selected path is selected, or above one of the           *)
(* selection.                                                               *)
LEMMA SelectedAbove ==
    ASSUME NEW selected \in SUBSET Paths, NEW p \in Paths, pathSelected(p, selected), NEW q \in AboveOf[p]
    PROVE  pathSelected(q, selected) \/ \E r \in selected : q \in AboveOf[r]
<1>1. q \in Paths
  BY AboveIsALine
<1>2. CASE selected = {}
  BY <1>2 DEF pathSelected
<1>3. CASE \E r \in selected : p \in Under(r)
  <2>1. PICK r \in selected : p = r \/ r \in AboveOf[p]
    BY <1>3 DEF Under
  <2>2. CASE p = r
    BY <2>2
  <2>3. CASE r \in AboveOf[p]
    <3>1. q = r \/ q \in AboveOf[r] \/ r \in AboveOf[q]
      BY <2>3, AboveIsALine
    <3> QED BY <1>1, <3>1 DEF pathSelected, Under
  <2> QED BY <2>1, <2>2, <2>3
<1> QED BY <1>2, <1>3 DEF pathSelected

-----------------------------------------------------------------------------
(* readDirNames: names of entries of the directory, each once.              *)
LEMMA NamesAre ==
    ASSUME NEW d
    PROVE  /\ Names(d) \in Seq(Paths)
           /\ \A i \in 1 .. Len(Names(d)) : ParentOf[Names(d)[i]] = d
           /\ \A i, j \in 1 .. Len(Names(d)) : Names(d)[i] = Names(d)[j] => i = j
<1> DEFINE N == Len(Order)
           Shown(q) == ParentOf[q] = d /\ source[q] # Absent
           Body(f) == [T \in SUBSET (1 .. N) |->
                         IF T = {} THEN <<>>
                         ELSE IF Shown(Order[Max(T)]) THEN Append(f[T \ {Max(T)}], Order[Max(T)])
                                                      ELSE f[T \ {Max(T)}]]
           fold == CHOOSE f : f = Body(f)
           step == [e \in Seq(Paths) \X Paths |-> IF Shown(e[2]) THEN Append(e[1], e[2]) ELSE e[1]]
<1>1. Names(d) = fold[1 .. N]
  BY OrderIsOfPaths DEF Names, FoldLeft, MapThenFoldSet
<1>2. N \in Nat /\ Order \in Seq(Paths) /\ \A i \in 1 .. N : Order[i] \in Paths
  BY OrderIsOfPaths
<1> HIDE DEF Shown
<1>3. /\ step \in [Seq(Paths) \X Paths -> Seq(Paths)]
      /\ \A s \in Seq(Paths), q \in Paths : step[<<s, q>>] = IF Shown(q) THEN Append(s, q) ELSE s
  OBVIOUS
<1> HIDE DEF step
<1>4. <<>> \in Seq(Paths)
  OBVIOUS
<1>5. PICK f \in [SUBSET (1 .. N) -> Seq(Paths)] : f = FoldBody(f, Order, <<>>, step)
  <2> DEFINE V == Seq(Paths)
  <2>1. step \in FoldSteps(V, Paths) /\ <<>> \in V
    BY <1>3 DEF FoldSteps
  <2>a. Order \in Seq(Paths)
    BY <1>2
  <2> HIDE DEF V
  <2>2. FoldDefined(Order, V, <<>>, step)
    BY <2>1, <2>a, FoldExists
  <2> QED BY <2>2 DEF FoldDefined, V
<1>6. f = Body(f)
  <2> DEFINE g == FoldBody(f, Order, <<>>, step)
             h == Body(f)
  <2>1. ASSUME NEW T \in SUBSET (1 .. N) PROVE g[T] = h[T]
    <3>1. CASE T = {}
      BY <3>1 DEF FoldBody
    <3>2. CASE T # {}
      <4>1. Max(T) \in 1 .. N
        BY <1>2, <3>2, LastPosition
      <4>2. g[T] = step[<<f[T \ {Max(T)}], Order[Max(T)]>>]
        BY <3>2 DEF FoldBody
      <4>3. Order[Max(T)] \in Paths /\ f[T \ {Max(T)}] \in Seq(Paths)
        BY <1>2, <1>5, <4>1
      <4> QED BY <1>3, <3>2, <4>2, <4>3
    <3> QED BY <3>1, <3>2
  <2>2. g = [T \in SUBSET (1 .. N) |-> g[T]] /\ h = [T \in SUBSET (1 .. N) |-> h[T]]
    BY DEF FoldBody
  <2> HIDE DEF g, h
  <2>3. g = h
    BY <2>1, <2>2
  <2> QED BY <1>5, <2>3 DEF g, h
<1>7. fold = Body(fold)
  <2> HIDE DEF Body
  <2> QED BY <1>6
<1> HIDE DEF fold
<1>8. /\ fold[{}] = <<>>
      /\ \A T \in (SUBSET (1 .. N)) \ {{}} :
           fold[T] = IF Shown(Order[Max(T)]) THEN Append(fold[T \ {Max(T)}], Order[Max(T)]) ELSE fold[T \ {Max(T)}]
  <2> DEFINE g == Body(fold)
  <2>1. /\ g[{}] = <<>>
        /\ \A T \in (SUBSET (1 .. N)) \ {{}} :
             g[T] = IF Shown(Order[Max(T)]) THEN Append(fold[T \ {Max(T)}], Order[Max(T)]) ELSE fold[T \ {Max(T)}]
    OBVIOUS
  <2>2. fold = g
    BY <1>7
  <2> HIDE DEF g
  <2> QED BY <2>1, <2>2
<1>9. ASSUME NEW n \in 1 .. N
      PROVE  fold[1 .. n] = IF Shown(Order[n]) THEN Append(fold[1 .. n - 1], Order[n]) ELSE fold[1 .. n - 1]
  <2>1. 1 .. n \in (SUBSET (1 .. N)) \ {{}}
    BY <1>2
  <2>2. Max(1 .. n) = n /\ (1 .. n) \ {n} = 1 .. n - 1
    BY <1>2, LastPosition
  <2> QED BY <1>8, <2>1, <2>2
<1> DEFINE Fine(n, s) == /\ s \in Seq(Paths)
                         /\ \A i \in 1 .. Len(s) : ParentOf[s[i]] = d /\ \E k \in 1 .. n : s[i] = Order[k]
                         /\ \A i, j \in 1 .. Len(s) : s[i] = s[j] => i = j
           Good == {n \in 0 .. N : Fine(n, fold[1 .. n])}
<1>10. 0 \in Good
  <2>1. 1 .. 0 = {}
    OBVIOUS
  <2>2. fold[1 .. 0] = <<>>
    BY <1>8, <2>1
  <2>3. Fine(0, <<>>)
    OBVIOUS
  <2>4. Fine(0, fold[1 .. 0])
    BY <2>2, <2>3
  <2>5. 0 \in 0 .. N
    BY <1>2
  <2> HIDE DEF Fine
  <2> QED BY <2>4, <2>5
<1>11. ASSUME NEW n \in 1 .. N, n - 1 \in Good PROVE n \in Good
  <2> DEFINE s == fold[1 .. n - 1]
             t == fold[1 .. n]
             x == Order[n]
  <2>1. Fine(n - 1, s)
    BY <1>11
  <2>2. t = IF Shown(x) THEN Append(s, x) ELSE s
    BY <1>9
  <2>3. x \in Paths
    BY <1>2
  <2> HIDE DEF s, t
  <2>4. \A i \in 1 .. Len(s) : s[i] # x
    <3> SUFFICES ASSUME NEW i \in 1 .. Len(s) PROVE s[i] # x
      OBVIOUS
    <3>1. PICK k \in 1 .. n - 1 : s[i] = Order[k]
      BY <2>1
    <3>2. k \in 1 .. N /\ k # n
      BY <1>2
    <3> QED BY <3>1, <3>2, OrderIsOfPaths
  <2> HIDE DEF x
  <2>5. CASE Shown(x)
    <3>1. t = Append(s, x) /\ ParentOf[x] = d
      BY <2>2, <2>5 DEF Shown
    <3>2. t \in Seq(Paths) /\ Len(t) = Len(s) + 1 /\ t[Len(s) + 1] = x /\ \A i \in 1 .. Len(s) : t[i] = s[i]
      BY <2>1, <2>3, <3>1
    <3>3. Len(s) \in Nat /\ \A i \in 1 .. Len(t) : i \in 1 .. Len(s) \/ i = Len(s) + 1
      BY <2>1, <3>2
    <3>4. ASSUME NEW i \in 1 .. Len(t) PROVE ParentOf[t[i]] = d /\ \E k \in 1 .. n : t[i] = Order[k]
      <4>1. CASE i \in 1 .. Len(s)
        <5>1. PICK k \in 1 .. n - 1 : s[i] = Order[k]
          BY <2>1, <4>1
        <5>2. k \in 1 .. n
          BY <1>2
        <5> QED BY <2>1, <3>2, <4>1, <5>1, <5>2
      <4>2. CASE i = Len(s) + 1
        BY <1>2, <3>1, <3>2, <4>2 DEF x
      <4> QED BY <3>3, <4>1, <4>2
    <3>5. ASSUME NEW i \in 1 .. Len(t), NEW j \in 1 .. Len(t), t[i] = t[j] PROVE i = j
      BY <2>1, <2>4, <3>2, <3>3, <3>5
    <3>6. Fine(n, t)
      BY <3>2, <3>4, <3>5
    <3> QED BY <3>6 DEF t
  <2>6. CASE ~Shown(x)
    <3>1. t = s
      BY <2>2, <2>6
    <3>2. \A k \in 1 .. n - 1 : k \in 1 .. n
      BY <1>2
    <3>3. Fine(n, s)
      BY <2>1, <3>2
    <3>4. Fine(n, t)
      BY <3>1, <3>3
    <3> QED BY <3>4 DEF t
  <2> QED BY <2>5, <2>6
<1>a. N \in Nat
  BY <1>2
<1> HIDE DEF Good, N
<1>12. N \in Good
  BY <1>a, <1>10, <1>11, UpTo
<1>13. Fine(N, fold[1 .. N])
  BY <1>12 DEF Good
<1> QED BY <1>1, <1>13

-----------------------------------------------------------------------------
(* Extracting an archive.                                                   *)
Items == [path : Paths, entry : Entries]
Rooted(m) == \A p \in Paths : m[p] # Absent /\ ParentOf[p] # Absent => IsDirIn(m, ParentOf[p])

LEMMA EntryKinds ==
    /\ \A e \in Entries : e # Absent /\ (e.kind = "dir" \/ e.kind = "file") /\ (e.kind = "dir" => e = Dir)
    /\ Dir \in Entries /\ Dir.kind = "dir"
<1>1. Absent \notin Entries
  BY ArchivesAssumption
<1> QED BY <1>1 DEF Entries, Dir

LEMMA RootedAbove ==
    ASSUME NEW m \in Trees, Rooted(m), NEW p \in Paths, m[p] # Absent, NEW q \in AboveOf[p]
    PROVE  q \in Paths /\ IsDirIn(m, q) /\ m[q] = Dir
<1> DEFINE Good == {x \in Paths : m[x] # Absent => \A y \in AboveOf[x] : IsDirIn(m, y)}
<1>1. ASSUME NEW x \in Paths, ParentOf[x] = Absent \/ ParentOf[x] \in Good PROVE x \in Good
  <2>1. CASE ParentOf[x] = Absent
    BY <2>1, AboveOfIs
  <2>2. CASE ParentOf[x] # Absent /\ m[x] # Absent
    <3>1. AboveOf[x] = {ParentOf[x]} \cup AboveOf[ParentOf[x]]
      BY <2>2, AboveOfIs
    <3>2. IsDirIn(m, ParentOf[x]) /\ m[ParentOf[x]] # Absent
      BY <2>2 DEF Rooted, IsDirIn
    <3>3. \A y \in AboveOf[ParentOf[x]] : IsDirIn(m, y)
      BY <1>1, <2>2, <3>2
    <3> QED BY <3>1, <3>2, <3>3
  <2> QED BY <2>1, <2>2
<1> HIDE DEF Good
<1>2. p \in Good
  BY <1>1, FromAbove
<1>3. q \in Paths /\ IsDirIn(m, q)
  BY <1>2, AboveIsALine DEF Good
<1>4. m[q] \in Entries /\ m[q].kind = "dir"
  BY <1>3 DEF IsDirIn, Trees
<1> QED BY <1>3, <1>4, EntryKinds

(* What a tree holds and a manifest lists is of one kind.                   *)
Agree(t, m) == \A p \in Paths : t[p] # Absent /\ m[p] # Absent => (IsDirIn(t, p) <=> IsDirIn(m, p))

LEMMA ExtractTyped ==
    ASSUME NEW t \in Trees \cup {Absent}, NEW item \in Items
    PROVE  Extract(t, item) \in Trees \cup {Absent}
<1> DEFINE p == item.path
           ps == AboveOf[p] \cup IF item.entry.kind = "dir" THEN {p} ELSE {}
           ready == IF t = Absent THEN Absent ELSE MkdirAll(t, ps)
<1>1. p \in Paths /\ item.entry \in Entries
  BY DEF Items
<1>2. ready \in Trees \cup {Absent}
  <2>1. CASE t \in Trees
    <3> HIDE DEF ps
    <3> QED BY <2>1, EntryKinds DEF MkdirAll, Trees
  <2>2. CASE t = Absent
    BY <2>2
  <2> QED BY <2>1, <2>2
<1>3. Extract(t, item) = IF ready = Absent THEN Absent
                         ELSE IF item.entry.kind = "dir" THEN ready
                         ELSE IF IsDirIn(ready, p) THEN Absent
                         ELSE [ready EXCEPT ![p] = item.entry]
  BY DEF Extract
<1> HIDE DEF ready, p
<1> QED BY <1>1, <1>2, <1>3 DEF Trees

(* An entry whose directories are directories of the tree, or not in it, is *)
(* extracted together with them.                                            *)
LEMMA ExtractIs ==
    ASSUME NEW m \in Trees, Rooted(m), NEW t \in Trees, Agree(t, m),
           NEW item \in Items, m[item.path] = item.entry
    PROVE  /\ Extract(t, item) \in Trees
           /\ \A q \in Paths : Extract(t, item)[q] =
                IF q = item.path \/ q \in AboveOf[item.path] THEN m[q] ELSE t[q]
<1> DEFINE p == item.path
           e == item.entry
           ps == AboveOf[p] \cup IF e.kind = "dir" THEN {p} ELSE {}
           ready == [q \in Paths |-> IF q \in ps THEN Dir ELSE t[q]]
<1>1. p \in Paths /\ e \in Entries /\ m[p] = e /\ e # Absent /\ (e.kind = "dir" \/ e.kind = "file")
  BY EntryKinds DEF Items
<1>2. ASSUME NEW q \in ps PROVE q \in Paths /\ IsDirIn(m, q) /\ m[q] = Dir
  <2>1. CASE q \in AboveOf[p]
    BY <1>1, <2>1, RootedAbove
  <2>2. CASE q = p /\ e.kind = "dir"
    BY <1>1, <2>2, EntryKinds DEF IsDirIn
  <2> QED BY <2>1, <2>2
<1>3. ASSUME NEW q \in ps PROVE ~(t[q] # Absent /\ t[q].kind = "file")
  <2>1. q \in Paths /\ IsDirIn(m, q) /\ m[q] # Absent
    BY <1>2 DEF IsDirIn
  <2>2. t[q] # Absent => IsDirIn(t, q)
    BY <2>1 DEF Agree
  <2> QED BY <2>2 DEF IsDirIn
<1>4. t # Absent /\ Absent \notin Trees
  BY ArchivesAssumption
<1>5. MkdirAll(t, ps) = ready
  <2> HIDE DEF ps
  <2> QED BY <1>3 DEF MkdirAll
<1>6. ready \in Trees /\ ready # Absent
  <2>1. ready \in Trees
    <3> HIDE DEF ps
    <3> QED BY EntryKinds DEF Trees
  <2> QED BY <1>4, <2>1
<1>7. Extract(t, item) = IF e.kind = "dir" THEN ready
                         ELSE IF IsDirIn(ready, p) THEN Absent
                         ELSE [ready EXCEPT ![p] = e]
  <2> HIDE DEF ready
  <2> QED BY <1>4, <1>5, <1>6 DEF Extract
<1>8. \A q \in Paths : ready[q] = IF q \in ps THEN m[q] ELSE t[q]
  <2> HIDE DEF ps
  <2> QED BY <1>2
<1>9. CASE e.kind = "dir"
  <2>1. Extract(t, item) = ready
    BY <1>7, <1>9
  <2>2. \A q \in Paths : q \in ps <=> q = p \/ q \in AboveOf[p]
    BY <1>9
  <2> HIDE DEF ready, ps
  <2> QED BY <1>6, <1>8, <2>1, <2>2
<1>10. CASE e.kind # "dir"
  <2>1. ps = AboveOf[p] /\ ~IsDirIn(m, p)
    BY <1>1, <1>10 DEF IsDirIn
  <2>2. p \notin ps
    BY <1>2, <2>1
  <2>3. ready[p] = t[p]
    BY <1>1, <1>8, <2>2
  <2>4. ~IsDirIn(ready, p)
    <3>1. ~IsDirIn(t, p)
      BY <1>1, <2>1 DEF Agree, IsDirIn
    <3> HIDE DEF ready
    <3> QED BY <2>3, <3>1 DEF IsDirIn
  <2>5. Extract(t, item) = [ready EXCEPT ![p] = e]
    BY <1>7, <1>10, <2>4
  <2> HIDE DEF ready, ps
  <2>6. [ready EXCEPT ![p] = e] \in Trees
    BY <1>1, <1>6 DEF Trees
  <2>7. \A q \in Paths : [ready EXCEPT ![p] = e][q] = IF q = p THEN m[q] ELSE ready[q]
    BY <1>1, <1>6 DEF Trees
  <2> QED BY <1>8, <2>1, <2>5, <2>6, <2>7
<1> QED BY <1>9, <1>10

LEMMA ExtractSelectedTyped ==
    ASSUME NEW t \in Trees \cup {Absent}, NEW item \in Items, NEW selected
    PROVE  ExtractSelected(t, item, selected) \in Trees \cup {Absent}
  BY ExtractTyped DEF ExtractSelected

(* The loop over the entries of an archive.                                 *)
Extracted(tree, archive, selected) ==
    FoldLeft(LAMBDA t, item : ExtractSelected(t, item, selected), tree, archive)

LEMMA ExtractedIs ==
    ASSUME NEW tree \in Trees, NEW archive \in Seq(Items), NEW selected
    PROVE  \E f : /\ f[0] = tree /\ f[Len(archive)] = Extracted(tree, archive, selected)
                  /\ \A i \in 1 .. Len(archive) : f[i] = ExtractSelected(f[i - 1], archive[i], selected)
<1> DEFINE N == Len(archive)
           V == Trees \cup {Absent}
           Next(t, item) == ExtractSelected(t, item, selected)
           Body(f) == [T \in SUBSET (1 .. N) |-> IF T = {} THEN tree ELSE Next(f[T \ {Max(T)}], archive[Max(T)])]
           fold == CHOOSE f : f = Body(f)
           step == [e \in V \X Items |-> Next(e[1], e[2])]
<1>0. DOMAIN archive = 1 .. N
  OBVIOUS
<1>1. Extracted(tree, archive, selected) = fold[1 .. N]
  BY <1>0 DEF Extracted, FoldLeft, MapThenFoldSet
<1>2. N \in Nat /\ \A i \in 1 .. N : archive[i] \in Items
  OBVIOUS
<1>3. \A t \in V, item \in Items : Next(t, item) \in V
  BY ExtractSelectedTyped
<1> HIDE DEF Next, V
<1>4. /\ step \in [V \X Items -> V]
      /\ \A t \in V, item \in Items : step[<<t, item>>] = Next(t, item)
  BY <1>3
<1> HIDE DEF step
<1>5. PICK f \in [SUBSET (1 .. N) -> V] : f = FoldBody(f, archive, tree, step)
  <2>1. step \in FoldSteps(V, Items) /\ tree \in V
    BY <1>4 DEF FoldSteps, V
  <2>2. FoldDefined(archive, V, tree, step)
    BY <2>1, FoldExists
  <2> QED BY <2>2 DEF FoldDefined
<1>6. f = Body(f)
  <2> DEFINE g == FoldBody(f, archive, tree, step)
             h == Body(f)
  <2>1. ASSUME NEW T \in SUBSET (1 .. N) PROVE g[T] = h[T]
    <3>1. CASE T = {}
      BY <3>1 DEF FoldBody
    <3>2. CASE T # {}
      <4>1. Max(T) \in 1 .. N
        BY <1>2, <3>2, LastPosition
      <4>2. g[T] = step[<<f[T \ {Max(T)}], archive[Max(T)]>>]
        BY <3>2 DEF FoldBody
      <4>3. archive[Max(T)] \in Items /\ f[T \ {Max(T)}] \in V
        BY <1>2, <1>5, <4>1
      <4>4. h[T] = Next(f[T \ {Max(T)}], archive[Max(T)])
        BY <3>2
      <4> HIDE DEF g, h
      <4> QED BY <1>4, <4>2, <4>3, <4>4
    <3> QED BY <3>1, <3>2
  <2>2. g = [T \in SUBSET (1 .. N) |-> g[T]] /\ h = [T \in SUBSET (1 .. N) |-> h[T]]
    BY DEF FoldBody
  <2> HIDE DEF g, h
  <2>3. g = h
    BY <2>1, <2>2
  <2> QED BY <1>5, <2>3 DEF g, h
<1>7. fold = Body(fold)
  <2> HIDE DEF Body
  <2> QED BY <1>6
<1> HIDE DEF fold
<1>8. /\ fold[{}] = tree
      /\ \A T \in (SUBSET (1 .. N)) \ {{}} : fold[T] = Next(fold[T \ {Max(T)}], archive[Max(T)])
  <2> DEFINE g == Body(fold)
  <2>1. /\ g[{}] = tree
        /\ \A T \in (SUBSET (1 .. N)) \ {{}} : g[T] = Next(fold[T \ {Max(T)}], archive[Max(T)])
    OBVIOUS
  <2>2. fold = g
    BY <1>7
  <2> HIDE DEF g
  <2> QED BY <2>1, <2>2
<1> DEFINE k == [i \in 0 .. N |-> fold[1 .. i]]
<1>9. k[0] = tree /\ k[N] = fold[1 .. N]
  <2>1. 1 .. 0 = {} /\ 0 \in 0 .. N /\ N \in 0 .. N
    BY <1>2
  <2> QED BY <1>8, <2>1
<1>10. ASSUME NEW n \in 1 .. N PROVE k[n] = Next(k[n - 1], archive[n])
  <2>1. 1 .. n \in (SUBSET (1 .. N)) \ {{}} /\ n \in 0 .. N /\ n - 1 \in 0 .. N
    BY <1>2
  <2>2. Max(1 .. n) = n /\ (1 .. n) \ {n} = 1 .. n - 1
    BY <1>2, LastPosition
  <2>3. fold[1 .. n] = Next(fold[1 .. n - 1], archive[n])
    BY <1>8, <2>1, <2>2
  <2> QED BY <2>1, <2>3
<1> HIDE DEF k
<1> QED BY <1>1, <1>9, <1>10 DEF Next

(* Extracting entries of a manifest over a tree that agrees with it.        *)
Selectable(p, selected) == pathSelected(p, selected) \/ \E r \in selected : p \in AboveOf[r]

LEMMA Extraction ==
    ASSUME NEW m \in Trees, Rooted(m), NEW tree \in Trees, Agree(tree, m),
           NEW archive \in Seq(Items), \A i \in 1 .. Len(archive) : m[archive[i].path] = archive[i].entry,
           NEW selected \in SUBSET Paths
    PROVE  /\ Extracted(tree, archive, selected) \in Trees
           /\ \A i \in 1 .. Len(archive) : pathSelected(archive[i].path, selected) =>
                Extracted(tree, archive, selected)[archive[i].path] = m[archive[i].path]
           /\ \A p \in Paths :
                /\ \/ Extracted(tree, archive, selected)[p] = tree[p]
                   \/ m[p] # Absent /\ Extracted(tree, archive, selected)[p] = m[p]
                /\ tree[p] = Absent /\ Extracted(tree, archive, selected)[p] # Absent =>
                     Selectable(p, selected)
<1> DEFINE N == Len(archive)
           Fine(n, t) ==
               /\ t \in Trees
               /\ \A i \in 1 .. n : pathSelected(archive[i].path, selected) =>
                    t[archive[i].path] = m[archive[i].path]
               /\ \A p \in Paths :
                    /\ t[p] = tree[p] \/ (m[p] # Absent /\ t[p] = m[p])
                    /\ tree[p] = Absent /\ t[p] # Absent => Selectable(p, selected)
<1>1. PICK f : /\ f[0] = tree /\ f[N] = Extracted(tree, archive, selected)
               /\ \A i \in 1 .. N : f[i] = ExtractSelected(f[i - 1], archive[i], selected)
  BY ExtractedIs
<1>2. N \in Nat /\ \A i \in 1 .. N : archive[i] \in Items /\ m[archive[i].path] = archive[i].entry
  OBVIOUS
<1> DEFINE Good == {n \in 0 .. N : Fine(n, f[n])}
<1> HIDE DEF N
<1>3. 0 \in Good
  BY <1>1, <1>2
<1>4. ASSUME NEW n \in 1 .. N, n - 1 \in Good PROVE n \in Good
  <2> DEFINE t == f[n - 1]
             u == f[n]
             item == archive[n]
             x == item.path
  <2>1. Fine(n - 1, t) /\ u = ExtractSelected(t, item, selected)
    BY <1>1, <1>4
  <2>2. item \in Items /\ m[x] = item.entry
    BY <1>2
  <2>3. \A i \in 1 .. n : i \in 1 .. n - 1 \/ i = n
    BY <1>2
  <2> HIDE DEF t, u, item, x
  <2>4. CASE ~pathSelected(x, selected)
    <3>1. u = t
      BY <2>1, <2>4 DEF ExtractSelected, x
    <3>2. Fine(n, u)
      BY <2>1, <2>3, <2>4, <3>1 DEF x, item
    <3> QED BY <3>2 DEF u
  <2>5. CASE pathSelected(x, selected)
    <3>1. u = Extract(t, item)
      BY <2>1, <2>5 DEF ExtractSelected, x
    <3>2. Agree(t, m)
      <4> SUFFICES ASSUME NEW p \in Paths, t[p] # Absent, m[p] # Absent PROVE IsDirIn(t, p) <=> IsDirIn(m, p)
        BY DEF Agree
      <4>1. t[p] = tree[p] \/ t[p] = m[p]
        BY <2>1
      <4> QED BY <4>1 DEF Agree, IsDirIn
    <3>3. x \in Paths /\ m[x] \in Entries /\ m[x] # Absent
      BY <2>2, EntryKinds DEF Items, x
    <3>4. /\ u \in Trees
          /\ \A q \in Paths : u[q] = IF q = x \/ q \in AboveOf[x] THEN m[q] ELSE t[q]
      BY <2>1, <2>2, <3>1, <3>2, ExtractIs DEF x
    <3>5. ASSUME NEW q \in Paths, q = x \/ q \in AboveOf[x]
          PROVE  m[q] # Absent /\ u[q] = m[q] /\ Selectable(q, selected)
      <4>1. u[q] = m[q]
        BY <3>4, <3>5
      <4>2. m[q] # Absent
        BY <3>3, <3>5, RootedAbove DEF IsDirIn
      <4>3. Selectable(q, selected)
        BY <2>5, <3>3, <3>5, SelectedAbove DEF Selectable
      <4> QED BY <4>1, <4>2, <4>3
    <3>6. \A q \in Paths : ~(q = x \/ q \in AboveOf[x]) => u[q] = t[q]
      BY <3>4
    <3>7. ASSUME NEW i \in 1 .. n, pathSelected(archive[i].path, selected)
          PROVE  u[archive[i].path] = m[archive[i].path]
      <4>1. archive[i].path \in Paths
        <5>1. i \in 1 .. N
          BY <1>2
        <5> QED BY <1>2, <5>1 DEF Items
      <4>2. CASE i = n
        <5>1. archive[i].path = x
          BY <4>2 DEF x, item
        <5> QED BY <3>3, <3>5, <5>1
      <4>3. CASE i \in 1 .. n - 1
        <5>1. t[archive[i].path] = m[archive[i].path]
          BY <2>1, <3>7, <4>3
        <5> QED BY <3>5, <3>6, <4>1, <5>1
      <4> QED BY <2>3, <4>2, <4>3
    <3>8. ASSUME NEW p \in Paths
          PROVE  /\ u[p] = tree[p] \/ (m[p] # Absent /\ u[p] = m[p])
                 /\ tree[p] = Absent /\ u[p] # Absent => Selectable(p, selected)
      <4>1. CASE p = x \/ p \in AboveOf[x]
        BY <3>5, <4>1
      <4>2. CASE ~(p = x \/ p \in AboveOf[x])
        <5>1. u[p] = t[p]
          BY <3>6, <4>2
        <5> QED BY <2>1, <5>1
      <4> QED BY <4>1, <4>2
    <3>9. Fine(n, u)
      BY <3>4, <3>7, <3>8
    <3> QED BY <3>9 DEF u
  <2> QED BY <2>4, <2>5
<1> HIDE DEF Good
<1>a. N \in Nat
  BY <1>2
<1>5. N \in Good
  BY <1>a, <1>3, <1>4, UpTo
<1>6. Fine(N, f[N])
  BY <1>5 DEF Good
<1>7. Fine(N, Extracted(tree, archive, selected))
  BY <1>1, <1>6
<1> QED BY <1>7 DEF N

-----------------------------------------------------------------------------
(* An archive holds entries as the manifest has them, those of some paths   *)
(* all.                                                                     *)
Holds(archive, m, paths) ==
    /\ \A i \in 1 .. Len(archive) : m[archive[i].path] = archive[i].entry
    /\ \A p \in paths : \E i \in 1 .. Len(archive) : archive[i].path = p
ChangedOf(base, m) == {p \in index(m) : changedSince(base, p, m[p])}

Backups == [archive : Seq(Items), manifest : Trees, torn : SUBSET Paths, short : BOOLEAN,
            deletions : SUBSET Paths]

TornFiles(m, torn) == \A p \in torn : m[p] # Absent /\ m[p].kind = "file"

(* What was torn in the full backup is not as its manifest has it any more. *)
Replaced(base, m) == \A p \in base.torn : m[p] # base.manifest[p]

IsFull(b) == /\ b \in Backups /\ Rooted(b.manifest) /\ TornFiles(b.manifest, b.torn)
             /\ Holds(b.archive, b.manifest, index(b.manifest)) /\ b.deletions = {}
IsDiffOn(b, base) == /\ b \in Backups /\ Rooted(b.manifest) /\ TornFiles(b.manifest, b.torn)
                     /\ Holds(b.archive, b.manifest, ChangedOf(base.manifest, b.manifest))
                     /\ \A p \in b.torn : \E i \in 1 .. Len(b.archive) : b.archive[i].path = p
                     /\ b.deletions = index(base.manifest) \ index(b.manifest)
                     /\ Replaced(base, b.manifest) /\ ~b.short

(* The tree an archive holds.                                               *)
Contents(b) == [p \in Paths |-> Stored(b, p)]

LEMMA ContentsAre ==
    ASSUME NEW b \in Backups, Rooted(b.manifest), TornFiles(b.manifest, b.torn),
           \A i \in 1 .. Len(b.archive) : b.manifest[b.archive[i].path] = b.archive[i].entry
    PROVE  /\ Contents(b) \in Trees /\ Rooted(Contents(b))
           /\ \A p \in Paths :
                /\ Contents(b)[p] = Stored(b, p)
                /\ p \notin b.torn => Contents(b)[p] = b.manifest[p]
                /\ Contents(b)[p] = Absent <=> b.manifest[p] = Absent
                /\ b.manifest[p] # Absent => Contents(b)[p].kind = b.manifest[p].kind
           /\ EntriesRead(b) \in Seq(Items) /\ Len(EntriesRead(b)) = Len(b.archive)
           /\ \A i \in 1 .. Len(EntriesRead(b)) :
                EntriesRead(b)[i].path = b.archive[i].path /\ Contents(b)[EntriesRead(b)[i].path] = EntriesRead(b)[i].entry
<1> DEFINE m == Contents(b)
<1>1. b.archive \in Seq(Items) /\ b.manifest \in Trees /\ b.torn \in SUBSET Paths
  BY DEF Backups
<1>2. Torn \in Entries /\ Torn # Absent /\ Torn.kind = "file"
  <2>1. Torn \in Entries /\ Torn.kind = "file"
    BY DEF Torn, File, Entries
  <2> QED BY <2>1, EntryKinds
<1>3. \A p \in Paths : m[p] = IF p \in b.torn THEN Torn ELSE b.manifest[p]
  BY DEF Stored, Contents
<1>4. \A p \in Paths : m[p] = Stored(b, p)
  BY DEF Contents
<1>5. m \in Trees
  <2>1. \A p \in Paths : m[p] \in Entries \cup {Absent}
    BY <1>1, <1>2, <1>3 DEF Trees
  <2>2. m = [p \in Paths |-> m[p]]
    BY DEF Contents
  <2> HIDE DEF m
  <2> QED BY <2>1, <2>2 DEF Trees
<1> HIDE DEF m
<1>6. ASSUME NEW p \in Paths
      PROVE  /\ p \notin b.torn => m[p] = b.manifest[p]
             /\ m[p] = Absent <=> b.manifest[p] = Absent
             /\ b.manifest[p] # Absent => m[p].kind = b.manifest[p].kind
  <2>1. CASE p \in b.torn
    BY <1>2, <1>3, <2>1 DEF TornFiles
  <2>2. CASE p \notin b.torn
    BY <1>3, <2>2
  <2> QED BY <2>1, <2>2
<1>7. Rooted(m)
  <2> SUFFICES ASSUME NEW p \in Paths, m[p] # Absent, ParentOf[p] # Absent PROVE IsDirIn(m, ParentOf[p])
    BY DEF Rooted
  <2>1. b.manifest[p] # Absent
    BY <1>6
  <2>2. IsDirIn(b.manifest, ParentOf[p])
    BY <2>1 DEF Rooted
  <2>3. ParentOf[p] \in Paths
    BY OrderIsOfPaths
  <2> QED BY <1>6, <2>2, <2>3 DEF IsDirIn
<1> DEFINE R == EntriesRead(b)
           N == Len(b.archive)
<1>8. N \in Nat /\ DOMAIN b.archive = 1 .. N /\ \A i \in 1 .. N : b.archive[i] \in Items
  BY <1>1
<1>9. /\ DOMAIN R = 1 .. N
      /\ \A i \in 1 .. N : R[i] = [path |-> b.archive[i].path,
                                  entry |-> IF b.archive[i].path \in b.torn THEN Torn ELSE b.archive[i].entry]
      /\ R = [i \in 1 .. N |-> R[i]]
  BY <1>8 DEF EntriesRead
<1> HIDE DEF R
<1>10. ASSUME NEW i \in 1 .. N
       PROVE  R[i] \in Items /\ R[i].path = b.archive[i].path /\ m[R[i].path] = R[i].entry
  <2>1. b.archive[i].path \in Paths /\ b.archive[i].entry \in Entries
    BY <1>8 DEF Items
  <2> DEFINE e == IF b.archive[i].path \in b.torn THEN Torn ELSE b.archive[i].entry
  <2>a. R[i] = [path |-> b.archive[i].path, entry |-> e]
    BY <1>9
  <2>b. e \in Entries
    BY <1>2, <2>1
  <2> HIDE DEF e
  <2>c. R[i].path = b.archive[i].path /\ R[i].entry = e
    BY <2>a
  <2>2. /\ R[i].path = b.archive[i].path
        /\ R[i].entry = IF b.archive[i].path \in b.torn THEN Torn ELSE b.archive[i].entry
    BY <2>c DEF e
  <2>3. R[i] \in Items
    BY <2>1, <2>a, <2>b DEF Items
  <2>4. m[R[i].path] = R[i].entry
    BY <1>3, <2>1, <2>2
  <2> QED BY <2>2, <2>3, <2>4
<1>11. R \in Seq(Items) /\ Len(R) = N
  <2>1. \A i \in 1 .. N : R[i] \in Items
    BY <1>10
  <2> HIDE DEF N
  <2> QED BY <1>8, <1>9, <2>1
<1> QED BY <1>4, <1>5, <1>6, <1>7, <1>10, <1>11 DEF m, R, N

LEMMA RestoreIs ==
    \A tree, backup, selected :
      ~backup.short =>
      Restore(tree, backup, selected) =
        applyDeletions(Extracted(tree, EntriesRead(backup), selected),
                       {p \in backup.deletions : pathSelected(p, selected)})
  BY DEF Restore, Extracted

LEMMA FullRestores ==
    ASSUME NEW b, IsFull(b), ~b.short, NEW selected \in SUBSET Paths
    PROVE  /\ Restore(Nothing, b, selected) \in Trees
           /\ \A p \in Paths :
                /\ pathSelected(p, selected) => Restore(Nothing, b, selected)[p] = Contents(b)[p]
                /\ Restore(Nothing, b, selected)[p] # Absent =>
                     Restore(Nothing, b, selected)[p] = Contents(b)[p] /\ Selectable(p, selected)
<1> DEFINE archive == EntriesRead(b)
           t == Extracted(Nothing, archive, selected)
           m == Contents(b)
<1>0. \A i \in 1 .. Len(b.archive) : b.manifest[b.archive[i].path] = b.archive[i].entry
  BY DEF IsFull, Holds
<1>a. b \in Backups /\ Rooted(b.manifest) /\ TornFiles(b.manifest, b.torn) /\ b.deletions = {}
  BY DEF IsFull
<1>b. /\ archive \in Seq(Items) /\ m \in Trees /\ Rooted(m) /\ Len(archive) = Len(b.archive)
      /\ \A p \in Paths : m[p] = Absent <=> b.manifest[p] = Absent
      /\ \A i \in 1 .. Len(archive) : archive[i].path = b.archive[i].path /\ m[archive[i].path] = archive[i].entry
  BY <1>0, <1>a, ContentsAre
<1>1. archive \in Seq(Items) /\ m \in Trees /\ Rooted(m) /\ b.deletions = {}
  BY <1>a, <1>b
<1> HIDE DEF archive, m
<1>2. Nothing \in Trees /\ \A p \in Paths : Nothing[p] = Absent
  BY DEF Nothing, Trees
<1>3. Agree(Nothing, m)
  BY <1>2 DEF Agree
<1>4. \A i \in 1 .. Len(archive) : m[archive[i].path] = archive[i].entry
  BY <1>b
<1>5. /\ t \in Trees
      /\ \A i \in 1 .. Len(archive) : pathSelected(archive[i].path, selected) =>
           t[archive[i].path] = m[archive[i].path]
      /\ \A p \in Paths :
           /\ t[p] = Nothing[p] \/ (m[p] # Absent /\ t[p] = m[p])
           /\ Nothing[p] = Absent /\ t[p] # Absent => Selectable(p, selected)
  BY <1>1, <1>2, <1>3, <1>4, Extraction
<1>6. Restore(Nothing, b, selected) = t
  <2>1. {p \in b.deletions : pathSelected(p, selected)} = {}
    BY <1>1
  <2>2. Restore(Nothing, b, selected) = applyDeletions(t, {})
    BY <2>1, RestoreIs DEF archive
  <2>3. t # Absent
    BY <1>5, ArchivesAssumption
  <2> HIDE DEF t
  <2>4. applyDeletions(t, {}) = [q \in Paths |-> t[q]]
    BY <2>3 DEF applyDeletions
  <2>5. t = [q \in Paths |-> t[q]]
    BY <1>5 DEF Trees
  <2> QED BY <2>2, <2>4, <2>5
<1>7. ASSUME NEW p \in Paths, pathSelected(p, selected) PROVE t[p] = m[p]
  <2>1. CASE m[p] = Absent
    BY <1>2, <1>5, <2>1
  <2>2. CASE m[p] # Absent
    <3>1. p \in index(b.manifest)
      BY <1>b, <2>2 DEF index
    <3>2. PICK i \in 1 .. Len(b.archive) : b.archive[i].path = p
      BY <3>1 DEF IsFull, Holds
    <3>3. i \in 1 .. Len(archive) /\ archive[i].path = p
      BY <1>b, <3>2
    <3> HIDE DEF t
    <3> QED BY <1>5, <1>7, <3>3
  <2> QED BY <2>1, <2>2
<1>8. ASSUME NEW p \in Paths, t[p] # Absent PROVE t[p] = m[p] /\ Selectable(p, selected)
  BY <1>2, <1>5, <1>8
<1> QED BY <1>5, <1>6, <1>7, <1>8 DEF m

(* The differential over it.                                                *)
LEMMA DiffRestores ==
    ASSUME NEW base, IsFull(base), ~base.short, NEW b, IsDiffOn(b, base), NEW selected \in SUBSET Paths,
           ~\E p \in index(base.manifest) \cap index(b.manifest) :
              base.manifest[p].kind # b.manifest[p].kind
    PROVE  /\ Restore(Restore(Nothing, base, selected), b, selected) # Absent
           /\ \A p \in Paths :
                /\ pathSelected(p, selected) =>
                     Restore(Restore(Nothing, base, selected), b, selected)[p] = Contents(b)[p]
                /\ ~pathSelected(p, selected) /\ Restore(Restore(Nothing, base, selected), b, selected)[p] # Absent =>
                     \E q \in selected : p \in AboveOf[q]
<1> DEFINE old == Restore(Nothing, base, selected)
           archive == EntriesRead(b)
           t == Extracted(old, archive, selected)
           m0 == Contents(base)
           m == Contents(b)
           gone == {p \in b.deletions : pathSelected(p, selected)}
           new == Restore(old, b, selected)
<1>a. /\ base \in Backups /\ Rooted(base.manifest) /\ TornFiles(base.manifest, base.torn)
      /\ \A i \in 1 .. Len(base.archive) : base.manifest[base.archive[i].path] = base.archive[i].entry
  BY DEF IsFull, Holds
<1>b. /\ b \in Backups /\ Rooted(b.manifest) /\ TornFiles(b.manifest, b.torn)
      /\ \A i \in 1 .. Len(b.archive) : b.manifest[b.archive[i].path] = b.archive[i].entry
  BY DEF IsDiffOn, Holds
<1>c. /\ m0 \in Trees
      /\ \A p \in Paths : /\ p \notin base.torn => m0[p] = base.manifest[p]
                          /\ m0[p] = Absent <=> base.manifest[p] = Absent
                          /\ base.manifest[p] # Absent => m0[p].kind = base.manifest[p].kind
  BY <1>a, ContentsAre
<1>d. /\ m \in Trees /\ Rooted(m) /\ archive \in Seq(Items) /\ Len(archive) = Len(b.archive)
      /\ \A p \in Paths : /\ p \notin b.torn => m[p] = b.manifest[p]
                          /\ m[p] = Absent <=> b.manifest[p] = Absent
                          /\ b.manifest[p] # Absent => m[p].kind = b.manifest[p].kind
      /\ \A i \in 1 .. Len(archive) : archive[i].path = b.archive[i].path /\ m[archive[i].path] = archive[i].entry
  BY <1>b, ContentsAre
<1> HIDE DEF m0, m, archive
<1>e. index(m0) = index(base.manifest) /\ index(m) = index(b.manifest)
  BY <1>c, <1>d DEF index
<1>1. /\ archive \in Seq(Items) /\ m \in Trees /\ Rooted(m) /\ m0 \in Trees
      /\ b.deletions = index(m0) \ index(m) /\ ~b.short
  BY <1>c, <1>d, <1>e DEF IsDiffOn
<1>2. /\ old \in Trees
      /\ \A p \in Paths : /\ pathSelected(p, selected) => old[p] = m0[p]
                          /\ old[p] # Absent => old[p] = m0[p] /\ Selectable(p, selected)
  BY FullRestores DEF m0
<1>3. \A p \in Paths : m0[p] # Absent /\ m[p] # Absent => m0[p].kind = m[p].kind
  <2> SUFFICES ASSUME NEW p \in Paths, m0[p] # Absent, m[p] # Absent PROVE m0[p].kind = m[p].kind
    OBVIOUS
  <2>1. p \in index(base.manifest) \cap index(b.manifest)
    BY <1>c, <1>d DEF index
  <2> QED BY <1>c, <1>d, <2>1 DEF index
<1>4. \A i \in 1 .. Len(archive) : m[archive[i].path] = archive[i].entry
  BY <1>d
<1>f. ASSUME NEW p \in Paths, m[p] # Absent, m0[p] # m[p]
      PROVE  \E i \in 1 .. Len(archive) : archive[i].path = p
  <2>0. b.manifest[p] # Absent /\ p \in index(b.manifest)
    BY <1>d, <1>f DEF index
  <2>1. CASE p \in b.torn
    <3>1. PICK i \in 1 .. Len(b.archive) : b.archive[i].path = p
      BY <2>1 DEF IsDiffOn
    <3> QED BY <1>d, <3>1
  <2>2. CASE p \notin b.torn
    <3>1. m[p] = b.manifest[p]
      BY <1>d, <2>2
    <3>2. p \in ChangedOf(base.manifest, b.manifest)
      <4>1. CASE base.manifest[p] = Absent
        BY <2>0, <4>1 DEF ChangedOf, changedSince
      <4>2. CASE base.manifest[p] # Absent
        <5>1. m0[p] # Absent /\ m0[p] \in Entries /\ m[p] \in Entries /\ m0[p].kind = m[p].kind
          BY <1>c, <1>d, <1>f, <1>3, <4>2 DEF Trees
        <5>2. m[p].kind # "dir"
          BY <1>f, <5>1, EntryKinds
        <5>3. b.manifest[p] # base.manifest[p]
          <6>1. CASE p \in base.torn
            BY <6>1 DEF IsDiffOn, Replaced
          <6>2. CASE p \notin base.torn
            BY <1>c, <1>f, <3>1, <6>2
          <6> QED BY <6>1, <6>2
        <5> QED BY <2>0, <3>1, <5>2, <5>3 DEF ChangedOf, changedSince
      <4> QED BY <4>1, <4>2
    <3>3. PICK i \in 1 .. Len(b.archive) : b.archive[i].path = p
      BY <3>2 DEF IsDiffOn, Holds
    <3> QED BY <1>d, <3>3
  <2> QED BY <2>1, <2>2
<1> HIDE DEF old
<1>5. Agree(old, m)
  BY <1>2, <1>3 DEF Agree, IsDirIn
<1>6. /\ t \in Trees
      /\ \A i \in 1 .. Len(archive) : pathSelected(archive[i].path, selected) =>
           t[archive[i].path] = m[archive[i].path]
      /\ \A p \in Paths :
           /\ t[p] = old[p] \/ (m[p] # Absent /\ t[p] = m[p])
           /\ old[p] = Absent /\ t[p] # Absent => Selectable(p, selected)
  BY <1>1, <1>2, <1>4, <1>5, Extraction
<1> HIDE DEF t
<1>7. new = [q \in Paths |-> IF \E p \in gone : q \in Under(p) THEN Absent ELSE t[q]]
  <2>1. new = applyDeletions(t, gone)
    BY <1>1, RestoreIs DEF t, archive
  <2>2. t # Absent
    BY <1>6, ArchivesAssumption
  <2> HIDE DEF gone, new
  <2> QED BY <2>1, <2>2 DEF applyDeletions
<1>8. new # Absent
  <2>1. new \in Trees
    <3> HIDE DEF gone
    <3> QED BY <1>6, <1>7 DEF Trees
  <2> QED BY <2>1, ArchivesAssumption
<1>9. \A q \in Paths : new[q] = IF \E p \in gone : q \in Under(p) THEN Absent ELSE t[q]
  <2> HIDE DEF gone, new
  <2> QED BY <1>7
<1> HIDE DEF new
<1>10. ASSUME NEW p \in Paths, pathSelected(p, selected) PROVE new[p] = m[p]
  <2>1. old[p] = m0[p]
    BY <1>2, <1>10
  <2>2. CASE m[p] = Absent /\ m0[p] = Absent
    <3>1. t[p] = Absent
      BY <1>6, <2>1, <2>2
    <3> HIDE DEF gone
    <3> QED BY <1>9, <2>2, <3>1
  <2>3. CASE m[p] = Absent /\ m0[p] # Absent
    <3>1. p \in gone /\ p \in Under(p)
      BY <1>1, <1>10, <2>3 DEF index, Under
    <3> HIDE DEF gone
    <3> QED BY <1>9, <2>3, <3>1
  <2>4. CASE m[p] # Absent
    <3>1. ~\E q \in gone : p \in Under(q)
      <4> SUFFICES ASSUME NEW q \in gone, p \in Under(q) PROVE FALSE
        OBVIOUS
      <4>1. q \in Paths /\ m[q] = Absent
        BY <1>1 DEF index
      <4>2. p = q \/ q \in AboveOf[p]
        BY DEF Under
      <4> QED BY <1>1, <2>4, <4>1, <4>2, RootedAbove DEF IsDirIn
    <3>2. new[p] = t[p]
      BY <1>9, <3>1
    <3>3. CASE m0[p] # m[p]
      <4>1. PICK i \in 1 .. Len(archive) : archive[i].path = p
        BY <1>f, <2>4, <3>3
      <4> QED BY <1>6, <1>10, <3>2, <4>1
    <3>4. CASE m0[p] = m[p]
      BY <1>6, <2>1, <3>2, <3>4
    <3> QED BY <3>3, <3>4
  <2> QED BY <2>2, <2>3, <2>4
<1>11. ASSUME NEW p \in Paths, ~pathSelected(p, selected), new[p] # Absent
       PROVE  \E q \in selected : p \in AboveOf[q]
  <2>1. new[p] = t[p]
    <3> HIDE DEF gone
    <3> QED BY <1>9, <1>11
  <2>2. Selectable(p, selected)
    BY <1>2, <1>6, <1>11, <2>1
  <2> QED BY <1>11, <2>2 DEF Selectable
<1> QED BY <1>8, <1>10, <1>11 DEF new, old, m

-----------------------------------------------------------------------------
(* The names a walk still has to look up: none was seen yet, and the        *)
(* directory each is in was.                                                *)
Ready(todo, seen) ==
    /\ \A i \in 1 .. Len(todo) :
         /\ seen[todo[i]] = Absent
         /\ ParentOf[todo[i]] # Absent => IsDirIn(seen, ParentOf[todo[i]])
    /\ \A i, j \in 1 .. Len(todo) : todo[i] = todo[j] => i = j

LEMMA TailIs ==
    ASSUME NEW todo \in Seq(Paths), todo # <<>>
    PROVE  /\ Head(todo) \in Paths /\ Head(todo) = todo[1] /\ Len(todo) \in Nat /\ 1 \in 1 .. Len(todo)
           /\ Tail(todo) \in Seq(Paths) /\ Len(Tail(todo)) = Len(todo) - 1
           /\ \A i \in 1 .. Len(Tail(todo)) : i + 1 \in 1 .. Len(todo) /\ Tail(todo)[i] = todo[i + 1]
  OBVIOUS

LEMMA PassedOver ==
    ASSUME NEW seen \in Trees, NEW todo \in Seq(Paths), todo # <<>>, Ready(todo, seen)
    PROVE  Ready(Tail(todo), seen)
<1> DEFINE rest == Tail(todo)
<1>1. /\ Len(todo) \in Nat
      /\ Len(rest) = Len(todo) - 1
      /\ \A i \in 1 .. Len(rest) : i + 1 \in 1 .. Len(todo) /\ rest[i] = todo[i + 1]
  BY TailIs
<1> HIDE DEF rest
<1>2. \A i, j \in 1 .. Len(rest) : rest[i] = rest[j] => i = j
  <2> SUFFICES ASSUME NEW i \in 1 .. Len(rest), NEW j \in 1 .. Len(rest), rest[i] = rest[j] PROVE i = j
    OBVIOUS
  <2>1. i + 1 = j + 1
    BY <1>1 DEF Ready
  <2> QED BY <2>1
<1>3. \A i \in 1 .. Len(rest) : /\ seen[rest[i]] = Absent
                                /\ ParentOf[rest[i]] # Absent => IsDirIn(seen, ParentOf[rest[i]])
  BY <1>1 DEF Ready
<1>4. Ready(rest, seen)
  BY <1>2, <1>3 DEF Ready
<1> QED BY <1>4 DEF rest

LEMMA LookedUp ==
    ASSUME NEW seen \in Trees, Rooted(seen), NEW todo \in Seq(Paths), todo # <<>>, Ready(todo, seen),
           NEW e \in Entries, NEW names \in Seq(Paths),
           \A i \in 1 .. Len(names) : e.kind = "dir" /\ ParentOf[names[i]] = Head(todo),
           \A i, j \in 1 .. Len(names) : names[i] = names[j] => i = j
    PROVE  /\ [seen EXCEPT ![Head(todo)] = e] \in Trees
           /\ Rooted([seen EXCEPT ![Head(todo)] = e])
           /\ names \o Tail(todo) \in Seq(Paths)
           /\ Ready(names \o Tail(todo), [seen EXCEPT ![Head(todo)] = e])
<1> DEFINE p == Head(todo)
           rest == Tail(todo)
           new == [seen EXCEPT ![p] = e]
           all == names \o rest
<1>1. p \in Paths /\ rest \in Seq(Paths) /\ p = todo[1] /\ 1 \in 1 .. Len(todo)
  BY TailIs
<1>2. seen[p] = Absent /\ (ParentOf[p] # Absent => IsDirIn(seen, ParentOf[p]))
  BY <1>1 DEF Ready
<1>3. \A i \in 1 .. Len(rest) : rest[i] \in Paths /\ rest[i] # p
  <2> SUFFICES ASSUME NEW i \in 1 .. Len(rest) PROVE rest[i] # p
    BY <1>1
  <2>1. i + 1 \in 1 .. Len(todo) /\ rest[i] = todo[i + 1] /\ i + 1 # 1
    BY TailIs
  <2> HIDE DEF rest, p
  <2> QED BY <1>1, <2>1 DEF Ready
<1>4. Ready(rest, seen)
  BY PassedOver
<1> HIDE DEF rest
<1>5. /\ all \in Seq(Paths)
      /\ \A i \in 1 .. Len(all) : \/ i \in 1 .. Len(names) /\ all[i] = names[i]
                                  \/ i - Len(names) \in 1 .. Len(rest) /\ all[i] = rest[i - Len(names)]
  BY <1>1
<1> HIDE DEF p, all
<1>6. /\ new \in Trees /\ new[p] = e
      /\ \A q \in Paths : q # p => new[q] = seen[q]
  BY <1>1 DEF Trees
<1> HIDE DEF new
<1>7. \A q \in Paths : IsDirIn(seen, q) => q # p /\ IsDirIn(new, q)
  BY <1>2, <1>6 DEF IsDirIn
<1>8. \A q \in Paths : ParentOf[q] \in Paths \cup {Absent}
  BY OrderIsOfPaths
<1>9. Rooted(new)
  <2> SUFFICES ASSUME NEW q \in Paths, new[q] # Absent, ParentOf[q] # Absent
               PROVE  IsDirIn(new, ParentOf[q])
    BY DEF Rooted
  <2>1. IsDirIn(seen, ParentOf[q])
    <3>1. CASE q = p
      BY <1>2, <3>1
    <3>2. CASE q # p
      BY <1>6, <3>2 DEF Rooted
    <3> QED BY <3>1, <3>2
  <2> QED BY <1>7, <1>8, <2>1
<1>10. ASSUME NEW q \in Paths, ParentOf[q] = p, e.kind = "dir"
       PROVE  new[q] = Absent /\ IsDirIn(new, ParentOf[q])
  <2>1. p # Absent /\ ~IsDirIn(seen, p)
    BY <1>1, <1>2, ArchivesAssumption DEF IsDirIn
  <2>2. seen[q] = Absent
    BY <1>10, <2>1 DEF Rooted
  <2>3. q # p
    BY <1>2, <1>10, <2>1
  <2>4. e # Absent
    BY EntryKinds
  <2> QED BY <1>6, <1>10, <2>2, <2>3, <2>4 DEF IsDirIn
<1>11. ASSUME NEW i \in 1 .. Len(names)
       PROVE  /\ names[i] \in Paths /\ new[names[i]] = Absent
              /\ IsDirIn(new, ParentOf[names[i]])
              /\ \A j \in 1 .. Len(rest) : names[i] # rest[j]
  <2>1. names[i] \in Paths /\ e.kind = "dir" /\ ParentOf[names[i]] = p
    BY DEF p
  <2>2. ASSUME NEW j \in 1 .. Len(rest), names[i] = rest[j] PROVE FALSE
    <3>1. p # Absent /\ ~IsDirIn(seen, p)
      BY <1>1, <1>2, ArchivesAssumption DEF IsDirIn
    <3>2. ParentOf[rest[j]] = p
      BY <2>1, <2>2
    <3> QED BY <1>4, <3>1, <3>2 DEF Ready
  <2> QED BY <1>10, <2>1, <2>2
<1>12. ASSUME NEW i \in 1 .. Len(rest)
       PROVE  /\ new[rest[i]] = Absent
              /\ ParentOf[rest[i]] # Absent => IsDirIn(new, ParentOf[rest[i]])
  <2>1. rest[i] \in Paths /\ rest[i] # p
    BY <1>3
  <2>2. seen[rest[i]] = Absent /\ (ParentOf[rest[i]] # Absent => IsDirIn(seen, ParentOf[rest[i]]))
    BY <1>4 DEF Ready
  <2>3. new[rest[i]] = Absent
    BY <1>6, <2>1, <2>2
  <2>4. ParentOf[rest[i]] # Absent => IsDirIn(new, ParentOf[rest[i]])
    BY <1>7, <1>8, <2>1, <2>2
  <2> QED BY <2>3, <2>4
<1>13. ASSUME NEW i \in 1 .. Len(all)
       PROVE  /\ new[all[i]] = Absent
              /\ ParentOf[all[i]] # Absent => IsDirIn(new, ParentOf[all[i]])
  <2>1. CASE i \in 1 .. Len(names) /\ all[i] = names[i]
    BY <1>11, <2>1
  <2>2. CASE i - Len(names) \in 1 .. Len(rest) /\ all[i] = rest[i - Len(names)]
    BY <1>12, <2>2
  <2> QED BY <1>5, <2>1, <2>2
<1>14. ASSUME NEW i \in 1 .. Len(all), NEW j \in 1 .. Len(all), all[i] = all[j] PROVE i = j
  <2>1. i \in Int /\ j \in Int /\ Len(names) \in Nat
    OBVIOUS
  <2>2. CASE i \in 1 .. Len(names) /\ all[i] = names[i]
    <3>1. j \in 1 .. Len(names) /\ all[j] = names[j]
      BY <1>5, <1>11, <1>14, <2>2
    <3> QED BY <1>14, <2>2, <3>1
  <2>3. CASE i - Len(names) \in 1 .. Len(rest) /\ all[i] = rest[i - Len(names)]
    <3>1. j - Len(names) \in 1 .. Len(rest) /\ all[j] = rest[j - Len(names)]
      BY <1>5, <1>11, <1>14, <2>3
    <3>2. rest[i - Len(names)] = rest[j - Len(names)]
      BY <1>14, <2>3, <3>1
    <3>3. i - Len(names) = j - Len(names)
      BY <1>4, <2>3, <3>1, <3>2 DEF Ready
    <3> QED BY <2>1, <3>3
  <2> QED BY <1>5, <2>2, <2>3
<1>15. Ready(all, new)
  BY <1>13, <1>14 DEF Ready
<1> QED BY <1>5, <1>6, <1>9, <1>15 DEF new, p, all, rest

(* An entry the walk shows is archived unless it need not be.               *)
LEMMA Archived ==
    ASSUME NEW seen \in Trees, NEW archive \in Seq(Items), NEW paths,
           Holds(archive, seen, paths), NEW p \in Paths, seen[p] = Absent, NEW e \in Entries
    PROVE  /\ Holds(archive, [seen EXCEPT ![p] = e], paths)
           /\ Append(archive, [path |-> p, entry |-> e]) \in Seq(Items)
           /\ Holds(Append(archive, [path |-> p, entry |-> e]), [seen EXCEPT ![p] = e], paths \cup {p})
<1> DEFINE new == [seen EXCEPT ![p] = e]
           item == [path |-> p, entry |-> e]
           more == Append(archive, item)
           N == Len(archive)
<1>1. new[p] = e /\ \A q \in Paths : q # p => new[q] = seen[q]
  BY DEF Trees
<1>2. item \in Items /\ item.path = p /\ item.entry = e
  BY DEF Items
<1> HIDE DEF new, item
<1>3. /\ more \in Seq(Items) /\ N \in Nat /\ Len(more) = N + 1
      /\ more[N + 1] = item /\ \A i \in 1 .. N : more[i] = archive[i] /\ archive[i] \in Items
  BY <1>2
<1> HIDE DEF more, N
<1>4. \A i \in 1 .. N : new[archive[i].path] = archive[i].entry
  <2> SUFFICES ASSUME NEW i \in 1 .. N PROVE new[archive[i].path] = archive[i].entry
    OBVIOUS
  <2>1. archive[i].path \in Paths /\ archive[i].entry \in Entries
    BY <1>3 DEF Items
  <2>2. seen[archive[i].path] = archive[i].entry
    BY DEF Holds, N
  <2>3. archive[i].path # p
    BY <2>1, <2>2, EntryKinds
  <2> QED BY <1>1, <2>1, <2>2, <2>3
<1>5. \A q \in paths : \E i \in 1 .. N : archive[i].path = q
  BY DEF Holds, N
<1>6. Holds(archive, new, paths)
  BY <1>4, <1>5 DEF Holds, N
<1>7. \A i \in 1 .. N + 1 : i \in 1 .. N \/ i = N + 1
  BY <1>3
<1>8. \A i \in 1 .. Len(more) : new[more[i].path] = more[i].entry
  BY <1>1, <1>2, <1>3, <1>4, <1>7
<1>9. \A q \in paths \cup {p} : \E i \in 1 .. Len(more) : more[i].path = q
  <2> SUFFICES ASSUME NEW q \in paths \cup {p} PROVE \E i \in 1 .. N + 1 : more[i].path = q
    BY <1>3
  <2>1. CASE q = p
    <3>1. N + 1 \in 1 .. N + 1
      BY <1>3
    <3> QED BY <1>2, <1>3, <2>1, <3>1
  <2>2. CASE q \in paths
    <3>1. PICK i \in 1 .. N : archive[i].path = q
      BY <1>5, <2>2
    <3>2. i \in 1 .. N + 1 /\ more[i].path = q
      BY <1>3, <3>1
    <3> QED BY <3>2
  <2> QED BY <2>1, <2>2
<1>10. Holds(more, new, paths \cup {p})
  BY <1>8, <1>9 DEF Holds
<1> QED BY <1>3, <1>6, <1>10 DEF new, more, item

-----------------------------------------------------------------------------
(* The invariant: a walk has archived what it must of what it has seen, and *)
(* the backups that are left are of finished walks.                         *)
Runs == [differential : BOOLEAN, excluded : SUBSET Paths, todo : Seq(Paths),
         archive : Seq(Items), seen : Trees,
         copying : Paths \cup {Absent}, torn : SUBSET Paths, short : BOOLEAN]

ArchivesTypeOK ==
    /\ source \in Trees /\ writes \in Nat
    /\ walk \in Runs \cup {Absent}
    /\ full \in Backups \cup {Absent} /\ diff \in Backups \cup {Absent}

ToArchive == IF walk.differential THEN ChangedOf(full.manifest, walk.seen) ELSE index(walk.seen)

WalkInv ==
    walk # Absent =>
      /\ Rooted(walk.seen) /\ Ready(walk.todo, walk.seen)
      /\ Holds(walk.archive, walk.seen, ToArchive)
      /\ walk.differential => full # Absent

BackupsInv ==
    /\ full # Absent => IsFull(full)
    /\ diff # Absent => full # Absent /\ IsDiffOn(diff, full)

ArchivesInv == ArchivesTypeOK /\ WalkInv /\ BackupsInv

(* A version is of a write that was made, and what a run copied torn was    *)
(* written to after the run had looked it up.                               *)
Aged(tree) == \A p \in Paths : tree[p] # Absent => tree[p].version <= writes
Moved(torn, m) == \A p \in torn : source[p] # m[p]
InArchive(archive, p) == \E i \in 1 .. Len(archive) : archive[i].path = p

TornWalk ==
    /\ Aged(walk.seen) /\ TornFiles(walk.seen, walk.torn) /\ Moved(walk.torn, walk.seen)
    /\ \A p \in walk.torn : InArchive(walk.archive, p)
    /\ walk.copying # Absent =>
         /\ walk.seen[walk.copying] # Absent /\ walk.seen[walk.copying].kind = "file"
         /\ InArchive(walk.archive, walk.copying)
    /\ walk.differential => Replaced(full, walk.seen)

TornInv ==
    /\ Aged(source)
    /\ walk # Absent => TornWalk
    /\ full # Absent => Aged(full.manifest) /\ Moved(full.torn, full.manifest)

LEMMA ArchivesInitial == ArchivesInit => ArchivesInv
<1> SUFFICES ASSUME ArchivesInit PROVE ArchivesInv
  OBVIOUS
<1>1. source \in Trees
  BY DEF ArchivesInit, Nothing, Trees
<1>2. ArchivesTypeOK
  BY <1>1 DEF ArchivesInit, ArchivesTypeOK
<1> QED BY <1>2 DEF ArchivesInit, ArchivesInv, WalkInv, BackupsInv

(* A write changes the source alone.                                        *)
LEMMA WritesKeep ==
    ASSUME ArchivesInv, NEW p \in Paths, PutFile(p) \/ PutDir(p) \/ Erase(p)
    PROVE  ArchivesInv'
<1>1. UNCHANGED <<walk, full, diff>>
  BY DEF PutFile, PutDir, Erase, Becomes
<1>2. source \in Trees /\ writes \in Nat
  BY DEF ArchivesInv, ArchivesTypeOK
<1>3. writes' = writes + 1
  BY DEF PutFile, PutDir, Erase, Becomes
<1>4. source' \in Trees
  <2>1. CASE PutFile(p)
    <3>1. File(writes + 1) \in Entries
      BY <1>2 DEF File, Entries
    <3>2. source' = [source EXCEPT ![p] = File(writes + 1)]
      BY <2>1 DEF PutFile, Becomes
    <3> QED BY <1>2, <3>1, <3>2 DEF Trees
  <2>2. CASE PutDir(p)
    <3>1. source' = [source EXCEPT ![p] = Dir]
      BY <2>2 DEF PutDir, Becomes
    <3> QED BY <1>2, <3>1, EntryKinds DEF Trees
  <2>3. CASE Erase(p)
    <3>1. source' = [q \in Paths |-> IF q \in Under(p) THEN Absent ELSE source[q]]
      BY <2>3 DEF Erase, Becomes
    <3> QED BY <1>2, <3>1 DEF Trees
  <2> QED BY <2>1, <2>2, <2>3
<1>5. ArchivesTypeOK'
  BY <1>1, <1>2, <1>3, <1>4 DEF ArchivesInv, ArchivesTypeOK
<1>6. WalkInv' /\ BackupsInv'
  BY <1>1 DEF ArchivesInv, WalkInv, BackupsInv, ToArchive
<1> QED BY <1>5, <1>6 DEF ArchivesInv

(* A walk begins with the names at the top.                                 *)
LEMMA StartKeeps ==
    ASSUME ArchivesInv, NEW differential \in BOOLEAN, NEW excluded \in Exclusions,
           StartRun(differential, excluded)
    PROVE  ArchivesInv'
<1> DEFINE w == [differential |-> differential, excluded |-> excluded, todo |-> Names(Absent),
                 archive |-> <<>>, seen |-> Nothing, copying |-> Absent, torn |-> {}, short |-> FALSE]
<1>1. /\ UNCHANGED <<source, writes, full, diff>> /\ walk' = w
      /\ differential => full # Absent
  BY DEF StartRun
<1>2. Nothing \in Trees /\ \A p \in Paths : Nothing[p] = Absent
  BY DEF Nothing, Trees
<1>3. /\ Names(Absent) \in Seq(Paths)
      /\ \A i \in 1 .. Len(Names(Absent)) : ParentOf[Names(Absent)[i]] = Absent
      /\ \A i, j \in 1 .. Len(Names(Absent)) : Names(Absent)[i] = Names(Absent)[j] => i = j
  BY NamesAre
<1>4. <<>> \in Seq(Items) /\ excluded \in SUBSET Paths
  BY ArchivesAssumption
<1>5. w \in Runs
  BY <1>2, <1>3, <1>4 DEF Runs
<1>6. ArchivesTypeOK'
  BY <1>1, <1>5 DEF ArchivesInv, ArchivesTypeOK
<1>7. Rooted(Nothing)
  BY <1>2 DEF Rooted
<1>8. Ready(Names(Absent), Nothing)
  <2>1. \A i \in 1 .. Len(Names(Absent)) : Names(Absent)[i] \in Paths
    BY <1>3
  <2> QED BY <1>2, <1>3, <2>1 DEF Ready
<1>9. \A base : index(Nothing) = {} /\ ChangedOf(base, Nothing) = {}
  BY <1>2 DEF index, ChangedOf
<1>10. Holds(<<>>, Nothing, {})
  BY DEF Holds
<1>11. WalkInv'
  <2>1. /\ w.differential = differential /\ w.todo = Names(Absent) /\ w.archive = <<>>
        /\ w.seen = Nothing
    OBVIOUS
  <2> HIDE DEF w
  <2>2. ToArchive' = {}
    BY <1>1, <1>9, <2>1 DEF ToArchive
  <2> QED BY <1>1, <1>7, <1>8, <1>10, <2>1, <2>2 DEF WalkInv
<1>12. BackupsInv'
  BY <1>1 DEF ArchivesInv, BackupsInv
<1> QED BY <1>6, <1>11, <1>12 DEF ArchivesInv

(* A name is passed over.                                                   *)
LEMMA PassKeeps ==
    ASSUME ArchivesInv, walk # Absent, walk.todo # <<>>,
           walk' = [walk EXCEPT !.todo = Tail(@)], UNCHANGED <<source, writes, full, diff>>
    PROVE  ArchivesInv'
<1>1. walk \in Runs
  BY DEF ArchivesInv, ArchivesTypeOK
<1>2. /\ walk'.differential = walk.differential /\ walk'.todo = Tail(walk.todo)
      /\ walk'.archive = walk.archive /\ walk'.seen = walk.seen
  BY <1>1 DEF Runs
<1>3. walk.todo \in Seq(Paths) /\ walk.seen \in Trees
  BY <1>1 DEF Runs
<1>4. walk' \in Runs
  <2>1. Tail(walk.todo) \in Seq(Paths)
    BY <1>3
  <2> QED BY <1>1, <2>1 DEF Runs
<1>5. ArchivesTypeOK'
  BY <1>4 DEF ArchivesInv, ArchivesTypeOK
<1>6. Ready(Tail(walk.todo), walk.seen)
  BY <1>3, PassedOver DEF ArchivesInv, WalkInv
<1>7. ToArchive' = ToArchive
  BY <1>2 DEF ToArchive
<1>8. WalkInv'
  BY <1>2, <1>6, <1>7 DEF ArchivesInv, WalkInv
<1>9. BackupsInv'
  BY DEF ArchivesInv, BackupsInv
<1> QED BY <1>5, <1>8, <1>9 DEF ArchivesInv

LEMMA VisitKeeps ==
    ASSUME ArchivesInv, Visit
    PROVE  ArchivesInv'
<1> DEFINE p == Head(walk.todo)
           entry == source[p]
           archived == ~walk.differential \/ changedSince(full.manifest, p, entry)
           names == IF entry.kind = "dir" THEN Names(p) ELSE <<>>
           more == Append(walk.archive, [path |-> p, entry |-> entry])
           new == [walk.seen EXCEPT ![p] = entry]
<1>1. walk # Absent /\ walk.todo # <<>> /\ UNCHANGED <<source, writes, full, diff>>
  BY DEF Visit, Goes
<1>2. walk \in Runs /\ source \in Trees
  BY <1>1 DEF ArchivesInv, ArchivesTypeOK
<1>3. /\ walk.todo \in Seq(Paths) /\ walk.seen \in Trees /\ walk.archive \in Seq(Items)
      /\ walk.differential \in BOOLEAN
  BY <1>2 DEF Runs
<1>4. CASE walk' = [walk EXCEPT !.todo = Tail(@)]
  BY <1>1, <1>4, PassKeeps
<1>5. CASE /\ entry # Absent
           /\ walk' = [walk EXCEPT !.todo = names \o Tail(@), !.seen[p] = entry,
                                   !.archive = IF archived THEN Append(@, [path |-> p, entry |-> entry]) ELSE @,
                                   !.copying = IF archived /\ entry.kind = "file" THEN p ELSE Absent]
  <2>1. /\ walk'.differential = walk.differential /\ walk'.excluded = walk.excluded
        /\ walk'.todo = names \o Tail(walk.todo)
        /\ walk'.seen = new
        /\ walk'.archive = IF archived THEN more ELSE walk.archive
        /\ walk' = [differential |-> walk'.differential, excluded |-> walk'.excluded, todo |-> walk'.todo,
                    archive |-> walk'.archive, seen |-> walk'.seen, copying |-> walk'.copying,
                    torn |-> walk'.torn, short |-> walk'.short]
        /\ walk'.copying \in {p, Absent} /\ walk'.torn = walk.torn /\ walk'.short = walk.short
    <3> HIDE DEF names, archived
    <3> QED BY <1>2, <1>5 DEF Runs
  <2>2. Rooted(walk.seen) /\ Ready(walk.todo, walk.seen) /\ Holds(walk.archive, walk.seen, ToArchive)
    BY <1>1 DEF ArchivesInv, WalkInv
  <2>3. p \in Paths /\ walk.seen[p] = Absent
    BY <1>1, <1>3, <2>2, TailIs DEF Ready
  <2>4. entry \in Entries
    BY <1>2, <1>5, <2>3 DEF Trees
  <2> HIDE DEF entry
  <2>5. /\ names \in Seq(Paths)
        /\ \A i \in 1 .. Len(names) : entry.kind = "dir" /\ ParentOf[names[i]] = p
        /\ \A i, j \in 1 .. Len(names) : names[i] = names[j] => i = j
    <3>1. CASE entry.kind = "dir"
      <4>1. names = Names(p)
        BY <3>1
      <4> HIDE DEF p, names
      <4> QED BY <3>1, <4>1, NamesAre
    <3>2. CASE entry.kind # "dir"
      BY <3>2
    <3> QED BY <3>1, <3>2
  <2> HIDE DEF names
  <2>6. /\ new \in Trees /\ Rooted(new)
        /\ names \o Tail(walk.todo) \in Seq(Paths)
        /\ Ready(names \o Tail(walk.todo), new)
    BY <1>1, <1>3, <2>2, <2>4, <2>5, LookedUp
  <2>7. /\ Holds(walk.archive, new, ToArchive)
        /\ more \in Seq(Items)
        /\ Holds(more, new, ToArchive \cup {p})
    <3> HIDE DEF p
    <3> QED BY <1>3, <2>2, <2>3, <2>4, Archived
  <2>8. new[p] = entry /\ \A q \in Paths : q # p => new[q] = walk.seen[q]
    BY <1>3, <2>3 DEF Trees
  <2> HIDE DEF new, more, p
  <2>9. walk' \in Runs
    <3>1. walk'.archive \in Seq(Items)
      BY <1>3, <2>1, <2>7
    <3>2. /\ walk'.excluded \in SUBSET Paths
          /\ walk'.copying \in Paths \cup {Absent} /\ walk'.torn \in SUBSET Paths /\ walk'.short \in BOOLEAN
      BY <1>2, <2>1, <2>3 DEF Runs
    <3>3. walk'.todo \in Seq(Paths) /\ walk'.seen \in Trees /\ walk'.differential \in BOOLEAN
      BY <1>3, <2>1, <2>6
    <3> QED BY <2>1, <3>1, <3>2, <3>3 DEF Runs
  <2>10. ArchivesTypeOK'
    BY <1>1, <2>9 DEF ArchivesInv, ArchivesTypeOK
  <2>11. ToArchive' = IF archived THEN ToArchive \cup {p} ELSE ToArchive
    <3>1. entry # Absent
      BY <1>5 DEF entry
    <3>2. CASE walk.differential
      <4>1. ToArchive = ChangedOf(full.manifest, walk.seen) /\ ToArchive' = ChangedOf(full.manifest, new)
        BY <1>1, <2>1, <3>2 DEF ToArchive
      <4>2. archived <=> changedSince(full.manifest, p, entry)
        BY <3>2
      <4> HIDE DEF archived
      <4>3. \A q \in Paths : q # p => (q \in ChangedOf(full.manifest, new) <=> q \in ChangedOf(full.manifest, walk.seen))
        BY <2>8 DEF ChangedOf, index
      <4>4. p \in ChangedOf(full.manifest, new) <=> archived
        BY <2>3, <2>8, <3>1, <4>2 DEF ChangedOf, index
      <4>5. p \notin ChangedOf(full.manifest, walk.seen)
        BY <2>3 DEF ChangedOf, index
      <4>6. ChangedOf(full.manifest, new) \subseteq Paths /\ ChangedOf(full.manifest, walk.seen) \subseteq Paths
        BY DEF ChangedOf, index
      <4> QED BY <2>3, <4>1, <4>3, <4>4, <4>5, <4>6
    <3>3. CASE ~walk.differential
      <4>1. ToArchive = index(walk.seen) /\ ToArchive' = index(new)
        BY <2>1, <3>3 DEF ToArchive
      <4>2. archived
        BY <3>3
      <4> HIDE DEF archived
      <4>3. index(new) = index(walk.seen) \cup {p}
        BY <2>3, <2>8, <3>1 DEF index
      <4> QED BY <4>1, <4>2, <4>3
    <3> QED BY <1>3, <3>2, <3>3
  <2> HIDE DEF archived
  <2>12. Holds(walk'.archive, new, ToArchive')
    BY <2>1, <2>7, <2>11
  <2>13. walk.differential => full # Absent
    BY <1>1 DEF ArchivesInv, WalkInv
  <2>14. WalkInv'
    BY <1>1, <2>1, <2>6, <2>12, <2>13 DEF WalkInv
  <2>15. BackupsInv'
    BY <1>1 DEF ArchivesInv, BackupsInv
  <2> QED BY <2>10, <2>14, <2>15 DEF ArchivesInv
<1> QED BY <1>4, <1>5 DEF Visit, Goes

(* A walk ends.                                                             *)
LEMMA FailKeeps ==
    ASSUME ArchivesInv, FailRun
    PROVE  ArchivesInv'
  BY DEF FailRun, Goes, ArchivesInv, ArchivesTypeOK, WalkInv, BackupsInv

(* What a file holds is copied.                                             *)
LEMMA CopyKeeps ==
    ASSUME ArchivesInv, Copy
    PROVE  ArchivesInv'
<1>1. walk # Absent /\ walk.copying # Absent /\ UNCHANGED <<source, writes, full, diff>>
  BY DEF Copy, Goes
<1>2. walk \in Runs /\ walk.copying \in Paths
  BY <1>1 DEF ArchivesInv, ArchivesTypeOK, Runs
<1>3. PICK torn \in SUBSET Paths, short \in BOOLEAN :
        walk' = [walk EXCEPT !.copying = Absent, !.torn = torn, !.short = short]
  <2>1. CASE walk' = [walk EXCEPT !.copying = Absent]
    <3>1. walk' = [walk EXCEPT !.copying = Absent, !.torn = walk.torn, !.short = walk.short]
      BY <1>2, <2>1 DEF Runs
    <3> QED BY <1>2, <3>1 DEF Runs
  <2>2. CASE \E shrunk \in BOOLEAN :
               walk' = [walk EXCEPT !.copying = Absent, !.torn = @ \cup {walk.copying}, !.short = shrunk]
    <3>1. walk.torn \cup {walk.copying} \in SUBSET Paths
      BY <1>2 DEF Runs
    <3> QED BY <2>2, <3>1
  <2> QED BY <2>1, <2>2 DEF Copy, Goes
<1>4. /\ walk'.differential = walk.differential /\ walk'.todo = walk.todo
      /\ walk'.archive = walk.archive /\ walk'.seen = walk.seen /\ walk' \in Runs
  BY <1>2, <1>3 DEF Runs
<1>5. ArchivesTypeOK' /\ BackupsInv'
  BY <1>1, <1>4 DEF ArchivesInv, ArchivesTypeOK, BackupsInv
<1>6. ToArchive' = ToArchive
  BY <1>1, <1>4 DEF ToArchive
<1>7. WalkInv'
  BY <1>1, <1>4, <1>6 DEF ArchivesInv, WalkInv
<1> QED BY <1>5, <1>7 DEF ArchivesInv

LEMMA FinishKeeps ==
    ASSUME ArchivesInv, TornInv, FinishRun
    PROVE  ArchivesInv'
<1>1. walk # Absent /\ walk' = Absent /\ UNCHANGED <<source, writes>> /\ walk \in Runs
  BY DEF FinishRun, ArchivesInv, ArchivesTypeOK
<1>2. /\ walk.archive \in Seq(Items) /\ walk.seen \in Trees /\ walk.differential \in BOOLEAN
      /\ walk.torn \in SUBSET Paths /\ walk.short \in BOOLEAN
  BY <1>1 DEF Runs
<1>t. /\ TornFiles(walk.seen, walk.torn)
      /\ \A p \in walk.torn : InArchive(walk.archive, p)
      /\ walk.differential => Replaced(full, walk.seen)
  BY <1>1 DEF TornInv, TornWalk
<1>3. Rooted(walk.seen) /\ Holds(walk.archive, walk.seen, ToArchive)
  BY <1>1 DEF ArchivesInv, WalkInv
<1>4. WalkInv'
  BY <1>1 DEF WalkInv
<1>5. CASE walk.differential
  <2> DEFINE b == [archive |-> walk.archive, manifest |-> walk.seen,
                   torn |-> walk.torn, short |-> FALSE,
                   deletions |-> deletedPaths(full.manifest, walk.seen)]
  <2>1. diff' = b /\ full' = full
    BY <1>5 DEF FinishRun
  <2>2. full # Absent
    BY <1>1, <1>5 DEF ArchivesInv, WalkInv
  <2>3. deletedPaths(full.manifest, walk.seen) \in SUBSET Paths
    BY DEF deletedPaths, index
  <2>4. b \in Backups
    BY <1>2, <2>3 DEF Backups
  <2>5. IsDiffOn(b, full)
    <3>1. ToArchive = ChangedOf(full.manifest, walk.seen)
      BY <1>5 DEF ToArchive
    <3>2. b.deletions = index(full.manifest) \ index(walk.seen)
      BY DEF deletedPaths
    <3>3. Replaced(full, walk.seen)
      BY <1>5, <1>t
    <3> QED BY <1>3, <1>t, <2>4, <3>1, <3>2, <3>3 DEF IsDiffOn, InArchive
  <2> HIDE DEF b
  <2>6. ArchivesTypeOK'
    BY <1>1, <2>1, <2>4 DEF ArchivesInv, ArchivesTypeOK
  <2>7. BackupsInv'
    BY <2>1, <2>2, <2>5 DEF ArchivesInv, BackupsInv
  <2> QED BY <1>4, <2>6, <2>7 DEF ArchivesInv
<1>6. CASE ~walk.differential
  <2> DEFINE b == [archive |-> walk.archive, manifest |-> walk.seen,
                   torn |-> walk.torn, short |-> walk.short, deletions |-> {}]
  <2>1. diff' = Absent /\ full' = b
    BY <1>6 DEF FinishRun
  <2>2. b \in Backups
    BY <1>2 DEF Backups
  <2>3. IsFull(b)
    <3>1. ToArchive = index(walk.seen)
      BY <1>6 DEF ToArchive
    <3> QED BY <1>3, <1>t, <2>2, <3>1 DEF IsFull
  <2> HIDE DEF b
  <2>4. ArchivesTypeOK'
    BY <1>1, <2>1, <2>2 DEF ArchivesInv, ArchivesTypeOK
  <2>5. BackupsInv'
    BY <2>1, <2>3 DEF BackupsInv
  <2> QED BY <1>4, <2>4, <2>5 DEF ArchivesInv
<1> QED BY <1>2, <1>5, <1>6

LEMMA ArchivesStep ==
    ASSUME ArchivesInv, TornInv, [ArchivesNext]_archivesVars
    PROVE  ArchivesInv'
<1>1. CASE \E p \in Paths : PutFile(p) \/ PutDir(p) \/ Erase(p)
  BY <1>1, WritesKeep
<1>2. CASE \E differential \in BOOLEAN, excluded \in Exclusions : StartRun(differential, excluded)
  BY <1>2, StartKeeps
<1>3. CASE Visit
  BY <1>3, VisitKeeps
<1>4. CASE Refuse
  BY <1>4, PassKeeps DEF Refuse, Goes
<1>5. CASE Copy
  BY <1>5, CopyKeeps
<1>6. CASE FailRun
  BY <1>6, FailKeeps
<1>7. CASE FinishRun
  BY <1>7, FinishKeeps
<1>8. CASE UNCHANGED archivesVars
  BY <1>8 DEF archivesVars, ArchivesInv, ArchivesTypeOK, WalkInv, BackupsInv, ToArchive
<1> QED BY <1>1, <1>2, <1>3, <1>4, <1>5, <1>6, <1>7, <1>8 DEF ArchivesNext

-----------------------------------------------------------------------------
(* What is torn.                                                            *)
LEMMA TornInitial == ArchivesInit => TornInv
<1> SUFFICES ASSUME ArchivesInit PROVE TornInv
  OBVIOUS
<1>1. \A p \in Paths : source[p] = Absent
  BY DEF ArchivesInit, Nothing
<1>2. Aged(source)
  BY <1>1 DEF Aged
<1> QED BY <1>2 DEF ArchivesInit, TornInv

(* A write gives a path a version it never had.                             *)
LEMMA WriteIsNew ==
    ASSUME ArchivesInv, TornInv, NEW p \in Paths, PutFile(p) \/ PutDir(p) \/ Erase(p),
           NEW m \in Trees, Aged(m)
    PROVE  /\ Aged(m)'
           /\ \A torn \in SUBSET Paths : TornFiles(m, torn) /\ Moved(torn, m) => Moved(torn, m)'
<1>1. writes \in Nat /\ source \in Trees /\ writes' = writes + 1
  BY DEF ArchivesInv, ArchivesTypeOK, PutFile, PutDir, Erase, Becomes
<1>2. ASSUME NEW q \in Paths, m[q] # Absent PROVE m[q].version \in Int
  <2>1. m[q] \in Entries
    BY <1>2 DEF Trees
  <2>2. Dir.version \in Int /\ \A v \in Nat : [kind |-> "file", version |-> v].version = v
    BY DEF Dir
  <2> QED BY <2>1, <2>2 DEF Entries
<1>3. Aged(m)'
  BY <1>1, <1>2 DEF Aged
<1>4. ASSUME NEW q \in Paths, m[q] # Absent, m[q].kind = "file", source[q] # m[q] PROVE source'[q] # m[q]
  <2>1. CASE source'[q] = source[q]
    BY <1>4, <2>1
  <2>2. CASE source'[q] = Absent
    BY <1>4, <2>2
  <2>3. CASE source'[q] = Dir
    BY <1>4, <2>3 DEF Dir
  <2>4. CASE source'[q] = File(writes + 1)
    <3>1. source'[q].version = writes + 1
      BY <2>4 DEF File
    <3>2. m[q].version <= writes /\ m[q].version \in Int
      BY <1>2, <1>4 DEF Aged
    <3> QED BY <1>1, <3>1, <3>2
  <2>5. source'[q] \in {source[q], Absent, Dir, File(writes + 1)}
    <3>1. CASE PutFile(p)
      <4>1. source' = [source EXCEPT ![p] = File(writes + 1)]
        BY <3>1 DEF PutFile, Becomes
      <4> QED BY <1>1, <4>1 DEF Trees
    <3>2. CASE PutDir(p)
      <4>1. source' = [source EXCEPT ![p] = Dir]
        BY <3>2 DEF PutDir, Becomes
      <4> QED BY <1>1, <4>1 DEF Trees
    <3>3. CASE Erase(p)
      <4>1. source' = [x \in Paths |-> IF x \in Under(p) THEN Absent ELSE source[x]]
        BY <3>3 DEF Erase, Becomes
      <4> QED BY <4>1
    <3> QED BY <3>1, <3>2, <3>3
  <2> QED BY <2>1, <2>2, <2>3, <2>4, <2>5
<1>5. ASSUME NEW torn \in SUBSET Paths, TornFiles(m, torn), Moved(torn, m) PROVE Moved(torn, m)'
  BY <1>4, <1>5 DEF TornFiles, Moved
<1> QED BY <1>3, <1>5

LEMMA WritesKeepTorn ==
    ASSUME ArchivesInv, TornInv, NEW p \in Paths, PutFile(p) \/ PutDir(p) \/ Erase(p)
    PROVE  TornInv'
<1>1. UNCHANGED <<walk, full, diff>> /\ writes' = writes + 1
  BY DEF PutFile, PutDir, Erase, Becomes
<1>2. source \in Trees /\ writes \in Nat /\ Aged(source)
  BY DEF ArchivesInv, ArchivesTypeOK, TornInv
<1>3. Aged(source)'
  <2> SUFFICES ASSUME NEW q \in Paths, source'[q] # Absent PROVE source'[q].version <= writes'
    BY DEF Aged
  <2>1. CASE source'[q] = source[q]
    <3>1. PICK x \in Trees : x = source
      BY <1>2
    <3>2. Aged(x)'
      BY <1>2, <3>1, WriteIsNew
    <3> QED BY <2>1, <3>1, <3>2 DEF Aged
  <2>2. CASE source'[q] = Dir
    <3>1. source'[q].version = 0
      BY <2>2 DEF Dir
    <3> QED BY <1>1, <1>2, <3>1
  <2>3. CASE source'[q] = File(writes + 1)
    <3>1. source'[q].version = writes + 1
      BY <2>3 DEF File
    <3> QED BY <1>1, <1>2, <3>1
  <2>4. source'[q] \in {source[q], Absent, Dir, File(writes + 1)}
    <3>1. CASE PutFile(p)
      <4>1. source' = [source EXCEPT ![p] = File(writes + 1)]
        BY <3>1 DEF PutFile, Becomes
      <4> QED BY <1>2, <4>1 DEF Trees
    <3>2. CASE PutDir(p)
      <4>1. source' = [source EXCEPT ![p] = Dir]
        BY <3>2 DEF PutDir, Becomes
      <4> QED BY <1>2, <4>1 DEF Trees
    <3>3. CASE Erase(p)
      <4>1. source' = [x \in Paths |-> IF x \in Under(p) THEN Absent ELSE source[x]]
        BY <3>3 DEF Erase, Becomes
      <4> QED BY <4>1
    <3> QED BY <3>1, <3>2, <3>3
  <2> QED BY <2>1, <2>2, <2>3, <2>4
<1>4. ASSUME walk # Absent PROVE TornWalk'
  <2> DEFINE m == walk.seen
             torn == walk.torn
  <2>1. m \in Trees /\ torn \in SUBSET Paths
    BY <1>4 DEF ArchivesInv, ArchivesTypeOK, Runs
  <2>2. TornWalk
    BY <1>4 DEF TornInv
  <2>3. Aged(m) /\ TornFiles(m, torn) /\ Moved(torn, m)
    BY <2>2 DEF TornWalk
  <2>4. m' = m /\ torn' = torn
    BY <1>1
  <2> HIDE DEF m, torn
  <2>5. PICK x \in Trees, y \in SUBSET Paths : x = m /\ y = torn
    BY <2>1
  <2>6. Aged(x)' /\ Moved(y, x)'
    BY <2>3, <2>5, WriteIsNew
  <2>7. Aged(m)' /\ Moved(torn, m)'
    BY <2>4, <2>5, <2>6 DEF Aged, Moved
  <2>8. TornFiles(walk.seen, walk.torn)' /\ (walk.differential => Replaced(full, walk.seen))'
    BY <1>1, <2>2 DEF TornWalk, TornFiles, Replaced
  <2> QED BY <1>1, <2>2, <2>7, <2>8 DEF TornWalk, m, torn
<1>5. ASSUME full # Absent PROVE Aged(full.manifest)' /\ Moved(full.torn, full.manifest)'
  <2>1. PICK x \in Trees, y \in SUBSET Paths : x = full.manifest /\ y = full.torn
    BY <1>5 DEF ArchivesInv, ArchivesTypeOK, Backups
  <2>2. Aged(x) /\ TornFiles(x, y) /\ Moved(y, x)
    BY <1>5, <2>1 DEF TornInv, ArchivesInv, BackupsInv, IsFull
  <2>3. Aged(x)' /\ Moved(y, x)'
    BY <2>2, WriteIsNew
  <2>4. full.manifest' = x /\ full.torn' = y
    BY <1>1, <2>1
  <2> QED BY <2>3, <2>4 DEF Aged, Moved
<1> QED BY <1>1, <1>3, <1>4, <1>5 DEF TornInv

LEMMA StartKeepsTorn ==
    ASSUME ArchivesInv, TornInv, NEW differential \in BOOLEAN, NEW excluded \in Exclusions,
           StartRun(differential, excluded)
    PROVE  TornInv'
<1>0. UNCHANGED <<source, writes, full, diff>>
  BY DEF StartRun
<1>1. /\ walk'.seen = Nothing /\ walk'.torn = {} /\ walk'.copying = Absent
      /\ walk'.differential = differential /\ (differential => full # Absent)
  BY DEF StartRun
<1>2. \A p \in Paths : Nothing[p] = Absent
  BY DEF Nothing
<1>3. Aged(walk.seen)' /\ TornFiles(walk.seen, walk.torn)' /\ Moved(walk.torn, walk.seen)'
  BY <1>1, <1>2 DEF Aged, TornFiles, Moved
<1>4. (walk.differential => Replaced(full, walk.seen))'
  <2>1. ASSUME differential, NEW p \in full.torn PROVE Nothing[p] # full.manifest[p]
    <3>1. TornFiles(full.manifest, full.torn) /\ full.torn \in SUBSET Paths
      BY <1>1, <2>1 DEF ArchivesInv, BackupsInv, IsFull, Backups
    <3> QED BY <1>2, <2>1, <3>1 DEF TornFiles
  <2> QED BY <1>0, <1>1, <2>1 DEF Replaced
<1>5. TornWalk'
  <2>1. (walk.copying = Absent)' /\ (\A p \in walk.torn : InArchive(walk.archive, p))'
    BY <1>1
  <2> QED BY <1>3, <1>4, <2>1 DEF TornWalk
<1>6. Aged(source)' /\ (full # Absent => Aged(full.manifest) /\ Moved(full.torn, full.manifest))'
  BY <1>0 DEF TornInv, Aged, Moved
<1> QED BY <1>5, <1>6 DEF TornInv

LEMMA PassKeepsTorn ==
    ASSUME ArchivesInv, TornInv, walk # Absent,
           walk' = [walk EXCEPT !.todo = Tail(@)], UNCHANGED <<source, writes, full, diff>>
    PROVE  TornInv'
<1>1. walk \in Runs /\ TornWalk
  BY DEF ArchivesInv, ArchivesTypeOK, TornInv
<1>2. /\ walk'.differential = walk.differential /\ walk'.archive = walk.archive
      /\ walk'.seen = walk.seen /\ walk'.copying = walk.copying /\ walk'.torn = walk.torn
  BY <1>1 DEF Runs
<1>3. TornWalk'
  BY <1>1, <1>2 DEF TornWalk, Aged, TornFiles, Moved, Replaced, InArchive
<1>4. Aged(source)' /\ (full # Absent => Aged(full.manifest) /\ Moved(full.torn, full.manifest))'
  BY DEF TornInv, Aged, Moved
<1> QED BY <1>3, <1>4 DEF TornInv

LEMMA VisitKeepsTorn ==
    ASSUME ArchivesInv, TornInv, Visit
    PROVE  TornInv'
<1> DEFINE p == Head(walk.todo)
           entry == source[p]
           archived == ~walk.differential \/ changedSince(full.manifest, p, entry)
           names == IF entry.kind = "dir" THEN Names(p) ELSE <<>>
           item == [path |-> p, entry |-> entry]
           new == [walk.seen EXCEPT ![p] = entry]
<1>1. /\ walk # Absent /\ walk.todo # <<>> /\ walk.copying = Absent
      /\ UNCHANGED <<source, writes, full, diff>>
  BY DEF Visit, Goes
<1>2. walk \in Runs /\ source \in Trees /\ TornWalk /\ Ready(walk.todo, walk.seen)
  BY <1>1 DEF ArchivesInv, ArchivesTypeOK, TornInv, WalkInv
<1>3. CASE walk' = [walk EXCEPT !.todo = Tail(@)]
  BY <1>1, <1>3, PassKeepsTorn
<1>4. CASE /\ entry # Absent
           /\ walk' = [walk EXCEPT !.todo = names \o Tail(@), !.seen[p] = entry,
                                   !.archive = IF archived THEN Append(@, item) ELSE @,
                                   !.copying = IF archived /\ entry.kind = "file" THEN p ELSE Absent]
  <2>1. /\ walk'.differential = walk.differential /\ walk'.torn = walk.torn
        /\ walk'.seen = new
        /\ walk'.archive = IF archived THEN Append(walk.archive, item) ELSE walk.archive
        /\ walk'.copying = IF archived /\ entry.kind = "file" THEN p ELSE Absent
    <3> HIDE DEF names, archived, item
    <3> QED BY <1>2, <1>4 DEF Runs
  <2>2. walk.todo \in Seq(Paths) /\ walk.seen \in Trees /\ walk.archive \in Seq(Items) /\ walk.torn \in SUBSET Paths
    BY <1>2 DEF Runs
  <2>3. p \in Paths /\ walk.seen[p] = Absent
    BY <1>1, <1>2, <2>2, TailIs DEF Ready
  <2>4. /\ new[p] = entry /\ \A q \in Paths : q # p => new[q] = walk.seen[q]
    BY <2>2, <2>3 DEF Trees
  <2>5. item.path = p
    OBVIOUS
  <2> HIDE DEF archived, item, new, names
  <2>6. \A q \in Paths : InArchive(walk.archive, q) => InArchive(walk'.archive, q)
    <3> SUFFICES ASSUME NEW q \in Paths, InArchive(walk.archive, q), archived PROVE InArchive(Append(walk.archive, item), q)
      BY <2>1
    <3>1. PICK i \in 1 .. Len(walk.archive) : walk.archive[i].path = q
      BY DEF InArchive
    <3>2. i \in 1 .. Len(Append(walk.archive, item)) /\ Append(walk.archive, item)[i] = walk.archive[i]
      BY <2>2
    <3> QED BY <3>1, <3>2 DEF InArchive
  <2>7. archived => InArchive(walk'.archive, p)
    <3> SUFFICES ASSUME archived PROVE InArchive(Append(walk.archive, item), p)
      BY <2>1
    <3> DEFINE n == Len(walk.archive) + 1
    <3>1. n \in 1 .. Len(Append(walk.archive, item)) /\ Append(walk.archive, item)[n] = item
      BY <2>2
    <3> QED BY <2>5, <3>1 DEF InArchive
  <2>8. \A q \in walk.torn : q \in Paths /\ q # p /\ new[q] = walk.seen[q]
    BY <1>2, <2>2, <2>3, <2>4 DEF TornWalk, TornFiles
  <2>9. Aged(walk.seen)'
    <3>1. Aged(source) /\ Aged(walk.seen)
      BY <1>2 DEF TornInv, TornWalk
    <3> QED BY <1>1, <2>1, <2>3, <2>4, <3>1 DEF Aged
  <2>10. TornFiles(walk.seen, walk.torn)' /\ Moved(walk.torn, walk.seen)'
    BY <1>1, <1>2, <2>1, <2>8 DEF TornWalk, TornFiles, Moved
  <2>11. \A q \in walk'.torn : InArchive(walk'.archive, q)
    BY <1>2, <2>1, <2>6, <2>8 DEF TornWalk
  <2>12. walk'.copying # Absent =>
           /\ walk'.seen[walk'.copying] # Absent /\ walk'.seen[walk'.copying].kind = "file"
           /\ InArchive(walk'.archive, walk'.copying)
    BY <1>4, <2>1, <2>4, <2>7
  <2>13. (walk.differential => Replaced(full, walk.seen))'
    <3> SUFFICES ASSUME walk.differential PROVE Replaced(full, new)
      BY <1>1, <2>1 DEF Replaced
    <3>1. full # Absent /\ Replaced(full, walk.seen)
      BY <1>1, <1>2 DEF TornWalk, ArchivesInv, WalkInv
    <3>2. Moved(full.torn, full.manifest) /\ full.torn \in SUBSET Paths
      BY <3>1 DEF TornInv, ArchivesInv, ArchivesTypeOK, Backups
    <3> QED BY <2>4, <3>1, <3>2 DEF Replaced, Moved
  <2>14. TornWalk'
    <3> HIDE DEF p, entry
    <3> QED BY <2>9, <2>10, <2>11, <2>12, <2>13 DEF TornWalk
  <2>15. Aged(source)' /\ (full # Absent => Aged(full.manifest) /\ Moved(full.torn, full.manifest))'
    BY <1>1 DEF TornInv, Aged, Moved
  <2> QED BY <2>14, <2>15 DEF TornInv
<1> QED BY <1>3, <1>4 DEF Visit, Goes

LEMMA CopyKeepsTorn ==
    ASSUME ArchivesInv, TornInv, Copy
    PROVE  TornInv'
<1> DEFINE p == walk.copying
<1>1. walk # Absent /\ p # Absent /\ UNCHANGED <<source, writes, full, diff>>
  BY DEF Copy, Goes
<1>2. walk \in Runs /\ TornWalk
  BY <1>1 DEF ArchivesInv, ArchivesTypeOK, TornInv
<1>3. /\ walk'.differential = walk.differential /\ walk'.archive = walk.archive
      /\ walk'.seen = walk.seen /\ walk'.copying = Absent
      /\ walk'.torn = walk.torn \/ (walk'.torn = walk.torn \cup {p} /\ source[p] # walk.seen[p])
  <2>1. CASE walk' = [walk EXCEPT !.copying = Absent]
    BY <1>2, <2>1 DEF Runs
  <2>2. CASE /\ source[p] # walk.seen[p]
             /\ \E shrunk \in BOOLEAN :
                  walk' = [walk EXCEPT !.copying = Absent, !.torn = @ \cup {p}, !.short = shrunk]
    BY <1>2, <2>2 DEF Runs
  <2> QED BY <2>1, <2>2 DEF Copy, Goes
<1>4. walk.seen[p] # Absent /\ walk.seen[p].kind = "file" /\ InArchive(walk.archive, p)
  BY <1>1, <1>2 DEF TornWalk
<1> HIDE DEF p
<1>5. Aged(walk.seen)' /\ (walk.differential => Replaced(full, walk.seen))'
  BY <1>1, <1>2, <1>3 DEF TornWalk, Aged, Replaced
<1>6. TornFiles(walk.seen, walk.torn)' /\ Moved(walk.torn, walk.seen)'
  BY <1>1, <1>2, <1>3, <1>4 DEF TornWalk, TornFiles, Moved
<1>7. (\A q \in walk.torn : InArchive(walk.archive, q))'
  BY <1>2, <1>3, <1>4 DEF TornWalk, InArchive
<1>8. TornWalk'
  BY <1>3, <1>5, <1>6, <1>7 DEF TornWalk
<1>9. Aged(source)' /\ (full # Absent => Aged(full.manifest) /\ Moved(full.torn, full.manifest))'
  BY <1>1 DEF TornInv, Aged, Moved
<1> QED BY <1>8, <1>9 DEF TornInv

LEMMA FinishKeepsTorn ==
    ASSUME ArchivesInv, TornInv, FailRun \/ FinishRun
    PROVE  TornInv'
<1>1. walk # Absent /\ walk' = Absent /\ UNCHANGED <<source, writes>>
  BY DEF FailRun, FinishRun, Goes
<1>2. TornWalk
  BY <1>1 DEF TornInv
<1>3. Aged(source)'
  BY <1>1 DEF TornInv, Aged
<1>4. CASE full' = full
  <2>1. (full # Absent => Aged(full.manifest) /\ Moved(full.torn, full.manifest))'
    BY <1>1, <1>4 DEF TornInv, Aged, Moved
  <2> QED BY <1>1, <1>3, <2>1 DEF TornInv
<1>5. CASE full'.manifest = walk.seen /\ full'.torn = walk.torn
  <2>1. (full # Absent => Aged(full.manifest) /\ Moved(full.torn, full.manifest))'
    BY <1>1, <1>2, <1>5 DEF TornWalk, Aged, Moved
  <2> QED BY <1>1, <1>3, <2>1 DEF TornInv
<1>6. full' = full \/ (full'.manifest = walk.seen /\ full'.torn = walk.torn)
  BY DEF FailRun, FinishRun, Goes
<1> QED BY <1>4, <1>5, <1>6

LEMMA TornStep ==
    ASSUME ArchivesInv, TornInv, [ArchivesNext]_archivesVars
    PROVE  TornInv'
<1>1. CASE \E p \in Paths : PutFile(p) \/ PutDir(p) \/ Erase(p)
  BY <1>1, WritesKeepTorn
<1>2. CASE \E differential \in BOOLEAN, excluded \in Exclusions : StartRun(differential, excluded)
  BY <1>2, StartKeepsTorn
<1>3. CASE Visit
  BY <1>3, VisitKeepsTorn
<1>4. CASE Refuse
  BY <1>4, PassKeepsTorn DEF Refuse, Goes
<1>5. CASE Copy
  BY <1>5, CopyKeepsTorn
<1>6. CASE FailRun \/ FinishRun
  BY <1>6, FinishKeepsTorn
<1>7. CASE UNCHANGED archivesVars
  <2>1. UNCHANGED <<source, writes, walk, full>>
    BY <1>7 DEF archivesVars
  <2>2. (walk # Absent => TornWalk)'
    BY <2>1 DEF TornInv, TornWalk, Aged, TornFiles, Moved, Replaced, InArchive
  <2>3. Aged(source)' /\ (full # Absent => Aged(full.manifest) /\ Moved(full.torn, full.manifest))'
    BY <2>1 DEF TornInv, Aged, Moved
  <2> QED BY <2>2, <2>3 DEF TornInv
<1> QED BY <1>1, <1>2, <1>3, <1>4, <1>5, <1>6, <1>7 DEF ArchivesNext

LEMMA BackupsRestore == BackupsInv => DifferentialRestores
<1> SUFFICES ASSUME BackupsInv, diff # Absent, ~KindChanged, ~full.short, NEW selected \in SUBSET Paths
             PROVE  LET tree == Restore(Restore(Nothing, full, selected), diff, selected) IN
                      /\ tree # Absent
                      /\ \A p \in Paths :
                           IF pathSelected(p, selected) THEN tree[p] = Stored(diff, p)
                           ELSE tree[p] # Absent => \E q \in selected : p \in AboveOf[q]
  BY DEF DifferentialRestores
<1>1. IsFull(full) /\ IsDiffOn(diff, full)
  BY DEF BackupsInv
<1>2. ~\E p \in index(full.manifest) \cap index(diff.manifest) :
         full.manifest[p].kind # diff.manifest[p].kind
  BY DEF KindChanged
<1>3. \A p \in Paths : Contents(diff)[p] = Stored(diff, p)
  BY DEF Contents
<1> QED BY <1>1, <1>2, <1>3, DiffRestores

(* Restoring the last full backup and the differential over it brings back  *)
(* every selected path as the walk of the differential saw it, but for a    *)
(* file that was written to while the differential copied it.               *)
THEOREM DifferentialRestoresHolds == ArchivesSpec => []DifferentialRestores
<1>1. ArchivesInit => ArchivesInv /\ TornInv
  BY ArchivesInitial, TornInitial
<1>2. ArchivesInv /\ TornInv /\ [ArchivesNext]_archivesVars => ArchivesInv' /\ TornInv'
  BY ArchivesStep, TornStep
<1>3. ArchivesInv => DifferentialRestores
  BY BackupsRestore DEF ArchivesInv
<1> QED BY <1>1, <1>2, <1>3, PTL DEF ArchivesSpec
-----------------------------------------------------------------------------
(* Chunker                                                                  *)
HIDE NodesAssumption
HIDE RequestsAssumption

(* Remainders and powers of two.                                            *)
Byte == DOMAIN Gear
P == PowerOfTwo

LEMMA Sizes ==
    /\ MinSize \in Nat /\ AvgSize \in Nat /\ MaxSize \in Nat
    /\ SmallBits \in Nat /\ LargeBits \in Nat /\ HashBits \in Nat
    /\ 0 < MinSize /\ MinSize < AvgSize /\ AvgSize < MaxSize
    /\ SmallBits \in 0 .. HashBits /\ LargeBits \in 0 .. HashBits
    /\ Gear \in [Byte -> Nat]
  BY ChunkerAssumption DEF Byte

LEMMA Divided ==
    ASSUME NEW a \in Nat, NEW m \in Nat \ {0}
    PROVE  a % m \in Nat /\ a % m \in 0 .. m - 1 /\ a \div m \in Nat /\ a = (a % m) + m * (a \div m)
  OBVIOUS

LEMMA OneRemainder ==
    ASSUME NEW a \in Nat, NEW m \in Nat \ {0}, NEW r \in 0 .. m - 1, NEW q \in Nat, a = r + m * q
    PROVE  a % m = r
  OBVIOUS

LEMMA Products ==
    ASSUME NEW a \in Nat, NEW b \in Nat, NEW c \in Nat
    PROVE  /\ a * b \in Nat /\ a * b = b * a
           /\ (a * b) * c = a * (b * c) /\ a * (b + c) = a * b + a * c
  OBVIOUS

LEMMA MultipleAdded ==
    ASSUME NEW a \in Nat, NEW m \in Nat \ {0}, NEW q \in Nat
    PROVE  (a + m * q) % m = a % m
<1> DEFINE r == a % m
           d == a \div m
<1>1. r \in 0 .. m - 1 /\ r \in Nat /\ d \in Nat /\ a = r + m * d
  BY Divided
<1> HIDE DEF r, d
<1>2. m * (d + q) = m * d + m * q /\ m * d \in Nat /\ m * q \in Nat /\ d + q \in Nat
  BY <1>1, Products
<1>3. a + m * q = r + m * (d + q) /\ a + m * q \in Nat
  BY <1>1, <1>2
<1>4. (a + m * q) % m = r
  BY <1>1, <1>2, <1>3, OneRemainder
<1> QED BY <1>4 DEF r

LEMMA PowersOfTwo ==
    /\ P[0] = 1
    /\ \A n \in 0 .. HashBits : P[n] \in Nat \ {0}
    /\ \A n \in 1 .. HashBits : P[n] = 2 * P[n - 1]
<1> DEFINE N == HashBits
           V == Nat \ {0}
           step == [e \in (1 .. N) \X V |-> 2 * e[2]]
           Body(f) == [n \in 0 .. N |-> IF n = 0 THEN 1 ELSE 2 * f[n - 1]]
<1>1. N \in Nat
  BY Sizes
<1>2. step \in StepsOf(N, V) /\ \A i \in 1 .. N, v \in V : step[<<i, v>>] = 2 * v
  BY DEF StepsOf
<1>3. 1 \in V
  OBVIOUS
<1> HIDE DEF step, N, V
<1>4. PICK f : Solves(f, N, V, 1, step)
  BY <1>1, <1>2, <1>3, RecursionExists
<1>5. /\ f \in [0 .. N -> V] /\ f[0] = 1
      /\ \A i \in 1 .. N : f[i] = step[<<i, f[i - 1]>>]
  BY <1>4 DEF Solves
<1>6. \A i \in 1 .. N : i - 1 \in 0 .. N /\ f[i] = 2 * f[i - 1]
  <2> SUFFICES ASSUME NEW i \in 1 .. N PROVE i - 1 \in 0 .. N /\ f[i] = 2 * f[i - 1]
    OBVIOUS
  <2>1. i - 1 \in 0 .. N
    BY <1>1
  <2> QED BY <1>2, <1>5, <2>1
<1>7. f = Body(f)
  <2>1. ASSUME NEW i \in 0 .. N PROVE f[i] = IF i = 0 THEN 1 ELSE 2 * f[i - 1]
    <3>1. i = 0 \/ i \in 1 .. N
      BY <1>1
    <3> QED BY <1>5, <1>6, <3>1
  <2> QED BY <1>5, <2>1
<1>8. P = CHOOSE g : g = Body(g)
  BY DEF P, PowerOfTwo, N
<1>9. P = Body(P)
  <2> HIDE DEF Body
  <2> QED BY <1>7, <1>8
<1>10. P[0] = 1 /\ \A i \in 1 .. N : P[i] = 2 * P[i - 1]
  <2> DEFINE g == Body(P)
  <2>1. g[0] = 1 /\ \A i \in 1 .. N : g[i] = 2 * P[i - 1]
    <3>1. 0 \in 0 .. N /\ \A i \in 1 .. N : i \in 0 .. N /\ i # 0
      BY <1>1
    <3> QED BY <3>1
  <2>2. P = g
    BY <1>9
  <2> HIDE DEF g
  <2> QED BY <2>1, <2>2
<1> DEFINE Good == {n \in 0 .. N : P[n] \in Nat \ {0}}
<1>11. 0 \in Good
  BY <1>1, <1>10
<1>12. \A n \in 1 .. N : n - 1 \in Good => n \in Good
  BY <1>1, <1>10
<1> HIDE DEF Good
<1>13. \A n \in 0 .. N : n \in Good
  BY <1>1, <1>11, <1>12, UpTo
<1> QED BY <1>10, <1>13 DEF Good, N

LEMMA PowersDivide ==
    ASSUME NEW a \in 0 .. HashBits
    PROVE  \E c \in Nat : P[HashBits] = P[a] * c
<1> DEFINE N == HashBits - a
           Good == {n \in 0 .. N : \E c \in Nat : P[a + n] = P[a] * c}
<1>1. N \in Nat /\ a \in Nat /\ HashBits \in Nat /\ a + N = HashBits
  BY Sizes
<1>2. P[a] \in Nat
  BY PowersOfTwo
<1>3. 0 \in Good
  <2>1. P[a + 0] = P[a] * 1
    BY <1>1, <1>2
  <2> QED BY <1>1, <2>1
<1>4. ASSUME NEW n \in 1 .. N, n - 1 \in Good PROVE n \in Good
  <2>1. PICK c \in Nat : P[a + (n - 1)] = P[a] * c
    BY <1>4
  <2>2. a + n \in 1 .. HashBits /\ (a + n) - 1 = a + (n - 1)
    BY <1>1
  <2>3. P[a + n] = 2 * P[a + (n - 1)]
    BY <2>2, PowersOfTwo
  <2>4. 2 * (P[a] * c) = P[a] * (2 * c)
    BY <1>2
  <2>5. P[a + n] = P[a] * (2 * c) /\ 2 * c \in Nat
    BY <2>1, <2>3, <2>4
  <2> QED BY <2>5
<1> HIDE DEF Good, N
<1>5. N \in Good
  BY <1>1, <1>3, <1>4, UpTo
<1> QED BY <1>1, <1>5 DEF Good

LEMMA SumsTyped ==
    ASSUME NEW S, IsFiniteSet(S), NEW w \in [S -> Nat], NEW f, Sums(f, S, w)
    PROVE  \A T \in SUBSET S : f[T] \in Nat
<1> DEFINE N == Cardinality(S)
           Good == {n \in 0 .. N : \A T \in Small(S, n) : f[T] \in Nat}
<1>1. N \in Nat /\ Small(S, N) = SUBSET S /\ Small(S, 0) = {{}}
  BY SomeOfSmall
<1>2. f[{}] = 0 /\ \A T \in (SUBSET S) \ {{}} : f[T] = w[Some(T)] + f[T \ {Some(T)}]
  BY DEF Sums
<1>3. 0 \in Good
  <2>1. ASSUME NEW T \in Small(S, 0) PROVE f[T] \in Nat
    <3>1. T = {}
      BY <1>1
    <3>2. f[{}] = 0
      BY <1>2
    <3> QED BY <3>1, <3>2
  <2> HIDE DEF N
  <2> QED BY <1>1, <2>1
<1>4. ASSUME NEW n \in 1 .. N, n - 1 \in Good PROVE n \in Good
  <2>1. n \in Nat /\ n \in 0 .. N
    BY <1>1
  <2>2. ASSUME NEW T \in Small(S, n), T # {} PROVE f[T] \in Nat
    <3>1. T \in (SUBSET S) \ {{}}
      BY <2>2 DEF Small
    <3>2. Some(T) \in S /\ T \ {Some(T)} \in Small(S, n - 1)
      BY <2>1, <2>2, SomeOfSmall
    <3>3. w[Some(T)] \in Nat /\ f[T \ {Some(T)}] \in Nat
      BY <1>4, <3>2
    <3> QED BY <1>2, <3>1, <3>3
  <2>3. f[{}] \in Nat
    BY <1>2
  <2>4. \A T \in Small(S, n) : f[T] \in Nat
    BY <2>2, <2>3
  <2> HIDE DEF N
  <2> QED BY <2>1, <2>4
<1> HIDE DEF Good
<1>5. N \in Good
  <2> HIDE DEF N
  <2> QED BY <1>1, <1>3, <1>4, UpTo
<1> QED BY <1>1, <1>5 DEF Good

(* A sum may take its terms in any order.                                   *)
AnyOrder(f, S, w) == \A T \in SUBSET S : \A x \in T : f[T] = w[x] + f[T \ {x}]

LEMMA SumTakesAny ==
    ASSUME NEW S, IsFiniteSet(S), NEW w \in [S -> Nat], NEW f, Sums(f, S, w)
    PROVE  AnyOrder(f, S, w)
<1> DEFINE N == Cardinality(S)
           Good == {n \in 0 .. N : \A T \in Small(S, n) : \A x \in T : f[T] = w[x] + f[T \ {x}]}
<1>1. N \in Nat /\ Small(S, N) = SUBSET S /\ Small(S, 0) = {{}}
  BY SomeOfSmall
<1>2. 0 \in Good
  BY <1>1
<1>3. ASSUME NEW n \in 1 .. N, n - 1 \in Good PROVE n \in Good
  <2>1. n \in Nat /\ n \in 0 .. N
    BY <1>1
  <2> SUFFICES ASSUME NEW T \in Small(S, n), NEW x \in T PROVE f[T] = w[x] + f[T \ {x}]
    BY <2>1
  <2> DEFINE y == Some(T)
  <2>2. T \in SUBSET S /\ T # {}
    BY DEF Small
  <2>3. y \in T /\ y \in S /\ x \in S /\ T \ {y} \in Small(S, n - 1)
    BY <2>1, <2>2, SomeOfSmall
  <2>4. f[T] = w[y] + f[T \ {y}]
    BY <2>2 DEF Sums
  <2> HIDE DEF y
  <2>5. CASE x = y
    BY <2>4, <2>5
  <2>6. CASE x # y
    <3>1. T \ {x} \in Small(S, n - 1)
      <4>1. IsFiniteSet(T) /\ Cardinality(T) \in Nat /\ Cardinality(T) <= n
        BY <2>2, FS_Subset, FS_CardinalityType DEF Small
      <4>2. Cardinality(T \ {x}) = Cardinality(T) - 1
        BY <4>1, FS_RemoveElement
      <4> QED BY <2>1, <2>2, <4>1, <4>2 DEF Small
    <3>2. f[T \ {y}] = w[x] + f[(T \ {y}) \ {x}]
      BY <1>3, <2>3, <2>6
    <3>3. f[T \ {x}] = w[y] + f[(T \ {x}) \ {y}]
      BY <1>3, <2>3, <2>6, <3>1
    <3> DEFINE U == (T \ {x}) \ {y}
    <3>4. U \in SUBSET S /\ (T \ {y}) \ {x} = U
      BY <2>2
    <3> HIDE DEF U
    <3>5. w[x] \in Nat /\ w[y] \in Nat /\ f[U] \in Nat
      BY <2>3, <3>4, SumsTyped
    <3>6. f[T \ {y}] = w[x] + f[U] /\ f[T \ {x}] = w[y] + f[U]
      BY <3>2, <3>3, <3>4 DEF U
    <3>7. w[y] + (w[x] + f[U]) = w[x] + (w[y] + f[U])
      BY <3>5
    <3> QED BY <2>4, <3>6, <3>7
  <2> QED BY <2>5, <2>6
<1> HIDE DEF Good
<1>4. N \in Good
  <2> HIDE DEF N
  <2> QED BY <1>1, <1>2, <1>3, UpTo
<1>5. \A T \in Small(S, N) : \A x \in T : f[T] = w[x] + f[T \ {x}]
  BY <1>4 DEF Good
<1> QED BY <1>1, <1>5 DEF AnyOrder

-----------------------------------------------------------------------------
(* The rolling hash and the sum over its window.                            *)
LEMMA RolledIs ==
    ASSUME NEW data \in Seq(Byte), MinSize <= Len(data)
    PROVE  /\ Rolled(data)[MinSize] = 0
           /\ \A i \in MinSize .. Len(data) : Rolled(data)[i] \in Nat
           /\ \A i \in MinSize + 1 .. Len(data) :
                Rolled(data)[i] = (2 * Rolled(data)[i - 1] + Gear[data[i]]) % P[HashBits]
<1> DEFINE M == P[HashBits]
           K == MinSize
           L == Len(data)
           N == L - K
           Next(i, h) == (2 * h + Gear[data[i]]) % M
           step == [e \in (1 .. N) \X Nat |-> Next(K + e[1], e[2])]
           Body(f) == [i \in K .. L |-> IF i = K THEN 0 ELSE Next(i, f[i - 1])]
           hash == CHOOSE f : f = Body(f)
<1>1. K \in Nat /\ L \in Nat /\ N \in Nat /\ K + N = L /\ K > 0
  BY Sizes
<1>2. M \in Nat \ {0}
  BY PowersOfTwo, Sizes
<1>3. \A i \in 1 .. L : Gear[data[i]] \in Nat
  BY Sizes
<1>4. Rolled(data) = hash
  BY DEF Rolled, P
<1> HIDE DEF M, K, L, N
<1>5. \A i \in 1 .. L, h \in Nat : Next(i, h) \in Nat
  <2> SUFFICES ASSUME NEW i \in 1 .. L, NEW h \in Nat PROVE Next(i, h) \in Nat
    OBVIOUS
  <2>1. 2 * h + Gear[data[i]] \in Nat
    BY <1>3
  <2> QED BY <1>2, <2>1, Divided
<1> HIDE DEF Next
<1>6. \A n \in 1 .. N : K + n \in 1 .. L
  BY <1>1
<1>7. /\ step \in StepsOf(N, Nat)
      /\ \A n \in 1 .. N, h \in Nat : step[<<n, h>>] = Next(K + n, h)
  BY <1>5, <1>6 DEF StepsOf
<1> HIDE DEF step
<1>8. PICK g : Solves(g, N, Nat, 0, step)
  BY <1>1, <1>7, RecursionExists
<1>9. /\ g \in [0 .. N -> Nat] /\ g[0] = 0
      /\ \A n \in 1 .. N : g[n] = Next(K + n, g[n - 1])
  <2>1. /\ g \in [0 .. N -> Nat] /\ g[0] = 0
        /\ \A n \in 1 .. N : g[n] = step[<<n, g[n - 1]>>]
    BY <1>8 DEF Solves
  <2>2. \A n \in 1 .. N : n - 1 \in 0 .. N
    BY <1>1
  <2> QED BY <1>7, <2>1, <2>2
<1> DEFINE f == [i \in K .. L |-> g[i - K]]
<1>10. f = Body(f)
  <2>1. ASSUME NEW i \in K .. L PROVE f[i] = IF i = K THEN 0 ELSE Next(i, f[i - 1])
    <3>1. CASE i = K
      <4>1. i - K = 0
        BY <1>1, <3>1
      <4> QED BY <1>9, <3>1, <4>1
    <3>2. CASE i # K
      <4>1. i - K \in 1 .. N /\ i - 1 \in K .. L /\ (i - 1) - K = (i - K) - 1 /\ K + (i - K) = i
        BY <1>1, <3>2
      <4>2. g[i - K] = Next(i, g[(i - 1) - K])
        BY <1>9, <4>1
      <4> QED BY <3>2, <4>1, <4>2
    <3> QED BY <3>1, <3>2
  <2> HIDE DEF Body
  <2>2. f = [i \in K .. L |-> IF i = K THEN 0 ELSE Next(i, f[i - 1])]
    <3> DEFINE b == [i \in K .. L |-> IF i = K THEN 0 ELSE Next(i, f[i - 1])]
    <3>1. \A i \in K .. L : f[i] = b[i]
      BY <2>1
    <3>2. f = [i \in K .. L |-> f[i]] /\ b = [i \in K .. L |-> b[i]]
      OBVIOUS
    <3> HIDE DEF f, b
    <3>3. f = b
      BY <3>1, <3>2
    <3> QED BY <3>3 DEF b
  <2> QED BY <2>2 DEF Body
<1>11. hash = Body(hash)
  <2> HIDE DEF Body
  <2> QED BY <1>10
<1> HIDE DEF hash
<1>12. hash[K] = 0 /\ \A i \in K + 1 .. L : hash[i] = Next(i, hash[i - 1])
  <2> DEFINE b == Body(hash)
  <2>1. b[K] = 0 /\ \A i \in K + 1 .. L : b[i] = Next(i, hash[i - 1])
    <3>1. K \in K .. L /\ \A i \in K + 1 .. L : i \in K .. L /\ i # K
      BY <1>1
    <3> QED BY <3>1
  <2>2. hash = b
    BY <1>11
  <2> HIDE DEF b
  <2> QED BY <2>1, <2>2
<1> HIDE DEF Body
<1> DEFINE Good == {n \in 0 .. N : hash[K + n] \in Nat}
<1>13. 0 \in Good
  BY <1>1, <1>12
<1>14. ASSUME NEW n \in 1 .. N, n - 1 \in Good PROVE n \in Good
  <2>1. K + n \in K + 1 .. L /\ K + n \in 1 .. L /\ (K + n) - 1 = K + (n - 1)
    BY <1>1
  <2>2. hash[K + n] = Next(K + n, hash[K + (n - 1)])
    BY <1>12, <2>1
  <2>3. hash[K + (n - 1)] \in Nat
    BY <1>14
  <2>4. hash[K + n] \in Nat
    BY <1>5, <2>1, <2>2, <2>3
  <2> QED BY <2>4
<1> HIDE DEF Good
<1>15. \A n \in 0 .. N : n \in Good
  BY <1>1, <1>13, <1>14, UpTo
<1>16. ASSUME NEW i \in K .. L PROVE hash[i] \in Nat
  <2>1. i - K \in 0 .. N /\ K + (i - K) = i
    BY <1>1
  <2>2. hash[K + (i - K)] \in Nat
    BY <1>15, <2>1 DEF Good
  <2> QED BY <2>1, <2>2
<1> QED BY <1>4, <1>12, <1>16 DEF Next, M, K, L

(* A beginning of data has the same hashes.                                 *)
LEMMA RolledOfPrefix ==
    ASSUME NEW data \in Seq(Byte), NEW whole \in Seq(Byte), MinSize <= Len(data), Len(data) <= Len(whole),
           \A i \in 1 .. Len(data) : data[i] = whole[i]
    PROVE  \A i \in MinSize .. Len(data) : Rolled(data)[i] = Rolled(whole)[i]
<1> DEFINE K == MinSize
           L == Len(data)
           N == L - K
           Good == {n \in 0 .. N : Rolled(data)[K + n] = Rolled(whole)[K + n]}
<1>1. K \in Nat /\ L \in Nat /\ N \in Nat /\ K + N = L /\ K > 0 /\ Len(whole) \in Nat
  BY Sizes
<1>2. 0 \in Good
  <2>1. Rolled(data)[K] = 0 /\ Rolled(whole)[K] = 0 /\ K + 0 = K
    BY <1>1, RolledIs
  <2> QED BY <1>1, <2>1
<1>3. ASSUME NEW n \in 1 .. N, n - 1 \in Good PROVE n \in Good
  <2>1. /\ K + n \in K + 1 .. L /\ K + n \in K + 1 .. Len(whole) /\ K + n \in 1 .. L
        /\ (K + n) - 1 = K + (n - 1)
    BY <1>1
  <2>2. Rolled(data)[K + n] = (2 * Rolled(data)[K + (n - 1)] + Gear[data[K + n]]) % P[HashBits]
    BY <2>1, RolledIs
  <2>3. Rolled(whole)[K + n] = (2 * Rolled(whole)[K + (n - 1)] + Gear[whole[K + n]]) % P[HashBits]
    BY <1>1, <2>1, RolledIs
  <2>4. Rolled(data)[K + (n - 1)] = Rolled(whole)[K + (n - 1)] /\ data[K + n] = whole[K + n]
    BY <1>3, <2>1
  <2> QED BY <2>2, <2>3, <2>4
<1> HIDE DEF Good
<1>a. N \in Nat
  BY <1>1
<1>4. \A n \in 0 .. N : n \in Good
  <2> HIDE DEF N
  <2> QED BY <1>a, <1>2, <1>3, UpTo
<1>5. ASSUME NEW i \in K .. L PROVE Rolled(data)[i] = Rolled(whole)[i]
  <2>1. i - K \in 0 .. N /\ K + (i - K) = i
    BY <1>1
  <2>2. Rolled(data)[K + (i - K)] = Rolled(whole)[K + (i - K)]
    BY <1>4, <2>1 DEF Good
  <2> QED BY <2>1, <2>2
<1> QED BY <1>5

(* What was added to a hash since position k, each byte doubled as often as *)
(* bytes came after it.                                                     *)
Added(r, data, k, i) ==
    /\ r \in [0 .. i - k -> Nat] /\ r[0] = 0
    /\ \A t \in 1 .. i - k : r[t] = 2 * r[t - 1] + Gear[data[k + t]]

LEMMA WindowSum ==
    ASSUME NEW data \in Seq(Byte), NEW k \in Nat, NEW i \in Nat, k < i, i <= Len(data), i - k <= HashBits
    PROVE  \E r : /\ Added(r, data, k, i)
                  /\ MapThenSumSet(LAMBDA j : PowerOfTwo[i - j] * Gear[data[j]], k + 1 .. i) = r[i - k]
<1> DEFINE S == k + 1 .. i
           w == [j \in S |-> P[i - j] * Gear[data[j]]]
           Body(f) == [T \in SUBSET S |->
                         IF T = {} THEN 0
                         ELSE P[i - (CHOOSE x \in T : TRUE)] * Gear[data[CHOOSE x \in T : TRUE]]
                              + f[T \ {CHOOSE x \in T : TRUE}]]
           sum == CHOOSE f : f = Body(f)
           N == i - k
<1>1. MapThenSumSet(LAMBDA j : PowerOfTwo[i - j] * Gear[data[j]], k + 1 .. i) = sum[S]
  BY DEF MapThenSumSet, MapThenFoldSet, P
<1>2. N \in Nat /\ k + N = i /\ N <= HashBits /\ HashBits \in Nat
  BY Sizes
<1>3. \A j \in S : P[i - j] \in Nat /\ Gear[data[j]] \in Nat /\ data[j] \in Byte
  <2> SUFFICES ASSUME NEW j \in S PROVE P[i - j] \in Nat /\ Gear[data[j]] \in Nat /\ data[j] \in Byte
    OBVIOUS
  <2>1. j \in 1 .. Len(data) /\ i - j \in 0 .. HashBits
    BY <1>2
  <2> QED BY <2>1, Sizes, PowersOfTwo
<1>4. w \in [S -> Nat] /\ \A j \in S : w[j] = P[i - j] * Gear[data[j]]
  <2>1. \A j \in S : P[i - j] * Gear[data[j]] \in Nat
    BY <1>3, Products
  <2> HIDE DEF S
  <2> QED BY <2>1
<1>5. IsFiniteSet(S)
  BY FS_Interval
<1> HIDE DEF S, w
<1>6. \A T \in (SUBSET S) \ {{}} : Some(T) \in S
  BY DEF Some
<1>7. PICK f \in [SUBSET S -> Nat] : Sums(f, S, w)
  BY <1>4, <1>5, SumsExist
<1>8. f = Body(f)
  <2>1. /\ f[{}] = 0
        /\ \A T \in (SUBSET S) \ {{}} : f[T] = P[i - Some(T)] * Gear[data[Some(T)]] + f[T \ {Some(T)}]
    BY <1>4, <1>6, <1>7 DEF Sums
  <2>2. ASSUME NEW T \in SUBSET S PROVE f[T] = Body(f)[T]
    BY <2>1 DEF Some
  <2> DEFINE g == Body(f)
  <2>3. DOMAIN g = SUBSET S /\ g = [T \in SUBSET S |-> g[T]]
    OBVIOUS
  <2>4. \A T \in SUBSET S : f[T] = g[T]
    BY <2>2
  <2> HIDE DEF g
  <2>5. f = g
    BY <1>7, <2>3, <2>4
  <2> QED BY <2>5 DEF g
<1>9. sum = Body(sum)
  <2> HIDE DEF Body
  <2> QED BY <1>8
<1> HIDE DEF sum
<1>10. Sums(sum, S, w)
  <2>1. /\ sum[{}] = 0
        /\ \A T \in (SUBSET S) \ {{}} : sum[T] = P[i - Some(T)] * Gear[data[Some(T)]] + sum[T \ {Some(T)}]
    <3> DEFINE g == Body(sum)
    <3>1. /\ g[{}] = 0
          /\ \A T \in (SUBSET S) \ {{}} : g[T] = P[i - Some(T)] * Gear[data[Some(T)]] + sum[T \ {Some(T)}]
      BY DEF Some
    <3>2. sum = g
      BY <1>9
    <3> HIDE DEF g
    <3> QED BY <3>1, <3>2
  <2> QED BY <1>4, <1>6, <2>1 DEF Sums
<1> HIDE DEF Body
<1>d. w \in [S -> Nat]
  BY <1>4
<1>e. \A T \in SUBSET S : \A x \in T : sum[T] = w[x] + sum[T \ {x}]
  <2>1. AnyOrder(sum, S, w)
    BY <1>5, <1>d, <1>10, SumTakesAny
  <2> QED BY <2>1 DEF AnyOrder
<1> DEFINE step == [e \in (1 .. N) \X Nat |-> 2 * e[2] + Gear[data[k + e[1]]]]
<1>11. \A t \in 1 .. N : k + t \in S
  BY <1>2 DEF S
<1>12. step \in StepsOf(N, Nat) /\ \A t \in 1 .. N, h \in Nat : step[<<t, h>>] = 2 * h + Gear[data[k + t]]
  <2>1. ASSUME NEW t \in 1 .. N, NEW h \in Nat PROVE 2 * h + Gear[data[k + t]] \in Nat
    <3>1. Gear[data[k + t]] \in Nat
      BY <1>3, <1>11
    <3> DEFINE x == Gear[data[k + t]]
    <3> HIDE DEF x
    <3>2. x \in Nat => 2 * h + x \in Nat
      OBVIOUS
    <3> QED BY <3>1, <3>2 DEF x
  <2> HIDE DEF N
  <2> QED BY <2>1 DEF StepsOf
<1> HIDE DEF step
<1>13. PICK r : Solves(r, N, Nat, 0, step)
  BY <1>2, <1>12, RecursionExists
<1>14. Added(r, data, k, i)
  <2>1. /\ r \in [0 .. N -> Nat] /\ r[0] = 0
        /\ \A t \in 1 .. N : r[t] = step[<<t, r[t - 1]>>]
    BY <1>13 DEF Solves
  <2>2. \A t \in 1 .. N : t - 1 \in 0 .. N
    BY <1>2
  <2>3. \A t \in 1 .. N : r[t] = 2 * r[t - 1] + Gear[data[k + t]]
    BY <1>12, <2>1, <2>2
  <2> QED BY <2>1, <2>3 DEF Added
<1> DEFINE Good == {t \in 0 .. N : sum[k + 1 .. k + t] = P[N - t] * r[t]}
<1>15. 0 \in Good
  <2>1. k + 1 .. k + 0 = {}
    OBVIOUS
  <2>2. sum[k + 1 .. k + 0] = 0
    BY <1>10, <2>1 DEF Sums
  <2>3. P[N - 0] \in Nat
    BY <1>2, PowersOfTwo
  <2>4. r[0] = 0
    BY <1>14 DEF Added
  <2> HIDE DEF N
  <2>5. sum[k + 1 .. k + 0] = P[N - 0] * r[0]
    BY <2>2, <2>3, <2>4
  <2> QED BY <1>2, <2>5
<1>16. ASSUME NEW t \in 1 .. N, t - 1 \in Good PROVE t \in Good
  <2> DEFINE T == k + 1 .. k + t
             U == k + 1 .. k + (t - 1)
             x == k + t
             g == Gear[data[x]]
             p == P[N - t]
  <2>1. T \in SUBSET S /\ x \in T /\ T \ {x} = U /\ x \in S
    BY <1>2 DEF S
  <2>2. sum[T] = w[x] + sum[U]
    <3> HIDE DEF T, U, x
    <3>1. sum[T] = w[x] + sum[T \ {x}]
      BY <1>e, <2>1
    <3> QED BY <2>1, <3>1
  <2>3. sum[U] = P[N - (t - 1)] * r[t - 1]
    BY <1>16
  <2>4. P[N - (t - 1)] = 2 * p /\ p \in Nat
    <3>1. N - (t - 1) \in 1 .. HashBits /\ (N - (t - 1)) - 1 = N - t /\ N - t \in 0 .. HashBits
      BY <1>2
    <3> QED BY <3>1, PowersOfTwo
  <2>5. w[x] = p * g /\ g \in Nat
    <3>1. i - x = N - t
      BY <1>2
    <3> QED BY <1>3, <1>4, <2>1, <3>1
  <2>6. r[t] = 2 * r[t - 1] + g /\ r[t - 1] \in Nat
    <3>1. t - 1 \in 0 .. N
      BY <1>2
    <3> QED BY <1>14, <3>1 DEF Added
  <2> HIDE DEF T, U, x, g, p, N
  <2>7. p * g + (2 * p) * r[t - 1] = p * (2 * r[t - 1] + g)
    BY <2>4, <2>5, <2>6
  <2>8. sum[T] = p * r[t]
    BY <2>2, <2>3, <2>4, <2>5, <2>6, <2>7
  <2> QED BY <1>2, <2>8 DEF T, p
<1>a. N \in Nat
  BY <1>2
<1> HIDE DEF Good, N
<1>b. \A t \in 1 .. N : t - 1 \in Good => t \in Good
  BY <1>16
<1>c. \A t \in 0 .. N : t \in Good
  BY <1>a, <1>b, <1>15, UpTo
<1>17. N \in Good
  BY <1>a, <1>c
<1>18. sum[k + 1 .. k + N] = P[N - N] * r[N]
  BY <1>17 DEF Good
<1>19. k + 1 .. k + N = S /\ P[N - N] = 1
  BY <1>2, PowersOfTwo DEF S
<1>20. r[N] \in Nat
  BY <1>2, <1>14 DEF Added, N
<1>21. sum[S] = r[N]
  BY <1>18, <1>19, <1>20
<1> QED BY <1>1, <1>14, <1>21 DEF N

(* The rolling hash at i is what was added since k, but for multiples of    *)
(* the width.                                                               *)
LEMMA RolledSince ==
    ASSUME NEW data \in Seq(Byte), NEW k \in MinSize .. Len(data), NEW i \in k .. Len(data),
           i - k <= HashBits, NEW r, Added(r, data, k, i)
    PROVE  \E q \in Nat : P[i - k] * Rolled(data)[k] + r[i - k] = Rolled(data)[i] + P[HashBits] * q
<1> DEFINE N == i - k
           h == Rolled(data)
           M == P[HashBits]
           Good == {t \in 0 .. N : \E q \in Nat : P[t] * h[k] + r[t] = h[k + t] + M * q}
<1>1. N \in Nat /\ k \in Nat /\ k + N = i /\ N <= HashBits /\ MinSize \in Nat /\ MinSize <= k /\ Len(data) \in Nat
      /\ HashBits \in Nat
  BY Sizes
<1>2. /\ \A j \in MinSize .. Len(data) : h[j] \in Nat
      /\ \A j \in MinSize + 1 .. Len(data) : h[j] = (2 * h[j - 1] + Gear[data[j]]) % M
  BY <1>1, RolledIs
<1>3. M \in Nat \ {0}
  BY <1>1, PowersOfTwo
<1>4. /\ r \in [0 .. N -> Nat] /\ r[0] = 0
      /\ \A t \in 1 .. N : r[t] = 2 * r[t - 1] + Gear[data[k + t]]
  BY DEF Added
<1> HIDE DEF h, M
<1>5. 0 \in Good
  <2>1. P[0] = 1 /\ h[k] \in Nat /\ k + 0 = k
    BY <1>1, <1>2, PowersOfTwo
  <2>2. P[0] * h[k] + r[0] = h[k + 0] + M * 0
    BY <1>3, <1>4, <2>1
  <2> QED BY <1>1, <2>2
<1>6. ASSUME NEW t \in 1 .. N, t - 1 \in Good PROVE t \in Good
  <2> DEFINE x == k + t
             g == Gear[data[x]]
             a == h[k + (t - 1)]
             p == P[t - 1]
             s == 2 * a + g
  <2>1. PICK q \in Nat : p * h[k] + r[t - 1] = a + M * q
    BY <1>6
  <2>2. x \in MinSize + 1 .. Len(data) /\ x - 1 = k + (t - 1) /\ x - 1 \in MinSize .. Len(data)
        /\ x \in 1 .. Len(data)
    BY <1>1
  <2>3. h[x] = s % M /\ a \in Nat
    BY <1>2, <2>2
  <2>4. g \in Nat
    BY <2>2, Sizes
  <2>5. P[t] = 2 * p /\ p \in Nat
    <3>1. t \in 1 .. HashBits /\ t - 1 \in 0 .. HashBits
      BY <1>1
    <3> QED BY <3>1, PowersOfTwo
  <2>6. r[t] = 2 * r[t - 1] + g /\ r[t - 1] \in Nat
    <3>1. t - 1 \in 0 .. N
      BY <1>1
    <3> QED BY <1>4, <3>1
  <2>7. h[k] \in Nat
    BY <1>1, <1>2
  <2> DEFINE d == s \div M
  <2> HIDE DEF x, g, a, p
  <2>8. s \in Nat
    BY <2>3, <2>4
  <2> HIDE DEF s
  <2>9. d \in Nat /\ s = h[x] + M * d
    BY <1>3, <2>3, <2>8, Divided
  <2> HIDE DEF d
  <2>10. (2 * p) * h[k] + (2 * r[t - 1] + g) = 2 * (p * h[k] + r[t - 1]) + g
    <3>1. p * h[k] \in Nat /\ (2 * p) * h[k] = 2 * (p * h[k])
      BY <2>5, <2>7, Products
    <3> QED BY <2>4, <2>6, <3>1
  <2>11. 2 * (a + M * q) + g = s + 2 * (M * q)
    <3>1. M * q \in Nat
      BY <1>3, Products
    <3> QED BY <2>3, <2>4, <3>1 DEF s
  <2>12. (h[x] + M * d) + 2 * (M * q) = h[x] + M * (d + 2 * q)
    <3>1. M * (d + 2 * q) = M * d + M * (2 * q) /\ M * (2 * q) = 2 * (M * q)
      BY <1>3, <2>9
    <3>2. M * d \in Nat /\ M * q \in Nat
      BY <1>3, <2>9, Products
    <3>3. h[x] \in Nat
      BY <1>1, <1>2, <2>2
    <3> QED BY <3>1, <3>2, <3>3
  <2>13. P[t] * h[k] + r[t] = h[x] + M * (d + 2 * q)
    BY <2>1, <2>5, <2>6, <2>9, <2>10, <2>11, <2>12
  <2>14. d + 2 * q \in Nat
    BY <2>9
  <2>15. \E c \in Nat : P[t] * h[k] + r[t] = h[k + t] + M * c
    BY <2>13, <2>14 DEF x
  <2> QED BY <1>1, <2>15
<1>a. N \in Nat
  BY <1>1
<1> HIDE DEF Good, N
<1>b. \A t \in 1 .. N : t - 1 \in Good => t \in Good
  BY <1>6
<1>c. \A t \in 0 .. N : t \in Good
  BY <1>a, <1>b, <1>5, UpTo
<1>7. N \in Good
  BY <1>a, <1>c
<1> QED BY <1>1, <1>7 DEF Good, N, h, M

(* A byte further back than the width has no say in the hash.               *)
LEMMA WindowIs ==
    ASSUME NEW data \in Seq(Byte), NEW i \in MinSize + 1 .. Len(data)
    PROVE  WindowHash(data, i) % Mask(i) = Rolled(data)[i] % Mask(i)
<1> DEFINE k == IF i - HashBits >= MinSize THEN i - HashBits ELSE MinSize
           M == P[HashBits]
           m == Mask(i)
           h == Rolled(data)
<1>1. /\ k \in MinSize .. Len(data) /\ k \in Nat /\ i \in k .. Len(data) /\ i \in Nat /\ k < i /\ i <= Len(data)
      /\ i - k <= HashBits /\ MinSize <= Len(data) /\ i \in MinSize .. Len(data)
      /\ (k = MinSize \/ i - k = HashBits) /\ HashBits \in Nat
  BY ChunkerAssumption, Sizes
<1>2. WindowHash(data, i) = MapThenSumSet(LAMBDA j : PowerOfTwo[i - j] * Gear[data[j]], k + 1 .. i)
  <2>1. (IF i - HashBits >= MinSize THEN i - HashBits + 1 ELSE MinSize + 1) = k + 1
    BY Sizes
  <2> HIDE DEF k
  <2> QED BY <2>1 DEF WindowHash
<1> HIDE DEF k
<1>3. PICK r : /\ Added(r, data, k, i) /\ WindowHash(data, i) = r[i - k]
  BY <1>1, <1>2, WindowSum
<1>4. PICK q \in Nat : P[i - k] * h[k] + r[i - k] = h[i] + M * q
  BY <1>1, <1>3, RolledSince
<1>5. h[MinSize] = 0 /\ h[k] \in Nat /\ h[i] \in Nat /\ r[i - k] \in Nat
  BY <1>1, <1>3, RolledIs DEF Added
<1>6. PICK c \in Nat : M = m * c
  <2>1. (IF i <= AvgSize THEN SmallBits ELSE LargeBits) \in 0 .. HashBits
    BY Sizes
  <2> QED BY <2>1, PowersDivide DEF Mask, P
<1>7. m \in Nat \ {0} /\ M \in Nat
  <2>1. (IF i <= AvgSize THEN SmallBits ELSE LargeBits) \in 0 .. HashBits /\ HashBits \in 0 .. HashBits
    BY Sizes
  <2> QED BY <2>1, PowersOfTwo DEF Mask, P
<1> DEFINE w == r[i - k]
<1> HIDE DEF h, M, m, w
<1>8. PICK b \in Nat : P[i - k] * h[k] = M * b
  <2>1. CASE k = MinSize
    <3>1. P[i - k] \in Nat
      BY <1>1, PowersOfTwo
    <3>2. P[i - k] * h[k] = 0 /\ M * 0 = 0
      BY <1>5, <1>7, <2>1, <3>1
    <3> QED BY <3>2
  <2>2. CASE i - k = HashBits
    BY <1>5, <2>2 DEF M
  <2> QED BY <1>1, <2>1, <2>2
<1>9. w \in Nat /\ M * b + w = h[i] + M * q
  BY <1>4, <1>5, <1>8 DEF w
<1>10. c * b \in Nat /\ c * q \in Nat /\ M * b = m * (c * b) /\ M * q = m * (c * q)
  BY <1>6, <1>7, Products
<1>11. m * (c * b) \in Nat
  BY <1>7, <1>10, Products
<1>12. w + m * (c * b) = h[i] + m * (c * q)
  BY <1>9, <1>10, <1>11
<1>13. (w + m * (c * b)) % m = w % m /\ (h[i] + m * (c * q)) % m = h[i] % m
  BY <1>5, <1>7, <1>9, <1>10, MultipleAdded
<1>14. w % m = h[i] % m
  BY <1>12, <1>13
<1> QED BY <1>3, <1>14 DEF w, m, h

-----------------------------------------------------------------------------
(* The first chunk.                                                         *)
LEMMA FirstIs ==
    ASSUME NEW data \in Seq(Byte), data # <<>>
    PROVE  /\ FirstChunk(data) \in 1 .. Len(data)
           /\ \A n \in 1 .. Len(data) :
                EndsAt(data, n) /\ (\A j \in 1 .. n - 1 : ~EndsAt(data, j)) => FirstChunk(data) = n
<1> DEFINE L == Len(data)
           First(i) == EndsAt(data, i) /\ \A j \in 1 .. i - 1 : ~EndsAt(data, j)
           S == {i \in 1 .. L : EndsAt(data, i)}
           c == FirstChunk(data)
<1>1. L \in Nat /\ L \in 1 .. L
  BY EmptySeq
<1>2. L \in S
  BY <1>1 DEF EndsAt
<1>3. PICK x \in S : \A y \in S : x <= y
  <2>1. S \in SUBSET Nat /\ S # {}
    BY <1>2
  <2> HIDE DEF S
  <2> QED BY <2>1, LeastNumber
<1>4. x \in 1 .. L /\ First(x)
  <2>1. ASSUME NEW j \in 1 .. x - 1 PROVE ~EndsAt(data, j)
    <3>1. j \in 1 .. L /\ j \in Nat /\ x \in Nat /\ j < x
      BY <1>1
    <3> QED BY <1>3, <3>1
  <2> QED BY <2>1
<1>5. c \in 1 .. L /\ First(c)
  <2>1. c = CHOOSE i \in 1 .. L : First(i)
    BY DEF FirstChunk
  <2> HIDE DEF First, c
  <2> QED BY <1>4, <2>1
<1>6. ASSUME NEW n \in 1 .. L, First(n) PROVE c = n
  <2> HIDE DEF c
  <2>1. ~(c < n) /\ ~(n < c)
    BY <1>5, <1>6
  <2> QED BY <1>5, <2>1
<1> QED BY <1>5, <1>6

(* A cut point that findCutPoint is certain of is the end of the first      *)
(* chunk, whatever is read later.                                           *)
LEMMA CutIsFirst ==
    ASSUME NEW data \in Seq(Byte), NEW whole \in Seq(Byte), data # <<>>, Len(data) <= Len(whole),
           \A i \in 1 .. Len(data) : data[i] = whole[i],
           NEW end \in BOOLEAN, end => Len(data) = Len(whole), findCutPoint(data, end) # 0
    PROVE  /\ findCutPoint(data, end) \in 1 .. Len(data)
           /\ findCutPoint(data, end) = FirstChunk(whole)
<1> DEFINE L == Len(data)
           c == findCutPoint(data, end)
           limit == IF L > MaxSize THEN MaxSize ELSE L
           cuts == {i \in MinSize + 1 .. limit : Rolled(data)[i] % Mask(i) = 0}
<1>1. L \in Nat /\ L >= 1 /\ Len(whole) \in Nat /\ L <= Len(whole) /\ whole # <<>>
  BY EmptySeq
<1>2. c \in 1 .. L => (EndsAt(whole, c) /\ (\A j \in 1 .. c - 1 : ~EndsAt(whole, j)) => c = FirstChunk(whole))
  <2>1. \A n \in 1 .. L : n \in 1 .. Len(whole)
    BY <1>1
  <2> QED BY <1>1, <2>1, FirstIs
<1>3. CASE L < MinSize
  <2>1. c = L /\ L = Len(whole)
    BY <1>3 DEF findCutPoint
  <2>2. EndsAt(whole, L)
    BY <2>1 DEF EndsAt
  <2>3. ASSUME NEW j \in 1 .. L - 1 PROVE ~EndsAt(whole, j)
    <3>1. j # MaxSize /\ j # Len(whole) /\ ~(j > MinSize)
      BY <1>1, <1>3, <2>1, Sizes
    <3> QED BY <3>1 DEF EndsAt
  <2> QED BY <1>1, <1>2, <2>1, <2>2, <2>3
<1>4. CASE L >= MinSize
  <2>1. \A i \in MinSize + 1 .. L : WindowHash(whole, i) % Mask(i) = Rolled(data)[i] % Mask(i)
    <3> SUFFICES ASSUME NEW i \in MinSize + 1 .. L
                 PROVE  WindowHash(whole, i) % Mask(i) = Rolled(data)[i] % Mask(i)
      OBVIOUS
    <3>1. i \in MinSize + 1 .. Len(whole) /\ i \in MinSize .. L /\ MinSize <= L
      BY <1>1, <1>4, Sizes
    <3>2. Rolled(data)[i] = Rolled(whole)[i]
      BY <1>1, <3>1, RolledOfPrefix
    <3>3. WindowHash(whole, i) % Mask(i) = Rolled(whole)[i] % Mask(i)
      BY <3>1, WindowIs
    <3> QED BY <3>2, <3>3
  <2>2. limit \in Nat /\ limit <= L /\ limit <= MaxSize /\ MinSize <= limit
    BY <1>1, <1>4, Sizes
  <2>3. c = IF cuts # {} THEN Min(cuts)
            ELSE IF L >= MaxSize THEN MaxSize
            ELSE IF end THEN L ELSE 0
    BY <1>1, <1>4, Sizes DEF findCutPoint
  <2>4. \A i \in MinSize + 1 .. limit : i \in cuts <=> WindowHash(whole, i) % Mask(i) = 0
    <3> HIDE DEF limit
    <3>1. \A i \in MinSize + 1 .. limit : i \in MinSize + 1 .. L
      BY <1>1, <2>2, Sizes
    <3> QED BY <2>1, <3>1
  <2>5. cuts \subseteq MinSize + 1 .. limit
    OBVIOUS
  <2> HIDE DEF cuts, limit, c
  <2>6. ASSUME NEW n \in 1 .. limit, \A i \in cuts : n <= i
        PROVE  \A j \in 1 .. n - 1 : ~EndsAt(whole, j)
    <3> SUFFICES ASSUME NEW j \in 1 .. n - 1 PROVE ~EndsAt(whole, j)
      OBVIOUS
    <3>1. j # MaxSize /\ j # Len(whole) /\ j \in Nat /\ j < n /\ n \in Nat
      BY <1>1, <2>2, Sizes
    <3>2. ASSUME j > MinSize PROVE WindowHash(whole, j) % Mask(j) # 0
      <4>1. j \in MinSize + 1 .. limit
        BY <2>2, <3>1, <3>2, Sizes
      <4>2. j \notin cuts
        BY <2>6, <3>1
      <4> QED BY <2>4, <4>1, <4>2
    <3> QED BY <3>1, <3>2 DEF EndsAt
  <2>7. CASE cuts # {}
    <3>1. PICK x \in cuts : \A y \in cuts : x <= y
      <4>1. cuts \in SUBSET Nat
        BY <2>2, <2>5, Sizes
      <4> QED BY <2>7, <4>1, LeastNumber
    <3>2. c \in cuts /\ \A y \in cuts : c <= y
      <4>1. c = CHOOSE z \in cuts : \A y \in cuts : z <= y
        BY <2>3, <2>7 DEF Min
      <4> QED BY <3>1, <4>1
    <3>3. c \in 1 .. limit /\ c \in 1 .. L /\ c > MinSize /\ c \in MinSize + 1 .. limit
      BY <1>1, <2>2, <2>5, <3>2, Sizes
    <3>4. EndsAt(whole, c)
      BY <2>4, <3>2, <3>3 DEF EndsAt
    <3>5. \A j \in 1 .. c - 1 : ~EndsAt(whole, j)
      BY <2>6, <3>2, <3>3
    <3> QED BY <1>2, <3>3, <3>4, <3>5 DEF c
  <2>8. CASE cuts = {}
    <3>1. c = limit /\ EndsAt(whole, c) /\ c \in 1 .. L /\ c \in 1 .. limit
      <4>1. CASE L >= MaxSize
        <5>1. c = MaxSize /\ limit = MaxSize
          BY <1>1, <2>3, <2>8, <4>1, Sizes DEF limit
        <5> QED BY <1>1, <4>1, <5>1, Sizes DEF EndsAt
      <4>2. CASE ~(L >= MaxSize)
        <5>1. end /\ c = L /\ limit = L
          <6>1. c # 0
            BY DEF c
          <6>2. limit = L
            BY <1>1, <4>2, Sizes DEF limit
          <6> QED BY <2>3, <2>8, <4>2, <6>1, <6>2
        <5> QED BY <1>1, <5>1 DEF EndsAt
      <4> QED BY <4>1, <4>2
    <3>2. \A j \in 1 .. c - 1 : ~EndsAt(whole, j)
      BY <2>6, <2>8, <3>1
    <3> QED BY <1>2, <3>1, <3>2 DEF c
  <2> QED BY <2>7, <2>8
<1>5. L < MinSize \/ L >= MinSize
  BY <1>1, Sizes
<1> QED BY <1>3, <1>4, <1>5

-----------------------------------------------------------------------------
(* All chunks.                                                              *)
Chunks == Seq(Seq(Byte))
NextChunk(data, k) == FirstChunk(Drop(data, k))

LEMMA Dropped ==
    ASSUME NEW data \in Seq(Byte), NEW k \in 0 .. Len(data) - 1
    PROVE  /\ Drop(data, k) \in Seq(Byte) /\ Len(Drop(data, k)) = Len(data) - k /\ Drop(data, k) # <<>>
           /\ \A i \in 1 .. Len(data) - k : Drop(data, k)[i] = data[k + i]
           /\ NextChunk(data, k) \in 1 .. Len(data) - k
<1> DEFINE s == Drop(data, k)
<1>1. Len(data) \in Nat /\ k \in Nat
  OBVIOUS
<1>2. /\ s \in Seq(Byte) /\ Len(s) = Len(data) - k
      /\ \A i \in 1 .. Len(data) - k : s[i] = data[k + i]
  BY <1>1, SubSeqProperties DEF Drop
<1> HIDE DEF s
<1>3. s # <<>>
  BY <1>1, <1>2
<1>4. FirstChunk(s) \in 1 .. Len(data) - k
  BY <1>2, <1>3, FirstIs
<1> QED BY <1>2, <1>3, <1>4 DEF s, NextChunk

SplitsFrom(f, data, m) ==
    /\ f \in [m .. Len(data) -> Chunks]
    /\ f[Len(data)] = <<>>
    /\ \A k \in m .. Len(data) - 1 :
         f[k] = <<SubSeq(data, k + 1, k + NextChunk(data, k))>> \o f[k + NextChunk(data, k)]

LEMMA SplitFromIs ==
    ASSUME NEW data \in Seq(Byte)
    PROVE  SplitsFrom(SplitFrom(data), data, 0)
<1> DEFINE L == Len(data)
           n(k) == NextChunk(data, k)
           chunk(k) == SubSeq(data, k + 1, k + n(k))
           Body(f) == [k \in 0 .. L |-> IF k = L THEN <<>> ELSE <<chunk(k)>> \o f[k + n(k)]]
           from == CHOOSE f : f = Body(f)
           Good == {t \in 0 .. L : \E f : SplitsFrom(f, data, L - t)}
<1>1. L \in Nat
  OBVIOUS
<1>2. SplitFrom(data) = from
  BY DEF SplitFrom, NextChunk
<1>3. \A k \in 0 .. L - 1 : n(k) \in 1 .. L - k
  BY Dropped
<1>4. \A k \in 0 .. L - 1 : <<chunk(k)>> \in Chunks
  <2> SUFFICES ASSUME NEW k \in 0 .. L - 1 PROVE chunk(k) \in Seq(Byte)
    BY DEF Chunks
  <2>1. n(k) \in 1 .. L - k
    BY <1>3
  <2> HIDE DEF n
  <2>2. k + 1 \in 1 .. L + 1 /\ k + n(k) \in Int /\ k + n(k) <= L
    BY <1>1, <2>1
  <2> QED BY <2>1, <2>2, SubSeqProperties
<1> HIDE DEF n
<1>5. 0 \in Good
  <2> DEFINE f == [k \in L .. L |-> <<>>]
  <2>1. L \in L .. L /\ L - 0 = L /\ L .. L - 1 = {}
    BY <1>1
  <2>2. <<>> \in Chunks
    BY DEF Chunks
  <2>3. f \in [L .. L -> Chunks] /\ f[L] = <<>>
    BY <2>1, <2>2
  <2>4. SplitsFrom(f, data, L - 0)
    <3> HIDE DEF f
    <3> QED BY <2>1, <2>3 DEF SplitsFrom
  <2> HIDE DEF f
  <2> QED BY <1>1, <2>4
<1>6. ASSUME NEW t \in 1 .. L, t - 1 \in Good PROVE t \in Good
  <2> DEFINE m == L - t
  <2>1. m \in 0 .. L - 1 /\ L - (t - 1) = m + 1 /\ m \in Nat
    BY <1>1
  <2>2. PICK f : SplitsFrom(f, data, m + 1)
    BY <1>6, <2>1
  <2>3. /\ f \in [m + 1 .. L -> Chunks] /\ f[L] = <<>>
        /\ \A k \in m + 1 .. L - 1 : f[k] = <<chunk(k)>> \o f[k + n(k)]
    BY <2>2 DEF SplitsFrom, n
  <2> DEFINE new == <<chunk(m)>> \o f[m + n(m)]
             g == [k \in m .. L |-> IF k = m THEN new ELSE f[k]]
  <2> HIDE DEF m, chunk, L
  <2>4. new \in Chunks
    <3>1. m + n(m) \in m + 1 .. L
      BY <1>1, <1>3, <2>1
    <3>2. <<chunk(m)>> \in Chunks /\ f[m + n(m)] \in Chunks
      BY <1>4, <2>1, <2>3, <3>1
    <3> QED BY <3>2 DEF Chunks
  <2> HIDE DEF new
  <2>5. /\ g \in [m .. L -> Chunks] /\ g[m] = new
        /\ \A k \in m + 1 .. L : g[k] = f[k]
    <3>1. m \in m .. L /\ \A k \in m .. L : k = m \/ k \in m + 1 .. L
      BY <1>1, <2>1
    <3>2. \A k \in m + 1 .. L : k \in m .. L /\ k # m
      BY <1>1, <2>1
    <3> QED BY <2>3, <2>4, <3>1, <3>2
  <2> HIDE DEF g
  <2>6. g[L] = <<>>
    <3>1. L \in m + 1 .. L
      BY <1>1, <2>1
    <3> QED BY <2>3, <2>5, <3>1
  <2>7. ASSUME NEW k \in m .. L - 1 PROVE g[k] = <<chunk(k)>> \o g[k + n(k)]
    <3>1. k \in 0 .. L - 1
      BY <1>1, <2>1
    <3>2. k + n(k) \in m + 1 .. L
      BY <1>1, <1>3, <2>1, <3>1
    <3>3. g[k + n(k)] = f[k + n(k)]
      BY <2>5, <3>2
    <3>4. CASE k = m
      BY <2>5, <3>3, <3>4 DEF new
    <3>5. CASE k # m
      <4>1. k \in m + 1 .. L - 1 /\ k \in m + 1 .. L
        BY <1>1, <2>1, <3>5
      <4>2. f[k] = <<chunk(k)>> \o f[k + n(k)]
        BY <2>3, <4>1
      <4> QED BY <2>5, <3>3, <4>1, <4>2
    <3> QED BY <3>4, <3>5
  <2>8. SplitsFrom(g, data, m)
    BY <2>5, <2>6, <2>7 DEF SplitsFrom, chunk, n, L
  <2> QED BY <2>8 DEF m
<1> HIDE DEF Good, Body
<1>b. \A t \in 1 .. L : t - 1 \in Good => t \in Good
  BY <1>6
<1>c. \A t \in 0 .. L : t \in Good
  <2> HIDE DEF L
  <2> QED BY <1>1, <1>b, <1>5, UpTo
<1>7. PICK f : SplitsFrom(f, data, 0)
  <2>1. L \in Good /\ L - L = 0
    BY <1>1, <1>c
  <2> QED BY <2>1 DEF Good
<1>8. /\ f \in [0 .. L -> Chunks] /\ f[L] = <<>>
      /\ \A k \in 0 .. L - 1 : f[k] = <<chunk(k)>> \o f[k + n(k)]
  BY <1>7 DEF SplitsFrom, n
<1> HIDE DEF chunk, L
<1>9. f = Body(f)
  <2> DEFINE b == [k \in 0 .. L |-> IF k = L THEN <<>> ELSE <<chunk(k)>> \o f[k + n(k)]]
  <2>1. ASSUME NEW k \in 0 .. L PROVE f[k] = b[k]
    <3>1. k = L \/ (k \in 0 .. L - 1 /\ k # L)
      BY <1>1
    <3> QED BY <1>8, <3>1
  <2>2. f = [k \in 0 .. L |-> f[k]] /\ b = [k \in 0 .. L |-> b[k]]
    BY <1>8
  <2> HIDE DEF b
  <2>3. f = b
    BY <2>1, <2>2
  <2> QED BY <2>3 DEF b, Body
<1>10. from = Body(from)
  BY <1>9
<1> HIDE DEF from
<1>11. /\ from[L] = <<>> /\ from = [k \in 0 .. L |-> from[k]]
       /\ \A k \in 0 .. L - 1 : from[k] = <<chunk(k)>> \o from[k + n(k)]
  <2> DEFINE b == [k \in 0 .. L |-> IF k = L THEN <<>> ELSE <<chunk(k)>> \o from[k + n(k)]]
  <2>1. from = b
    BY <1>10 DEF Body
  <2>2. L \in 0 .. L /\ \A k \in 0 .. L - 1 : k \in 0 .. L /\ k # L
    BY <1>1
  <2>3. b[L] = <<>> /\ \A k \in 0 .. L - 1 : b[k] = <<chunk(k)>> \o from[k + n(k)]
    BY <2>2
  <2>4. b = [k \in 0 .. L |-> b[k]]
    OBVIOUS
  <2> HIDE DEF b
  <2> QED BY <2>1, <2>3, <2>4
<1> DEFINE Typed == {t \in 0 .. L : \A k \in L - t .. L : from[k] \in Chunks}
<1>12. 0 \in Typed
  <2>1. \A k \in L - 0 .. L : k = L
    BY <1>1
  <2>2. <<>> \in Chunks
    BY DEF Chunks
  <2> QED BY <1>1, <1>11, <2>1, <2>2
<1>13. ASSUME NEW t \in 1 .. L, t - 1 \in Typed PROVE t \in Typed
  <2>1. \A k \in L - (t - 1) .. L : from[k] \in Chunks
    BY <1>13
  <2> DEFINE m == L - t
  <2>2. m \in 0 .. L - 1 /\ \A k \in m .. L : k = m \/ k \in L - (t - 1) .. L
    BY <1>1
  <2>3. from[m] \in Chunks
    <3>1. m + n(m) \in L - (t - 1) .. L
      BY <1>1, <1>3, <2>2
    <3>2. <<chunk(m)>> \in Chunks /\ from[m + n(m)] \in Chunks
      BY <1>4, <2>1, <2>2, <3>1 DEF chunk
    <3>3. from[m] = <<chunk(m)>> \o from[m + n(m)]
      BY <1>11, <2>2
    <3> HIDE DEF m
    <3> QED BY <3>2, <3>3 DEF Chunks
  <2>4. \A k \in m .. L : from[k] \in Chunks
    BY <2>1, <2>2, <2>3
  <2> QED BY <2>4
<1> HIDE DEF Typed
<1>d. \A t \in 1 .. L : t - 1 \in Typed => t \in Typed
  BY <1>13
<1>14. \A t \in 0 .. L : t \in Typed
  BY <1>1, <1>12, <1>d, UpTo
<1>15. \A k \in 0 .. L : from[k] \in Chunks
  <2>1. L \in Typed /\ L - L = 0
    BY <1>1, <1>14
  <2> QED BY <2>1 DEF Typed
<1>16. from \in [0 .. L -> Chunks]
  BY <1>11, <1>15
<1> QED BY <1>2, <1>11, <1>16 DEF SplitsFrom, chunk, n, L

-----------------------------------------------------------------------------
(* What was emitted and the chunks of what was not make up the split of the *)
(* content.                                                                 *)
At == consumed - Len(pending)

ChunkerTypeOK ==
    /\ content \in Seq(Byte) /\ consumed \in 0 .. Len(content)
    /\ pending \in Seq(Byte) /\ Len(pending) <= consumed
    /\ chunks \in Chunks /\ eof \in BOOLEAN

ChunkerInv ==
    /\ ChunkerTypeOK
    /\ \A i \in 1 .. Len(pending) : pending[i] = content[At + i]
    /\ eof => consumed = Len(content)
    /\ SplitFrom(content)[0] = chunks \o SplitFrom(content)[At]
    /\ chunker = "done" => pending = <<>> /\ consumed = Len(content)

LEMMA ChunkerStarts == ChunkerInit => ChunkerInv
<1> SUFFICES ASSUME ChunkerInit PROVE ChunkerInv
  OBVIOUS
<1>1. content \in Seq(Byte)
  <2>1. PICK n \in 0 .. MaxLength : content \in [1 .. n -> Byte]
    BY DEF ChunkerInit, Byte
  <2>2. n \in Nat
    BY ChunkerAssumption
  <2> QED BY <2>1, <2>2
<1>2. consumed = 0 /\ pending = <<>> /\ chunks = <<>> /\ eof = FALSE /\ chunker = "reading"
  BY DEF ChunkerInit
<1>3. Len(pending) = 0 /\ At = 0 /\ pending \in Seq(Byte)
  <2>1. pending = <<>> /\ <<>> \in Seq(Byte) /\ Len(<<>>) = 0
    BY <1>2
  <2>2. pending \in Seq(Byte) /\ Len(pending) = 0
    BY <2>1
  <2>3. consumed - Len(pending) = 0
    <3>1. consumed = 0
      BY <1>2
    <3>2. Len(pending) = 0
      BY <2>2
    <3> QED BY <3>1, <3>2
  <2> QED BY <2>2, <2>3 DEF At
<1>4. SplitFrom(content)[0] \in Chunks
  <2>1. 0 \in 0 .. Len(content)
    BY <1>1
  <2> QED BY <1>1, <2>1, SplitFromIs DEF SplitsFrom
<1>5. SplitFrom(content)[0] = <<>> \o SplitFrom(content)[0]
  BY <1>4 DEF Chunks
<1>6. chunks \in Chunks
  BY <1>2 DEF Chunks
<1>7. ChunkerTypeOK
  <2>1. 0 \in 0 .. Len(content)
    BY <1>1
  <2>2. consumed = 0 /\ eof \in BOOLEAN
    BY <1>2
  <2>3. Len(pending) <= consumed
    BY <1>3, <2>2
  <2> QED BY <1>1, <1>3, <1>6, <2>1, <2>2, <2>3 DEF ChunkerTypeOK
<1>8. \A i \in 1 .. Len(pending) : pending[i] = content[At + i]
  BY <1>3
<1>9. SplitFrom(content)[0] = chunks \o SplitFrom(content)[At]
  BY <1>2, <1>3, <1>5
<1> QED BY <1>2, <1>7, <1>8, <1>9 DEF ChunkerInv

LEMMA ReadKeepsSplit ==
    ASSUME ChunkerInv, Read
    PROVE  ChunkerInv'
<1>1. /\ content \in Seq(Byte) /\ consumed \in 0 .. Len(content) /\ Len(content) \in Nat
      /\ pending \in Seq(Byte) /\ Len(pending) <= consumed /\ Len(pending) \in Nat
      /\ \A i \in 1 .. Len(pending) : pending[i] = content[At + i]
  BY DEF ChunkerInv, ChunkerTypeOK
<1>2. PICK n \in 0 .. MaxRead :
        /\ consumed + n <= Len(content) /\ consumed' = consumed + n
        /\ pending' = pending \o SubSeq(content, consumed + 1, consumed + n)
  BY DEF Read
<1> DEFINE s == SubSeq(content, consumed + 1, consumed + n)
<1>3. n \in Nat /\ UNCHANGED <<content, chunks>>
  BY ChunkerAssumption DEF Read
<1>4. s \in Seq(Byte) /\ Len(s) = n /\ \A i \in 1 .. n : s[i] = content[consumed + i]
  BY <1>1, <1>2, <1>3, SubSeqProperties
<1>5. PICK old : old = pending
  OBVIOUS
<1>6. PICK new : new = pending'
  OBVIOUS
<1>7. PICK k : k = At
  OBVIOUS
<1> HIDE DEF s
<1>8. new = old \o s /\ old \in Seq(Byte)
  BY <1>1, <1>2, <1>5, <1>6 DEF s
<1>9. /\ new \in Seq(Byte) /\ Len(new) = Len(old) + n
      /\ \A i \in 1 .. Len(new) : new[i] = IF i <= Len(old) THEN old[i] ELSE s[i - Len(old)]
  <2>1. /\ old \o s \in Seq(Byte) /\ Len(old \o s) = Len(old) + Len(s)
        /\ \A i \in 1 .. Len(old) + Len(s) :
             (old \o s)[i] = IF i <= Len(old) THEN old[i] ELSE s[i - Len(old)]
    BY <1>4, <1>8, ConcatProperties
  <2> QED BY <1>4, <1>8, <2>1
<1>10. /\ k = consumed - Len(old) /\ k \in Nat /\ Len(old) \in Nat
       /\ \A i \in 1 .. Len(old) : old[i] = content[k + i]
  BY <1>1, <1>5, <1>7 DEF At
<1>11. ASSUME NEW i \in 1 .. Len(new) PROVE new[i] = content[k + i]
  <2>1. CASE i <= Len(old)
    BY <1>9, <1>10, <2>1
  <2>2. CASE ~(i <= Len(old))
    <3>1. i - Len(old) \in 1 .. n /\ consumed + (i - Len(old)) = k + i
      BY <1>1, <1>3, <1>9, <1>10, <2>2
    <3> QED BY <1>4, <1>9, <2>2, <3>1
  <2> QED BY <2>1, <2>2
<1>12. consumed' - Len(pending') = k /\ At' = k
  <2>1. (consumed + n) - Len(new) = k
    BY <1>1, <1>3, <1>9, <1>10
  <2> QED BY <1>2, <1>6, <2>1 DEF At
<1>13. \A i \in 1 .. Len(pending') : pending'[i] = content'[At' + i]
  BY <1>3, <1>6, <1>11, <1>12
<1>14. eof' \in BOOLEAN /\ (eof' => consumed' = Len(content)) /\ chunker' # "done"
  BY DEF Read
<1>15. ChunkerTypeOK'
  <2>1. consumed + n \in 0 .. Len(content) /\ Len(new) <= consumed + n
    BY <1>1, <1>2, <1>3, <1>9, <1>10
  <2>2. chunks \in Chunks
    BY DEF ChunkerInv, ChunkerTypeOK
  <2> QED BY <1>1, <1>2, <1>3, <1>6, <1>9, <1>14, <2>1, <2>2 DEF ChunkerTypeOK
<1>16. SplitFrom(content')[0] = chunks' \o SplitFrom(content')[At']
  <2>1. SplitFrom(content)[0] = chunks \o SplitFrom(content)[k]
    BY <1>7 DEF ChunkerInv
  <2> QED BY <1>3, <1>12, <2>1
<1>17. eof' => consumed' = Len(content')
  BY <1>3, <1>14
<1> QED BY <1>13, <1>14, <1>15, <1>16, <1>17 DEF ChunkerInv

LEMMA EmitKeepsSplit ==
    ASSUME ChunkerInv, Emit
    PROVE  ChunkerInv'
<1>1. /\ content \in Seq(Byte) /\ consumed \in 0 .. Len(content) /\ Len(content) \in Nat
      /\ pending \in Seq(Byte) /\ Len(pending) <= consumed /\ Len(pending) \in Nat
      /\ chunks \in Chunks /\ eof \in BOOLEAN /\ (eof => consumed = Len(content))
      /\ \A i \in 1 .. Len(pending) : pending[i] = content[At + i]
      /\ SplitFrom(content)[0] = chunks \o SplitFrom(content)[At]
  BY DEF ChunkerInv, ChunkerTypeOK
<1>2. /\ pending # <<>> /\ findCutPoint(pending, eof) # 0 /\ UNCHANGED <<content, consumed, eof>>
      /\ chunker' # "done"
  BY DEF Emit
<1>3. CASE UNCHANGED <<chunks, pending>>
  BY <1>1, <1>2, <1>3 DEF ChunkerInv, ChunkerTypeOK, At
<1>4. CASE /\ chunks' = Append(chunks, SubSeq(pending, 1, findCutPoint(pending, eof)))
           /\ pending' = Drop(pending, findCutPoint(pending, eof))
  <2> DEFINE n == findCutPoint(pending, eof)
             k == At
             rest == Drop(content, k)
             chunk == SubSeq(pending, 1, n)
  <2>1. k \in Nat /\ k \in 0 .. Len(content) - 1 /\ k + Len(pending) = consumed /\ Len(pending) >= 1
    BY <1>1, <1>2 DEF At
  <2>2. /\ rest \in Seq(Byte) /\ Len(rest) = Len(content) - k
        /\ \A i \in 1 .. Len(content) - k : rest[i] = content[k + i]
        /\ NextChunk(content, k) \in 1 .. Len(content) - k
    BY <1>1, <2>1, Dropped
  <2>3. n \in 1 .. Len(pending) /\ n = FirstChunk(rest)
    <3>1. Len(pending) <= Len(rest) /\ (eof => Len(pending) = Len(rest))
      BY <1>1, <2>1, <2>2
    <3>2. \A i \in 1 .. Len(pending) : pending[i] = rest[i]
      <4>1. \A i \in 1 .. Len(pending) : i \in 1 .. Len(content) - k
        BY <1>1, <2>1
      <4> QED BY <1>1, <2>2, <4>1
    <3> HIDE DEF rest, k
    <3> QED BY <1>1, <1>2, <2>2, <3>1, <3>2, CutIsFirst
  <2>4. NextChunk(content, k) = n
    BY <2>3 DEF NextChunk
  <2> HIDE DEF n, rest
  <2>5. /\ chunk \in Seq(Byte) /\ Len(chunk) = n
        /\ \A i \in 1 .. n : chunk[i] = pending[i]
    BY <1>1, <2>3, SubSeqProperties
  <2>6. chunk = SubSeq(content, k + 1, k + n)
    <3> DEFINE c == SubSeq(content, k + 1, k + n)
    <3>1. k + n <= Len(content) /\ n \in Nat
      BY <1>1, <2>1, <2>3
    <3>2. c \in Seq(Byte) /\ Len(c) = n /\ \A i \in 1 .. n : c[i] = content[k + i]
      <4> HIDE DEF k
      <4> QED BY <1>1, <2>1, <3>1, SubSeqProperties
    <3>3. \A i \in 1 .. n : chunk[i] = content[k + i]
      <4>1. \A i \in 1 .. n : i \in 1 .. Len(pending)
        BY <1>1, <2>3
      <4> QED BY <1>1, <2>5, <4>1
    <3> HIDE DEF c, chunk, k
    <3>4. \A i \in 1 .. n : chunk[i] = c[i]
      BY <3>2, <3>3
    <3>5. chunk = c
      BY <2>5, <3>2, <3>4, SeqEqual
    <3> QED BY <3>5 DEF c
  <2> HIDE DEF chunk
  <2>7. pending' = Drop(pending, n) /\ chunks' = Append(chunks, chunk)
    BY <1>4 DEF n, chunk
  <2>8. PICK left : left = Drop(pending, n)
    OBVIOUS
  <2>9. /\ left \in Seq(Byte) /\ Len(left) = Len(pending) - n
        /\ \A i \in 1 .. Len(left) : left[i] = pending[n + i]
    <3>1. n + 1 \in Int /\ n + 1 <= Len(pending) + 1 /\ n + 1 >= 1 /\ n \in Nat
      BY <1>1, <2>3
    <3>2. /\ Drop(pending, n) \in Seq(Byte) /\ Len(Drop(pending, n)) = Len(pending) - n
          /\ \A i \in 1 .. Len(pending) - n : Drop(pending, n)[i] = pending[n + i]
      BY <1>1, <3>1, SubSeqProperties DEF Drop
    <3> QED BY <2>8, <3>2
  <2>10. pending' = left
    BY <2>7, <2>8
  <2>11. At' = k + n
    <3>1. consumed - Len(left) = k + n
      BY <1>1, <2>1, <2>3, <2>9
    <3> QED BY <1>2, <2>10, <3>1 DEF At
  <2>12. PICK j : j = k + n
    OBVIOUS
  <2>13. ASSUME NEW i \in 1 .. Len(left) PROVE left[i] = content[j + i]
    <3>1. n + i \in 1 .. Len(pending) /\ k + (n + i) = j + i
      <4>1. k \in Nat /\ n \in Nat /\ i \in Nat /\ i >= 1 /\ i <= Len(pending) - n /\ Len(pending) \in Nat
        BY <1>1, <2>1, <2>3, <2>9
      <4> HIDE DEF k
      <4> QED BY <2>12, <4>1
    <3>2. left[i] = pending[n + i] /\ pending[n + i] = content[k + (n + i)]
      BY <1>1, <2>9, <3>1
    <3> QED BY <3>1, <3>2
  <2>14. \A i \in 1 .. Len(pending') : pending'[i] = content'[At' + i]
    BY <1>2, <2>10, <2>11, <2>12, <2>13
  <2> DEFINE f == SplitFrom(content)
  <2>15. /\ f[k] = <<chunk>> \o f[j] /\ f[j] \in Chunks
    <3>1. SplitsFrom(f, content, 0)
      BY <1>1, SplitFromIs
    <3>2. f[k] = <<SubSeq(content, k + 1, k + NextChunk(content, k))>> \o f[k + NextChunk(content, k)]
      <4> HIDE DEF f, k
      <4> QED BY <2>1, <3>1 DEF SplitsFrom
    <3>3. j \in 0 .. Len(content)
      BY <1>1, <2>1, <2>3, <2>12
    <3>4. f[j] \in Chunks
      <4> HIDE DEF f
      <4> QED BY <3>1, <3>3 DEF SplitsFrom
    <3> HIDE DEF f, k
    <3> QED BY <2>4, <2>6, <2>12, <3>2, <3>4
  <2>16. f[0] = Append(chunks, chunk) \o f[j] /\ Append(chunks, chunk) \in Chunks
    <3>1. f[0] = chunks \o (<<chunk>> \o f[j])
      BY <1>1, <2>15
    <3>2. <<chunk>> \in Chunks /\ Append(chunks, chunk) = chunks \o <<chunk>> /\ Append(chunks, chunk) \in Chunks
      BY <1>1, <2>5 DEF Chunks
    <3> HIDE DEF f
    <3>3. chunks \o (<<chunk>> \o f[j]) = (chunks \o <<chunk>>) \o f[j]
      <4>1. \A x, y, z \in Seq(Seq(Byte)) : (x \o y) \o z = x \o (y \o z)
        BY ConcatAssociative
      <4> QED BY <1>1, <2>15, <3>2, <4>1 DEF Chunks
    <3> QED BY <3>1, <3>2, <3>3
  <2>17. SplitFrom(content')[0] = chunks' \o SplitFrom(content')[At']
    <3>1. f[0] = Append(chunks, chunk) \o f[j]
      BY <2>16
    <3> QED BY <1>2, <2>7, <2>11, <2>12, <3>1
  <2>18. ChunkerTypeOK'
    <3>1. Len(left) <= consumed
      BY <1>1, <2>3, <2>9
    <3> QED BY <1>1, <1>2, <2>7, <2>9, <2>10, <2>16, <3>1 DEF ChunkerTypeOK
  <2>19. eof' => consumed' = Len(content')
    BY <1>1, <1>2
  <2> QED BY <1>2, <2>14, <2>17, <2>18, <2>19 DEF ChunkerInv
<1> QED BY <1>3, <1>4 DEF Emit

LEMMA CutAllKeepsSplit ==
    ASSUME ChunkerInv, CutAll
    PROVE  ChunkerInv'
<1>1. UNCHANGED <<content, consumed, pending, chunks, eof>>
  BY DEF CutAll
<1>2. chunker' = "done" => pending = <<>> /\ eof
  BY DEF CutAll
<1>3. UNCHANGED <<At, ChunkerTypeOK>>
  BY <1>1 DEF At, ChunkerTypeOK
<1> QED BY <1>1, <1>2, <1>3 DEF ChunkerInv

LEMMA ChunkerStep ==
    ASSUME ChunkerInv, [ChunkerNext]_chunkerVars
    PROVE  ChunkerInv'
<1>1. CASE UNCHANGED chunkerVars
  BY <1>1 DEF chunkerVars, ChunkerInv, ChunkerTypeOK, At
<1> QED BY <1>1, ReadKeepsSplit, EmitKeepsSplit, CutAllKeepsSplit DEF ChunkerNext

LEMMA SplitFollows == ChunkerInv => SplitIsOfContent
<1> SUFFICES ASSUME ChunkerInv PROVE SplitIsOfContent
  OBVIOUS
<1> DEFINE f == SplitFrom(content)
           whole == f[0]
<1>1. /\ content \in Seq(Byte) /\ consumed \in 0 .. Len(content) /\ pending \in Seq(Byte)
      /\ Len(pending) <= consumed /\ chunks \in Chunks
      /\ whole = chunks \o f[At]
  BY DEF ChunkerInv, ChunkerTypeOK
<1>2. At \in 0 .. Len(content)
  BY <1>1 DEF At
<1>3. SplitsFrom(f, content, 0)
  BY <1>1, SplitFromIs
<1> HIDE DEF f
<1>4. f[At] \in Chunks /\ f[Len(content)] = <<>>
  BY <1>2, <1>3 DEF SplitsFrom
<1> HIDE DEF whole
<1>5. /\ whole \in Chunks /\ Len(whole) = Len(chunks) + Len(f[At]) /\ Len(chunks) \in Nat
      /\ \A i \in 1 .. Len(chunks) : whole[i] = chunks[i]
  BY <1>1, <1>4 DEF Chunks
<1>6. Len(chunks) <= Len(whole)
  BY <1>4, <1>5 DEF Chunks
<1>7. chunks = SubSeq(whole, 1, Len(chunks))
  <2> DEFINE s == SubSeq(whole, 1, Len(chunks))
  <2>1. s \in Chunks /\ Len(s) = Len(chunks) /\ \A i \in 1 .. Len(chunks) : s[i] = whole[i]
    BY <1>5, <1>6, SubSeqProperties DEF Chunks
  <2> HIDE DEF s
  <2>2. \A i \in 1 .. Len(chunks) : chunks[i] = s[i]
    BY <1>5, <2>1
  <2>3. chunks = s
    BY <1>1, <2>1, <2>2, SeqEqual DEF Chunks
  <2> QED BY <2>3 DEF s
<1>8. chunker = "done" => chunks = whole
  <2> SUFFICES ASSUME chunker = "done" PROVE chunks = whole
    OBVIOUS
  <2>1. At = Len(content)
    BY <1>1 DEF ChunkerInv, At
  <2>2. whole = chunks \o <<>>
    BY <1>1, <1>4, <2>1 DEF whole
  <2> QED BY <1>1, <2>2 DEF Chunks
<1> QED BY <1>6, <1>7, <1>8 DEF SplitIsOfContent, whole, f

(* contentDefinedChunker: in whatever pieces the reader hands the content   *)
(* out, for any Gear table, sizes and masks, the chunks are those of the    *)
(* content, whose ends depend on the bytes of one window each.              *)
THEOREM SplitIsOfContentHolds == ChunkerSpec => []SplitIsOfContent
<1>1. ChunkerInit => ChunkerInv
  BY ChunkerStarts
<1>2. ChunkerInv /\ [ChunkerNext]_chunkerVars => ChunkerInv'
  BY ChunkerStep
<1>3. ChunkerInv => SplitIsOfContent
  BY SplitFollows
<1> QED BY <1>1, <1>2, <1>3, PTL DEF ChunkerSpec
==============================================================================
