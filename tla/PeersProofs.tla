----------------------------- MODULE PeersProofs -----------------------------
(* The parts that deal with a party outside the Master, for all values of   *)
(* their constants.  They share no state, and each has an argument of its   *)
(* own:                                                                     *)
(*   LogHub        what was written to a viewer's client and what its       *)
(*                 channel holds are the snapshot and the whole stream, one *)
(*                 after the other (HubInv);                                *)
(*   AgentUploads  an Agent sends a target at most one artifact, so that a  *)
(*                 handler that deletes what it stored never deletes a copy *)
(*                 that was counted (UploadsInv);                           *)
(*   RemoteCalls   as long as its caller waits, what the Agent holds for a  *)
(*                 command, and what the command's row says, is no older    *)
(*                 than the question (RemoteInv);                           *)
(*   VdiTransfer   how far the helper and the statement may be at each step *)
(*                 of the transfer (TransferInv);                           *)
(*   Alerts        what the decision about the last run came to, and that a *)
(*                 monitor remembers what it announced (AlertsInv).         *)
EXTENDS LogHub, AgentUploads, RemoteCalls, VdiTransfer, Alerts, FiniteSetTheorems, SequenceTheorems, TLAPS

-----------------------------------------------------------------------------
(* LogHub                                                                   *)
USE LogHubAssumption
(* Until a stream is complete its lines leave room for the completion.     *)
StreamsCounted == \A r \in Runs : run[r] # "over" => done[r] = 0 /\ events[r] <= MaxLines

(* A handler that is at work looks at a record.                            *)
Watching == \A v \in Viewers : viewer[v].pc # "idle" => viewer[v].run \in Runs

Typed == TypeOK /\ StreamsCounted /\ Watching

LEMMA HubTypeInit == Init => Typed
BY DEF Init, Typed, StreamsCounted, Watching, TypeOK, View, Away

(* Publishing keeps the types while the stream stays within its bound.     *)
LEMMA TypePublish ==
  ASSUME TypeOK, NEW r \in Runs, Publish(r), events[r] <= MaxLines
  PROVE  /\ events' \in [Runs -> 0 .. MaxLines + 1]
         /\ chan' \in [Viewers -> Seq(Event)]
         /\ \A v \in Viewers : Len(chan'[v]) <= Buffer
<1>1. events[r] \in 0 .. MaxLines + 1 /\ events[r] + 1 \in Event /\ events[r] + 1 \in 0 .. MaxLines + 1
  BY DEF TypeOK, Event
<1>2. events' \in [Runs -> 0 .. MaxLines + 1]
  BY <1>1 DEF Publish, TypeOK
<1>3. ASSUME NEW v \in Viewers
      PROVE  chan'[v] \in Seq(Event) /\ Len(chan'[v]) <= Buffer
  <2>1. chan[v] \in Seq(Event) /\ Len(chan[v]) <= Buffer /\ Len(chan[v]) \in Nat
    BY DEF TypeOK
  <2>2. CASE chan'[v] = chan[v]
    BY <2>1, <2>2
  <2>3. CASE chan'[v] = Append(chan[v], events[r] + 1) /\ Len(chan[v]) < Buffer
    <3>1. Append(chan[v], events[r] + 1) \in Seq(Event)
      BY <1>1, <2>1
    <3>2. Len(Append(chan[v], events[r] + 1)) = Len(chan[v]) + 1
      BY <2>1
    <3> QED BY <2>1, <2>3, <3>1, <3>2
  <2> QED BY <2>2, <2>3 DEF Publish
<1>4. chan' = [v \in Viewers |-> chan'[v]]
  BY DEF Publish
<1> QED BY <1>2, <1>3, <1>4

LEMMA TypeRun ==
  ASSUME Typed, NEW r \in Runs, RunStep(r)
  PROVE  Typed'
<1>a. TypeOK /\ StreamsCounted
  BY DEF Typed
<1>b. Watching'
  BY DEF Typed, Watching, RunStep, WriteLine, Finalize, Complete
<1>1. CASE WriteLine(r)
  <2>1. events[r] <= MaxLines /\ events[r] + 1 \in Nat
    BY <1>a, <1>1 DEF WriteLine, TypeOK
  <2>2. TypeOK'
    BY <1>a, <1>1, <2>1, TypePublish DEF WriteLine, TypeOK
  <2>3. StreamsCounted'
    <3>1. done[r] = 0 => events[r] + 1 <= MaxLines
      BY <1>a, <1>1 DEF WriteLine, TypeOK
    <3>2. events' = [events EXCEPT ![r] = events[r] + 1] /\ UNCHANGED <<run, done>>
      BY <1>1 DEF WriteLine, Publish
    <3> QED BY <1>a, <3>1, <3>2 DEF StreamsCounted, TypeOK
  <2> QED BY <1>b, <2>2, <2>3 DEF Typed
<1>2. CASE Finalize(r)
  BY <1>a, <1>b, <1>2 DEF Finalize, Typed, TypeOK, StreamsCounted
<1>3. CASE Complete(r)
  <2>1. events[r] <= MaxLines /\ events[r] + 1 \in 0 .. MaxLines + 1
    BY <1>a, <1>3 DEF Complete, TypeOK, StreamsCounted
  <2>2. TypeOK'
    BY <1>a, <1>3, <2>1, TypePublish DEF Complete, TypeOK
  <2>3. StreamsCounted'
    <3>1. events' = [events EXCEPT ![r] = events[r] + 1]
      BY <1>3 DEF Complete, Publish
    <3> QED BY <1>a, <1>3, <3>1 DEF Complete, TypeOK, StreamsCounted
  <2> QED BY <1>b, <2>2, <2>3 DEF Typed
<1> QED BY <1>1, <1>2, <1>3 DEF RunStep

(* The beginning of a stream.                                              *)
LEMMA UptoIs ==
  ASSUME NEW n \in Nat
  PROVE  /\ Upto(n) \in Seq(Nat) /\ Len(Upto(n)) = n /\ \A i \in 1 .. n : Upto(n)[i] = i
         /\ n <= MaxLines + 1 => Upto(n) \in Seq(Event)
<1>1. \A i \in 1 .. n : i \in Nat /\ (n <= MaxLines + 1 => i \in Event)
  BY DEF Event
<1> QED BY <1>1 DEF Upto

(* What a handler does to its own record.                                  *)
LEMMA ViewTypes ==
  /\ Away \in View
  /\ \A w \in View, p \in {"subscribe", "replay", "show", "follow", "leave"} : [w EXCEPT !.pc = p] \in View
  /\ \A w \in View, n \in 0 .. MaxLines + 1 : [w EXCEPT !.sent = n] \in View
  /\ \A w \in View, n \in 0 .. MaxLines + 1 : [w EXCEPT !.pc = "subscribe", !.past = n] \in View
  /\ \A w \in View, c \in Seq(Event), p \in {"follow", "leave"} :
       [w EXCEPT !.client = c, !.pc = p] \in View
  /\ \A r \in Runs, b \in BOOLEAN, p \in {"snapshot", "subscribe"} :
       [Away EXCEPT !.run = r, !.closed = b, !.pc = p] \in View
<1>1. Away \in View
  BY DEF View, Away
<1>2. \A w \in View, p \in {"subscribe", "replay", "show", "follow", "leave"} : [w EXCEPT !.pc = p] \in View
  BY DEF View
<1>3. \A w \in View, n \in 0 .. MaxLines + 1 : [w EXCEPT !.sent = n] \in View
  BY DEF View
<1>4. ASSUME NEW w \in View, NEW c \in Seq(Event), NEW p \in {"follow", "leave"}
      PROVE  [w EXCEPT !.client = c, !.pc = p] \in View
  <2>1. [w EXCEPT !.client = c] \in View
    BY DEF View
  <2>2. [[w EXCEPT !.client = c] EXCEPT !.pc = p] \in View
    BY <2>1 DEF View
  <2> QED BY <2>2, Zenon
<1>6. ASSUME NEW w \in View, NEW n \in 0 .. MaxLines + 1
      PROVE  [w EXCEPT !.pc = "subscribe", !.past = n] \in View
  <2>1. [w EXCEPT !.pc = "subscribe"] \in View
    BY DEF View
  <2>2. [[w EXCEPT !.pc = "subscribe"] EXCEPT !.past = n] \in View
    BY <2>1 DEF View
  <2> QED BY <2>2, Zenon
<1>5. ASSUME NEW r \in Runs, NEW b \in BOOLEAN, NEW p \in {"snapshot", "subscribe"}
      PROVE  [Away EXCEPT !.run = r, !.closed = b, !.pc = p] \in View
  <2>1. \A w \in View : [w EXCEPT !.run = r] \in View /\ [w EXCEPT !.closed = b] \in View
    BY DEF View
  <2>2. \A w \in View : [w EXCEPT !.pc = p] \in View
    BY DEF View
  <2>3. [[[Away EXCEPT !.run = r] EXCEPT !.closed = b] EXCEPT !.pc = p] \in View
    BY <1>1, <2>1, <2>2
  <2> QED BY <2>3, Zenon
<1> QED BY <1>1, <1>2, <1>3, <1>4, <1>5, <1>6

(* A handler that has read its record begins with an empty view.           *)
LEMMA ReadRecordStarts ==
  ASSUME viewer \in [Viewers -> View], NEW v \in Viewers, ReadRecord(v)
  PROVE  /\ viewer'[v].pc \in {"snapshot", "subscribe"} /\ viewer'[v].run \in Runs
         /\ viewer'[v].sent = 0 /\ viewer'[v].client = <<>>
<1>1. PICK r \in Runs : \E over \in BOOLEAN :
        viewer' = [viewer EXCEPT ![v] =
                    [Away EXCEPT !.run = r, !.closed = over,
                                 !.pc = IF over THEN "subscribe" ELSE "snapshot"]]
  BY DEF ReadRecord
<1>2. \A b \in BOOLEAN, p \in {"snapshot", "subscribe"} :
        LET w == [Away EXCEPT !.run = r, !.closed = b, !.pc = p]
        IN  w.pc = p /\ w.run = r /\ w.sent = 0 /\ w.client = <<>>
  BY DEF Away
<1>3. \E b \in BOOLEAN, p \in {"snapshot", "subscribe"} :
        viewer'[v] = [Away EXCEPT !.run = r, !.closed = b, !.pc = p]
  <2>1. \A over \in BOOLEAN :
          (IF over THEN "subscribe" ELSE "snapshot") \in {"snapshot", "subscribe"}
    OBVIOUS
  <2>2. \E over \in BOOLEAN :
          viewer'[v] = [Away EXCEPT !.run = r, !.closed = over,
                                    !.pc = IF over THEN "subscribe" ELSE "snapshot"]
    BY <1>1, Zenon
  <2> QED BY <2>1, <2>2, Zenon
<1> QED BY <1>2, <1>3

(* What is passed on.                                                      *)
LEMMA ReceiveIs ==
  ASSUME NEW v \in Viewers, Receive(v)
  PROVE  \E p \in {"leave", "follow"} :
           viewer' = [viewer EXCEPT ![v] =
                        [viewer[v] EXCEPT !.client = Append(viewer[v].client, Head(chan[v])), !.pc = p]]
<1>1. viewer' = [viewer EXCEPT ![v] =
                   [viewer[v] EXCEPT !.client = Append(viewer[v].client, Head(chan[v])),
                             !.pc = IF Head(chan[v]) = done[viewer[v].run] THEN "leave" ELSE "follow"]]
  BY DEF Receive
<1>2. (IF Head(chan[v]) = done[viewer[v].run] THEN "leave" ELSE "follow") \in {"leave", "follow"}
  OBVIOUS
<1> QED BY <1>1, <1>2, Zenon

LEMMA TypeView ==
  ASSUME Typed, NEW v \in Viewers, ReadRecord(v) \/ ViewStep(v) \/ Disconnect(v)
  PROVE  Typed'
<1>a. TypeOK /\ StreamsCounted /\ Watching
  BY DEF Typed
<1>b. UNCHANGED <<run, events, done>>
  BY DEF ReadRecord, Disconnect, ViewStep, Snapshot, Subscribe, Replay, Return, Show, Receive, Cancel
<1>c. /\ viewer \in [Viewers -> View] /\ viewer[v] \in View
      /\ chan \in [Viewers -> Seq(Event)] /\ chan[v] \in Seq(Event)
      /\ Len(chan[v]) \in Nat /\ Len(chan[v]) <= Buffer
  BY <1>a DEF TypeOK
<1>d. viewer[v].pc # "idle" => viewer[v].run \in Runs
  BY <1>a DEF Watching
<1>e. Replay(v) => viewer[v].sent + 1 \in Event
  BY <1>a, <1>c, <1>d DEF Replay, View, TypeOK, Event
<1>f. \A n \in Event : n \in 0 .. MaxLines + 1
  BY DEF Event
<1>g. Receive(v) => Head(chan[v]) \in Event
  BY <1>c DEF Receive
<1>1. viewer' \in [Viewers -> View]
  <2>1. CASE ReadRecord(v)
    <3>1. PICK r \in Runs : \E over \in BOOLEAN :
            viewer' = [viewer EXCEPT ![v] =
                        [Away EXCEPT !.run = r, !.closed = over,
                                     !.pc = IF over THEN "subscribe" ELSE "snapshot"]]
      BY <2>1 DEF ReadRecord
    <3>2. \A over \in BOOLEAN :
            [Away EXCEPT !.run = r, !.closed = over,
                         !.pc = IF over THEN "subscribe" ELSE "snapshot"] \in View
      BY ViewTypes
    <3> QED BY <1>c, <3>1, <3>2
  <2>2. CASE Subscribe(v) \/ Return(v) \/ Cancel(v) \/ Disconnect(v)
    BY <1>c, <2>2, ViewTypes DEF Subscribe, Return, Cancel, Disconnect
  <2>5. CASE Snapshot(v)
    <3>1. viewer' = [viewer EXCEPT ![v] = [viewer[v] EXCEPT !.pc = "subscribe", !.past = events[viewer[v].run]]]
      BY <2>5, Zenon DEF Snapshot
    <3>2. events[viewer[v].run] \in 0 .. MaxLines + 1
      BY <1>a, <1>d, <2>5 DEF Snapshot, TypeOK
    <3> QED BY <1>c, <3>1, <3>2, ViewTypes
  <2>6. CASE Show(v)
    <3>1. \E p \in {"follow", "leave"} :
            viewer' = [viewer EXCEPT ![v] = [viewer[v] EXCEPT !.client = Upto(viewer[v].past), !.pc = p]]
      BY <2>6 DEF Show
    <3>2. Upto(viewer[v].past) \in Seq(Event)
      <4>1. viewer[v].past \in 0 .. MaxLines + 1
        BY <1>c DEF View
      <4> QED BY <4>1, UptoIs
    <3>3. \A p \in {"follow", "leave"} : [viewer[v] EXCEPT !.client = Upto(viewer[v].past), !.pc = p] \in View
      BY <1>c, <3>2, ViewTypes
    <3> QED BY <1>c, <3>1, <3>3
  <2>3. CASE Replay(v)
    BY <1>c, <1>e, <1>f, <2>3, ViewTypes DEF Replay
  <2>4. CASE Receive(v)
    <3>1. \E p \in {"leave", "follow"} :
            viewer' = [viewer EXCEPT ![v] =
                         [viewer[v] EXCEPT !.client = Append(viewer[v].client, Head(chan[v])), !.pc = p]]
      BY <2>4, ReceiveIs
    <3>2. Append(viewer[v].client, Head(chan[v])) \in Seq(Event)
      <4>1. viewer[v].client \in Seq(Event)
        BY <1>c DEF View
      <4> QED BY <1>g, <2>4, <4>1
    <3>3. \A p \in {"follow", "leave"} :
            [viewer[v] EXCEPT !.client = Append(viewer[v].client, Head(chan[v])), !.pc = p] \in View
      BY <1>c, <3>2, ViewTypes
    <3> QED BY <1>c, <3>1, <3>3
  <2> QED BY <2>1, <2>2, <2>3, <2>4, <2>5, <2>6 DEF ViewStep
<1>2. mutex' \in Viewers \cup {None}
  BY <1>a DEF TypeOK, ReadRecord, Disconnect, ViewStep, Snapshot, Subscribe, Replay, Return, Show, Receive, Cancel
<1>3. chan' \in [Viewers -> Seq(Event)] /\ \A u \in Viewers : Len(chan'[u]) <= Buffer
  <2>1. CASE Replay(v)
    <3>1. Append(chan[v], viewer[v].sent + 1) \in Seq(Event)
      BY <1>c, <1>e, <2>1
    <3>2. Len(Append(chan[v], viewer[v].sent + 1)) <= Buffer
      BY <1>c, <2>1 DEF Replay
    <3> QED BY <1>a, <1>c, <2>1, <3>1, <3>2 DEF Replay, TypeOK
  <2>2. CASE Receive(v)
    <3>1. Tail(chan[v]) \in Seq(Event) /\ Len(Tail(chan[v])) <= Buffer
      BY <1>c, <2>2 DEF Receive
    <3> QED BY <1>a, <1>c, <2>2, <3>1 DEF Receive, TypeOK
  <2>3. CASE Cancel(v)
    BY <1>a, <2>3 DEF Cancel, TypeOK
  <2>4. CASE UNCHANGED chan
    BY <1>a, <2>4 DEF TypeOK
  <2> QED BY <2>1, <2>2, <2>3, <2>4 DEF ReadRecord, Disconnect, ViewStep, Snapshot, Subscribe, Return, Show
<1>4. Watching'
  <2>1. \A u \in Viewers \ {v} : viewer'[u] = viewer[u]
    BY <1>c DEF ReadRecord, Disconnect, ViewStep, Snapshot, Subscribe, Replay, Return, Show, Receive, Cancel
  <2>2. viewer'[v].pc # "idle" => viewer'[v].run \in Runs
    <3>1. CASE ReadRecord(v)
      BY <1>c, <3>1, ReadRecordStarts
    <3>2. CASE Cancel(v)
      BY <1>c, <3>2 DEF Cancel, Away
    <3>3. CASE Receive(v)
      BY <1>c, <1>d, <3>3 DEF Receive, View
    <3>4. CASE Snapshot(v) \/ Subscribe(v) \/ Replay(v) \/ Return(v) \/ Show(v) \/ Disconnect(v)
      <4>1. viewer[v].pc # "idle"
        BY <3>4 DEF Snapshot, Subscribe, Replay, Return, Show, Disconnect
      <4>2. viewer'[v].run = viewer[v].run
        BY <1>c, <3>4 DEF View, Snapshot, Subscribe, Replay, Return, Show, Disconnect
      <4> QED BY <1>d, <4>1, <4>2
    <3> QED BY <3>1, <3>2, <3>3, <3>4 DEF ViewStep
  <2> QED BY <1>a, <2>1, <2>2 DEF Watching
<1>5. TypeOK' /\ StreamsCounted'
  BY <1>a, <1>b, <1>1, <1>2, <1>3 DEF TypeOK, StreamsCounted
<1> QED BY <1>4, <1>5 DEF Typed

LEMMA HubTypeNext == Typed /\ [Next]_vars => Typed'
<1>1. CASE UNCHANGED vars
  BY <1>1 DEF vars, Typed, TypeOK, StreamsCounted, Watching
<1> QED BY <1>1, TypeRun, TypeView DEF Next

(* The state of the hub keeps its types; no channel overflows.             *)
THEOREM TypeCorrect == Spec => []TypeOK
<1>1. Init => Typed
  BY HubTypeInit
<1>2. Typed /\ [Next]_vars => Typed'
  BY HubTypeNext
<1>3. Typed => TypeOK
  BY DEF Typed
<1> QED BY <1>1, <1>2, <1>3, PTL DEF Spec

-----------------------------------------------------------------------------
(* No gap.  NoGap speaks of viewers that follow; that they begin at the    *)
(* right place comes from what Subscribe does before: while a viewer       *)
(* replays it holds the mutex, so the stream stands still and its channel  *)
(* is the beginning of it.                                                 *)
HubHeld == \A v \in Viewers : viewer[v].pc = "replay" => mutex = v

FreshViewer(v) ==
  viewer[v].pc \in {"idle", "snapshot", "subscribe"} =>
    chan[v] = <<>> /\ viewer[v].sent = 0 /\ viewer[v].client = <<>>

Replayed(v) ==
  viewer[v].pc = "replay" =>
    viewer[v].sent <= events[viewer[v].run] /\ chan[v] = Upto(viewer[v].sent)

Showing(v) ==
  viewer[v].pc = "show" /\ events[viewer[v].run] <= Buffer => chan[v] = Upto(events[viewer[v].run])

Following(v) ==
  viewer[v].pc = "follow" /\ events[viewer[v].run] <= Buffer =>
    /\ viewer[v].past <= Len(viewer[v].client)
    /\ viewer[v].client \o chan[v] = Upto(viewer[v].past) \o Upto(events[viewer[v].run])

Placed(v) == FreshViewer(v) /\ Replayed(v) /\ Showing(v) /\ Following(v)

HubInv == Typed /\ HubHeld /\ \A v \in Viewers : Placed(v)

LEMMA HubInit == Init => HubInv
<1> SUFFICES ASSUME Init PROVE HubInv
  OBVIOUS
<1>1. Typed
  BY HubTypeInit
<1>2. HubHeld /\ \A v \in Viewers : Placed(v)
  BY DEF Init, Away, HubHeld, Placed, FreshViewer, Replayed, Showing, Following
<1> QED BY <1>1, <1>2 DEF HubInv

(* Sequences that grow behind, and that pass an element on.                *)
LEMMA UptoNext ==
  ASSUME NEW n \in Nat
  PROVE  Append(Upto(n), n + 1) = Upto(n + 1)
<1>1. /\ Upto(n) \in Seq(Nat) /\ Len(Upto(n)) = n /\ \A i \in 1 .. n : Upto(n)[i] = i
      /\ Upto(n + 1) \in Seq(Nat) /\ Len(Upto(n + 1)) = n + 1 /\ \A i \in 1 .. n + 1 : Upto(n + 1)[i] = i
  BY UptoIs
<1> DEFINE s == Append(Upto(n), n + 1)
           t == Upto(n + 1)
<1>2. s \in Seq(Nat) /\ Len(s) = n + 1 /\ s[n + 1] = n + 1 /\ \A i \in 1 .. n : s[i] = Upto(n)[i]
  BY <1>1, AppendProperties
<1> HIDE DEF s, t
<1>3. ASSUME NEW i \in 1 .. n + 1 PROVE s[i] = i
  <2>1. CASE i = n + 1
    BY <1>2, <2>1
  <2>2. CASE i \in 1 .. n
    BY <1>1, <1>2, <2>2
  <2> QED BY <2>1, <2>2
<1>4. t \in Seq(Nat) /\ Len(t) = n + 1 /\ \A i \in 1 .. n + 1 : t[i] = i
  BY <1>1 DEF t
<1>5. s = t
  BY <1>2, <1>3, <1>4, SeqEqual
<1> QED BY <1>5 DEF s, t

LEMMA Behind ==
  ASSUME NEW S, NEW s \in Seq(S), NEW t \in Seq(S), NEW e \in S
  PROVE  s \o Append(t, e) = Append(s \o t, e)
<1>1. <<e>> \in Seq(S) /\ s \o t \in Seq(S)
  BY ConcatProperties
<1>2. Append(t, e) = t \o <<e>>
  BY AppendIsConcat
<1>3. Append(s \o t, e) = (s \o t) \o <<e>>
  BY <1>1, AppendIsConcat
<1>4. (s \o t) \o <<e>> = s \o (t \o <<e>>)
  BY <1>1, ConcatAssociative
<1> QED BY <1>2, <1>3, <1>4

LEMMA UptoTwice ==
  ASSUME NEW m \in Nat, NEW n \in Nat
  PROVE  Len(Upto(m) \o Upto(n)) = m + n
<1>1. Upto(m) \in Seq(Nat) /\ Len(Upto(m)) = m /\ Upto(n) \in Seq(Nat) /\ Len(Upto(n)) = n
  BY UptoIs
<1>2. Len(Upto(m) \o Upto(n)) = Len(Upto(m)) + Len(Upto(n))
  BY <1>1, ConcatProperties
<1> QED BY <1>1, <1>2

LEMMA PassedOn ==
  ASSUME NEW S, NEW s \in Seq(S), NEW t \in Seq(S), t # <<>>
  PROVE  /\ Append(s, Head(t)) \o Tail(t) = s \o t
         /\ Len(Append(s, Head(t))) = Len(s) + 1
<1>1. /\ Head(t) \in S /\ Tail(t) \in Seq(S) /\ <<Head(t)>> \in Seq(S)
      /\ Len(Tail(t)) = Len(t) - 1 /\ \A i \in 1 .. Len(Tail(t)) : Tail(t)[i] = t[i + 1]
      /\ Head(t) = t[1] /\ Len(t) \in Nat
  BY HeadTailProperties
<1> DEFINE u == <<Head(t)>> \o Tail(t)
<1>2. u \in Seq(S) /\ Len(u) = Len(t)
  BY <1>1, ConcatProperties
<1>3. ASSUME NEW i \in 1 .. Len(t) PROVE u[i] = t[i]
  <2>1. u[i] = IF i <= 1 THEN <<Head(t)>>[i] ELSE Tail(t)[i - 1]
    BY <1>1, ConcatProperties
  <2>2. CASE i = 1
    BY <1>1, <2>1, <2>2
  <2>3. CASE i > 1
    BY <1>1, <2>1, <2>3
  <2> QED BY <2>2, <2>3
<1> HIDE DEF u
<1>4. u = t
  BY <1>2, <1>3, SeqEqual
<1>5. Append(s, Head(t)) = s \o <<Head(t)>> /\ Len(Append(s, Head(t))) = Len(s) + 1
  BY <1>1, AppendIsConcat, AppendProperties
<1>6. (s \o <<Head(t)>>) \o Tail(t) = s \o u
  BY <1>1, ConcatAssociative DEF u
<1> QED BY <1>4, <1>5, <1>6

(* A new event is put behind the others in the channel of every follower.  *)
LEMMA HubPublish ==
  ASSUME HubInv, NEW r \in Runs, Publish(r), mutex = None, UNCHANGED <<viewer, mutex>>,
         NEW v \in Viewers
  PROVE  Placed(v)'
<1> DEFINE w == viewer[v]
           q == chan[v]
           n == events[r]
<1>a. /\ w \in View /\ q \in Seq(Event) /\ Len(q) \in Nat
      /\ events \in [Runs -> 0 .. MaxLines + 1]
      /\ w.pc # "idle" => w.run \in Runs
  BY DEF HubInv, Typed, TypeOK, Watching
<1>b. /\ n \in Nat /\ w.past \in Nat /\ w.client \in Seq(Event) /\ q \in Seq(Nat) /\ w.client \in Seq(Nat)
      /\ Len(w.client) \in Nat
  <2>1. n \in Nat /\ w.past \in Nat /\ w.client \in Seq(Event) /\ q \in Seq(Event)
    BY <1>a DEF View
  <2>2. Event \subseteq Nat
    BY DEF Event
  <2>3. q \in Seq(Nat) /\ w.client \in Seq(Nat)
    BY <2>1, <2>2, SeqMonotonic
  <2>4. Len(w.client) \in Nat
    BY <2>1, LenProperties
  <2> QED BY <2>1, <2>3, <2>4
<1>c. Placed(v) /\ w.pc # "replay"
  BY DEF HubInv, HubHeld
<1>d. viewer'[v] = w
  OBVIOUS
<1>1. FreshViewer(v)'
  <2>1. w.pc \in {"idle", "snapshot", "subscribe"} => chan'[v] = q
    BY DEF Publish, Subscribers
  <2> QED BY <1>c, <1>d, <2>1 DEF Placed, FreshViewer
<1>2. Replayed(v)'
  BY <1>c, <1>d DEF Replayed
<1>3. CASE w.run # r
  <2>1. chan'[v] = q
    BY <1>3 DEF Publish, Subscribers
  <2>2. w.pc # "idle" => events'[w.run] = events[w.run]
    BY <1>a, <1>3 DEF Publish
  <2>3. Showing(v)' /\ Following(v)'
    BY <1>c, <1>d, <2>1, <2>2 DEF Placed, Showing, Following
  <2> QED BY <1>1, <1>2, <2>3 DEF Placed
<1>4. CASE w.run = r
  <2>1. events'[r] = n + 1
    BY <1>a DEF Publish
  <2>2. w.pc \in {"show", "follow"} /\ Len(q) < Buffer => chan'[v] = Append(q, n + 1)
    BY <1>4 DEF Publish, Subscribers
  <2>3. /\ Upto(n) \in Seq(Nat) /\ Len(Upto(n)) = n /\ Upto(w.past) \in Seq(Nat)
        /\ Len(Upto(w.past)) = w.past
        /\ Append(Upto(n), n + 1) = Upto(n + 1)
    BY <1>b, UptoIs, UptoNext
  <2>4. Showing(v)'
    <3> SUFFICES ASSUME w.pc = "show", n + 1 <= Buffer PROVE chan'[v] = Upto(n + 1)
      BY <1>4, <1>d, <2>1 DEF Showing
    <3>1. q = Upto(n)
      BY <1>4, <1>b, <1>c DEF Placed, Showing
    <3>2. Len(q) < Buffer
      BY <1>b, <2>3, <3>1
    <3> QED BY <2>2, <2>3, <3>1, <3>2
  <2>5. Following(v)'
    <3> SUFFICES ASSUME w.pc = "follow", n + 1 <= Buffer
                 PROVE  /\ w.past <= Len(w.client)
                        /\ w.client \o chan'[v] = Upto(w.past) \o Upto(n + 1)
      BY <1>4, <1>d, <2>1 DEF Following
    <3>1. w.past <= Len(w.client) /\ w.client \o q = Upto(w.past) \o Upto(n)
      <4>1. events[w.run] <= Buffer /\ events[w.run] = n
        BY <1>4, <1>b, LogHubAssumption
      <4>2. Following(v)
        BY <1>c DEF Placed
      <4> QED BY <4>1, <4>2, Zenon DEF Following
    <3> HIDE DEF w, q, n
    <3>2. Len(w.client \o q) = Len(w.client) + Len(q)
      BY <1>b, ConcatProperties
    <3>3. Len(Upto(w.past) \o Upto(n)) = w.past + n
      BY <1>b, UptoTwice
    <3>4. Len(q) < Buffer
      BY <1>a, <1>b, <3>1, <3>2, <3>3
    <3>5. chan'[v] = Append(q, n + 1)
      BY <2>2, <3>4
    <3>6. w.client \o Append(q, n + 1) = Append(w.client \o q, n + 1)
      <4>1. n + 1 \in Nat /\ w.client \in Seq(Nat) /\ q \in Seq(Nat)
        BY <1>b
      <4>2. \A s, t \in Seq(Nat), e \in Nat : s \o Append(t, e) = Append(s \o t, e)
        BY Behind
      <4> QED BY <4>1, <4>2, Zenon
    <3>7. Upto(w.past) \o Append(Upto(n), n + 1) = Append(Upto(w.past) \o Upto(n), n + 1)
      BY <1>b, <2>3, Behind
    <3> QED BY <2>3, <3>1, <3>5, <3>6, <3>7
  <2> QED BY <1>1, <1>2, <2>4, <2>5 DEF Placed
<1> QED BY <1>3, <1>4

(* What a viewer does to its own channel.                                  *)
LEMMA HubView ==
  ASSUME HubInv, NEW v \in Viewers, ReadRecord(v) \/ ViewStep(v) \/ Disconnect(v)
  PROVE  Placed(v)'
<1>a. /\ viewer \in [Viewers -> View] /\ viewer[v] \in View /\ chan[v] \in Seq(Event)
      /\ chan \in [Viewers -> Seq(Event)] /\ Len(chan[v]) \in Nat
      /\ events \in [Runs -> 0 .. MaxLines + 1]
      /\ viewer[v].pc # "idle" => viewer[v].run \in Runs
  BY DEF HubInv, Typed, TypeOK, Watching
<1>b. viewer[v].sent \in Nat /\ viewer[v].past \in Nat /\ viewer[v].client \in Seq(Event)
  BY <1>a DEF View
<1>c. FreshViewer(v) /\ Replayed(v) /\ Showing(v) /\ Following(v)
  BY DEF HubInv, Placed
<1>d. UNCHANGED events
  BY DEF ReadRecord, Disconnect, ViewStep, Snapshot, Subscribe, Replay, Return, Show, Receive, Cancel
<1>1. CASE ReadRecord(v)
  <2>1. chan' = chan /\ viewer[v].pc = "idle"
    BY <1>1 DEF ReadRecord
  <2>2. viewer'[v].pc \in {"snapshot", "subscribe"} /\ viewer'[v].sent = 0 /\ viewer'[v].client = <<>>
    BY <1>a, <1>1, ReadRecordStarts
  <2> QED BY <1>c, <2>1, <2>2 DEF Placed, FreshViewer, Replayed, Showing, Following
<1>2. CASE Snapshot(v)
  <2>1. /\ chan' = chan /\ viewer[v].pc = "snapshot"
        /\ viewer' = [viewer EXCEPT ![v] = [viewer[v] EXCEPT !.pc = "subscribe", !.past = events[viewer[v].run]]]
    BY <1>2, Zenon DEF Snapshot
  <2>2. viewer'[v].pc = "subscribe" /\ viewer'[v].sent = viewer[v].sent /\ viewer'[v].client = viewer[v].client
    BY <1>a, <2>1 DEF View
  <2> QED BY <1>c, <2>1, <2>2 DEF Placed, FreshViewer, Replayed, Showing, Following
<1>3. CASE Subscribe(v)
  <2>1. chan' = chan /\ viewer[v].pc = "subscribe" /\ viewer'[v] = [viewer[v] EXCEPT !.pc = "replay"]
    BY <1>a, <1>3 DEF Subscribe
  <2>2. /\ viewer'[v].pc = "replay" /\ viewer'[v].sent = 0
        /\ viewer'[v].run = viewer[v].run /\ chan'[v] = <<>>
    BY <1>a, <1>c, <2>1 DEF View, FreshViewer
  <2>3. 0 <= events[viewer[v].run]
    BY <1>a, <2>1
  <2>4. Upto(0) = <<>>
    BY DEF Upto
  <2> QED BY <1>d, <2>2, <2>3, <2>4 DEF Placed, FreshViewer, Replayed, Showing, Following
<1>4. CASE Replay(v)
  <2>1. /\ viewer[v].pc = "replay" /\ viewer[v].sent < events[viewer[v].run]
        /\ viewer'[v] = [viewer[v] EXCEPT !.sent = viewer[v].sent + 1]
        /\ chan'[v] = Append(chan[v], viewer[v].sent + 1)
    BY <1>a, <1>4 DEF Replay
  <2>2. /\ viewer'[v].pc = "replay" /\ viewer'[v].sent = viewer[v].sent + 1
        /\ viewer'[v].run = viewer[v].run
    BY <1>a, <2>1 DEF View
  <2>3. chan[v] = Upto(viewer[v].sent)
    BY <1>c, <2>1 DEF Replayed
  <2>4. chan'[v] = Upto(viewer[v].sent + 1)
    BY <1>b, <2>1, <2>3, UptoNext
  <2>5. viewer'[v].sent <= events[viewer[v].run]
    BY <1>a, <1>b, <2>1, <2>2
  <2>6. Replayed(v)'
    BY <1>d, <2>2, <2>4, <2>5 DEF Replayed
  <2> QED BY <2>2, <2>6 DEF Placed, FreshViewer, Showing, Following
<1>5. CASE Return(v)
  <2>1. /\ viewer[v].pc = "replay" /\ viewer[v].sent = events[viewer[v].run] /\ chan' = chan
        /\ viewer'[v] = [viewer[v] EXCEPT !.pc = "show"]
    BY <1>a, <1>5 DEF Return
  <2>2. viewer'[v].pc = "show" /\ viewer'[v].run = viewer[v].run
    BY <1>a, <2>1 DEF View
  <2>3. chan[v] = Upto(events[viewer[v].run])
    BY <1>c, <2>1 DEF Replayed
  <2> QED BY <1>d, <2>1, <2>2, <2>3 DEF Placed, FreshViewer, Replayed, Showing, Following
<1>9. CASE Show(v)
  <2>1. /\ viewer[v].pc = "show" /\ chan' = chan
        /\ \E p \in {"leave", "follow"} :
             viewer' = [viewer EXCEPT ![v] = [viewer[v] EXCEPT !.client = Upto(viewer[v].past), !.pc = p]]
    BY <1>9 DEF Show
  <2>2. /\ viewer'[v].pc \in {"leave", "follow"} /\ viewer'[v].client = Upto(viewer[v].past)
        /\ viewer'[v].run = viewer[v].run /\ viewer'[v].past = viewer[v].past
    BY <1>a, <2>1 DEF View
  <2>3. events[viewer[v].run] <= Buffer => chan[v] = Upto(events[viewer[v].run])
    BY <1>c, <2>1 DEF Showing
  <2>4. Len(Upto(viewer[v].past)) = viewer[v].past
    BY <1>b, UptoIs
  <2>5. Following(v)'
    <3> SUFFICES ASSUME events[viewer[v].run] <= Buffer
                 PROVE  /\ viewer[v].past <= Len(Upto(viewer[v].past))
                        /\ Upto(viewer[v].past) \o chan[v] = Upto(viewer[v].past) \o Upto(events[viewer[v].run])
      BY <1>d, <2>1, <2>2, Zenon DEF Following
    <3>1. chan[v] = Upto(events[viewer[v].run])
      BY <2>3
    <3>2. viewer[v].past <= Len(Upto(viewer[v].past))
      BY <1>b, <2>4
    <3> QED BY <3>1, <3>2, Zenon
  <2> QED BY <2>2, <2>5 DEF Placed, FreshViewer, Replayed, Showing
<1>6. CASE Receive(v)
  <2>1. /\ viewer[v].pc = "follow" /\ chan[v] # <<>> /\ chan'[v] = Tail(chan[v])
        /\ \E p \in {"leave", "follow"} :
             viewer' = [viewer EXCEPT ![v] =
                          [viewer[v] EXCEPT !.client = Append(viewer[v].client, Head(chan[v])), !.pc = p]]
    <3>1. viewer[v].pc = "follow" /\ chan[v] # <<>> /\ chan' = [chan EXCEPT ![v] = Tail(chan[v])]
      BY <1>6, Zenon DEF Receive
    <3>2. chan'[v] = Tail(chan[v])
      BY <1>a, <3>1
    <3> QED BY <1>6, <3>1, <3>2, ReceiveIs, Zenon
  <2>2. /\ viewer'[v].pc \in {"leave", "follow"}
        /\ viewer'[v].client = Append(viewer[v].client, Head(chan[v]))
        /\ viewer'[v].run = viewer[v].run /\ viewer'[v].past = viewer[v].past
    BY <1>a, <2>1 DEF View
  <2>3. /\ Append(viewer[v].client, Head(chan[v])) \o Tail(chan[v]) = viewer[v].client \o chan[v]
        /\ Len(Append(viewer[v].client, Head(chan[v]))) = Len(viewer[v].client) + 1
        /\ Len(viewer[v].client) \in Nat
    <3>1. chan[v] \in Seq(Event) /\ chan[v] # <<>> /\ viewer[v].client \in Seq(Event)
      BY <1>a, <1>b, <2>1
    <3>2. /\ Append(viewer[v].client, Head(chan[v])) \o Tail(chan[v]) = viewer[v].client \o chan[v]
          /\ Len(Append(viewer[v].client, Head(chan[v]))) = Len(viewer[v].client) + 1
      BY <3>1, PassedOn, Zenon
    <3>3. Len(viewer[v].client) \in Nat
      BY <3>1, LenProperties
    <3> QED BY <3>2, <3>3
  <2>4. Following(v)'
    <3> SUFFICES ASSUME events[viewer[v].run] <= Buffer
                 PROVE  /\ viewer[v].past <= Len(viewer'[v].client)
                        /\ viewer'[v].client \o chan'[v] = Upto(viewer[v].past) \o Upto(events[viewer[v].run])
      BY <1>d, <2>2 DEF Following
    <3>1. /\ viewer[v].past <= Len(viewer[v].client)
          /\ viewer[v].client \o chan[v] = Upto(viewer[v].past) \o Upto(events[viewer[v].run])
      BY <1>c, <2>1 DEF Following
    <3>2. viewer[v].past <= Len(viewer'[v].client)
      BY <1>b, <2>2, <2>3, <3>1
    <3>3. viewer'[v].client \o chan'[v] = viewer[v].client \o chan[v]
      BY <2>1, <2>2, <2>3
    <3> QED BY <3>1, <3>2, <3>3
  <2> QED BY <2>2, <2>4 DEF Placed, FreshViewer, Replayed, Showing
<1>7. CASE Disconnect(v)
  <2>1. viewer'[v].pc = "leave"
    BY <1>a, <1>7 DEF Disconnect, View
  <2> QED BY <2>1 DEF Placed, FreshViewer, Replayed, Showing, Following
<1>8. CASE Cancel(v)
  <2>1. viewer'[v] = Away /\ chan'[v] = <<>>
    BY <1>a, <1>8 DEF Cancel
  <2> QED BY <2>1 DEF Away, Placed, FreshViewer, Replayed, Showing, Following
<1> QED BY <1>1, <1>2, <1>3, <1>4, <1>5, <1>6, <1>7, <1>8, <1>9 DEF ViewStep

LEMMA HubNext == HubInv /\ [Next]_vars => HubInv'
<1> SUFFICES ASSUME HubInv, [Next]_vars PROVE HubInv'
  OBVIOUS
<1>a. Typed' /\ Typed /\ HubHeld
  BY HubTypeNext DEF HubInv
<1>b. viewer \in [Viewers -> View] /\ chan \in [Viewers -> Seq(Event)]
  BY <1>a DEF Typed, TypeOK
<1>1. ASSUME NEW r \in Runs, RunStep(r) PROVE HubInv'
  <2>1. UNCHANGED <<viewer, mutex>>
    BY <1>1 DEF RunStep, WriteLine, Finalize, Complete
  <2>2. ASSUME NEW v \in Viewers PROVE Placed(v)'
    <3>1. CASE Finalize(r)
      BY <3>1 DEF Finalize, HubInv, Placed, FreshViewer, Replayed, Showing, Following
    <3>2. CASE WriteLine(r) \/ Complete(r)
      BY <2>1, <3>2, HubPublish DEF WriteLine, Complete
    <3> QED BY <1>1, <3>1, <3>2 DEF RunStep
  <2> QED BY <1>a, <2>1, <2>2 DEF HubInv, HubHeld
<1>2. ASSUME NEW v \in Viewers, ReadRecord(v) \/ ViewStep(v) \/ Disconnect(v) PROVE HubInv'
  <2>1. /\ UNCHANGED events
        /\ \A u \in Viewers \ {v} : viewer'[u] = viewer[u] /\ chan'[u] = chan[u]
    BY <1>b, <1>2 DEF ReadRecord, Disconnect, ViewStep, Snapshot, Subscribe, Replay, Return, Show, Receive, Cancel
  <2>2. \A u \in Viewers : Placed(u)'
    <3>1. Placed(v)'
      BY <1>2, HubView
    <3>2. ASSUME NEW u \in Viewers \ {v} PROVE Placed(u)'
      BY <2>1 DEF HubInv, Placed, FreshViewer, Replayed, Showing, Following
    <3> QED BY <3>1, <3>2
  <2>3. HubHeld'
    <3>1. CASE ReadRecord(v) \/ Snapshot(v) \/ Return(v) \/ Show(v) \/ Receive(v) \/ Disconnect(v) \/ Cancel(v)
      <4>1. viewer'[v].pc # "replay"
        <5>1. CASE ReadRecord(v)
          BY <1>b, <5>1, ReadRecordStarts
        <5>2. CASE Snapshot(v) \/ Return(v) \/ Show(v) \/ Disconnect(v) \/ Cancel(v)
          BY <1>b, <5>2 DEF View, Away, Snapshot, Return, Show, Disconnect, Cancel
        <5>3. CASE Receive(v)
          BY <1>b, <5>3 DEF View, Receive
        <5> QED BY <3>1, <5>1, <5>2, <5>3
      <4>2. \A u \in Viewers : u # v /\ viewer[u].pc = "replay" => mutex' = u
        BY <1>a, <3>1 DEF HubHeld, ReadRecord, Snapshot, Return, Show, Receive, Disconnect, Cancel
      <4> QED BY <2>1, <4>1, <4>2 DEF HubHeld
    <3>2. CASE Subscribe(v)
      <4>1. \A u \in Viewers : viewer[u].pc # "replay"
        BY <1>a, <3>2, LogHubAssumption DEF HubHeld, Subscribe
      <4>2. mutex' = v
        BY <3>2 DEF Subscribe
      <4> QED BY <2>1, <4>1, <4>2 DEF HubHeld
    <3>3. CASE Replay(v)
      BY <1>a, <2>1, <3>3 DEF HubHeld, Replay
    <3> QED BY <1>2, <3>1, <3>2, <3>3 DEF ViewStep
  <2> QED BY <1>a, <2>2, <2>3 DEF HubInv
<1>3. CASE UNCHANGED vars
  BY <1>3, <1>a DEF vars, HubInv, HubHeld, Placed, FreshViewer, Replayed, Showing, Following
<1> QED BY <1>1, <1>2, <1>3 DEF Next

(* A viewer of a stream that fits into its channel misses no event and     *)
(* gets them in order, the events of the snapshot once more than the       *)
(* others, whatever the runs and the other viewers do.                     *)
THEOREM NoGapHolds == Spec => []NoGap
<1>1. Init => HubInv
  BY HubInit
<1>2. HubInv /\ [Next]_vars => HubInv'
  BY HubNext
<1>3. HubInv => NoGap
  BY DEF HubInv, Placed, Following, NoGap
<1> QED BY <1>1, <1>2, <1>3, PTL DEF Spec

HIDE LogHubAssumption

-----------------------------------------------------------------------------
(* AgentUploads                                                             *)
USE UploadsAssumption

(* Where a copy the Agent counts lies.                                      *)
Place(c) == IF c.mode = "relay" THEN Copy(c.target, "relay", expectedKey) ELSE c

(* What the Agent has counted is where the Master will look for it.         *)
Counted == exec # Gone =>
    /\ exec.step \in {"fetch", "targets"} => exec.copies = {}
    /\ exec.step = "sent" => exec.awaits \in exec.todo /\ exec.spec[exec.awaits] = "relay"
    /\ exec.todo \subseteq exec.tried \/ exec.step = "targets"
    /\ exec.first # Gone \/ exec.copies # {} => \E c \in exec.copies : c.target = exec.first
    /\ \A c \in exec.copies :
         /\ c.target \in exec.tried \ exec.todo
         /\ c.mode = exec.spec[c.target]
         /\ Stored(Place(c), "whole") \in stored

(* A target a handler works for has not been counted, and waits for this    *)
(* handler if it still may be.                                              *)
Alone == \A t \in Targets : relay[t] # Gone =>
    /\ exec # Gone =>
         /\ exec.step \in {"upload", "sent"}
         /\ t \in exec.todo => exec.step = "sent" /\ exec.awaits = t
         /\ \A c \in exec.copies : c.target # t
    /\ \A c \in record.copies : c.target # t

(* The record has no copies before the report.                              *)
Unreported == exec # Gone => record.copies = {}

UploadsInv == UploadsTypeOK /\ Counted /\ Alone /\ Unreported /\ SuccessLeadsToCopies

LEMMA UploadsInvInit == UploadsInit => UploadsInv
BY DEF UploadsInit, UploadsInv, UploadsTypeOK, Execution, Counted, Alone, Unreported, SuccessLeadsToCopies, Modes

-----------------------------------------------------------------------------
LEMMA EditInv == UploadsInv /\ (Edit \/ NextDay \/ FailRecord) => UploadsInv'
<1> SUFFICES ASSUME UploadsInv, Edit \/ NextDay \/ FailRecord PROVE UploadsInv'
  OBVIOUS
<1>1. /\ UNCHANGED <<exec, relay, stored>>
      /\ record'.day = record.day /\ record'.copies = record.copies /\ record'.target = record.target
      /\ record'.status \in {record.status, "failed"}
  BY DEF Edit, NextDay, FailRecord, UploadsInv, UploadsTypeOK
<1>2. UploadsTypeOK'
  BY DEF Edit, NextDay, FailRecord, World, UploadsInv, UploadsTypeOK, Modes
<1>3. Counted'
  BY <1>1 DEF UploadsInv, Counted, Place, expectedKey
<1>4. Alone' /\ Unreported'
  BY <1>1 DEF UploadsInv, Alone, Unreported
<1>5. SuccessLeadsToCopies'
  BY <1>1 DEF UploadsInv, SuccessLeadsToCopies
<1> QED BY <1>2, <1>3, <1>4, <1>5 DEF UploadsInv

(* The Agent is gone: what it had counted is forgotten.                     *)
LEMMA GoneInv == UploadsInv /\ (AgentDies \/ EndWithError) => UploadsInv'
<1> SUFFICES ASSUME UploadsInv, AgentDies \/ EndWithError PROVE UploadsInv'
  OBVIOUS
<1>1. exec' = Gone /\ UNCHANGED <<record, wanted, modeOf, relay, stored, day>>
  BY DEF AgentDies, EndWithError, World
<1>2. UploadsTypeOK'
  BY <1>1 DEF UploadsInv, UploadsTypeOK
<1>3. Counted' /\ Unreported'
  BY <1>1 DEF Counted, Unreported
<1>4. Alone'
  BY <1>1 DEF UploadsInv, Alone
<1>5. SuccessLeadsToCopies'
  BY <1>1 DEF UploadsInv, SuccessLeadsToCopies
<1> QED BY <1>2, <1>3, <1>4, <1>5 DEF UploadsInv

LEMMA FetchInv == UploadsInv /\ (FetchTask \/ FetchTargets) => UploadsInv'
<1> SUFFICES ASSUME UploadsInv, FetchTask \/ FetchTargets PROVE UploadsInv'
  OBVIOUS
<1>1. /\ exec # Gone /\ exec.step \in {"fetch", "targets"} /\ exec.copies = {}
      /\ exec.first = Gone
      /\ UNCHANGED <<record, wanted, modeOf, relay, stored, day>>
  BY DEF FetchTask, FetchTargets, Executes, World, UploadsInv, Counted
<1>2. exec \in Execution /\ wanted \subseteq Targets /\ modeOf \in [Targets -> Modes \cup {Gone}] /\ day \in Nat
  BY <1>1 DEF UploadsInv, UploadsTypeOK
<1>3. /\ exec' \in Execution
      /\ exec'.copies = {} /\ exec'.first = Gone
      /\ exec'.step = "targets" \/ (exec'.step = "upload" /\ exec'.tried = exec'.todo)
  <2>1. CASE FetchTask
    <3>1. exec' = [exec EXCEPT !.step = "targets", !.todo = wanted]
      BY <2>1 DEF FetchTask
    <3> QED BY <1>1, <1>2, <3>1 DEF Execution
  <2>2. CASE FetchTargets
    <3> DEFINE found == {t \in exec.todo : modeOf[t] # Gone}
    <3>1. exec' = [exec EXCEPT !.step = "upload", !.todo = found, !.tried = found,
                               !.spec = modeOf, !.day = day]
      BY <2>2 DEF FetchTargets
    <3>2. found \in SUBSET Targets
      BY <1>2 DEF Execution
    <3> HIDE DEF found
    <3> QED BY <1>1, <1>2, <3>1, <3>2 DEF Execution
  <2> QED BY <2>1, <2>2
<1>6. UploadsTypeOK'
  BY <1>1, <1>3 DEF UploadsInv, UploadsTypeOK
<1>7. Counted'
  BY <1>3 DEF Counted
<1>4. Alone' /\ Unreported'
  BY <1>1 DEF UploadsInv, Alone, Unreported
<1>5. SuccessLeadsToCopies'
  BY <1>1 DEF UploadsInv, SuccessLeadsToCopies
<1> QED BY <1>6, <1>7, <1>4, <1>5 DEF UploadsInv

-----------------------------------------------------------------------------
(* A target is counted or passed over: copies is empty or the copy of a     *)
(* target that was to be done, with its object in place.                    *)
LEMMA UploadedCounted ==
  ASSUME UploadsInv, NEW t \in Targets, NEW copies \in SUBSET Copies, Uploaded(t, copies),
         exec # Gone, t \in exec.todo, exec.step \in {"upload", "sent"},
         UNCHANGED record,
         \A o \in stored : o \in stored' \/ o.copy.target = t,
         \A c \in copies : /\ c.target = t /\ c.mode = exec.spec[t]
                           /\ Stored(Place(c), "whole") \in stored'
  PROVE  Counted' /\ Unreported'
<1>1. exec' = [exec EXCEPT !.step = "upload", !.todo = exec.todo \ {t}, !.copies = exec.copies \cup copies,
                  !.awaits = Gone, !.first = IF exec.first = Gone /\ copies # {} THEN t ELSE exec.first]
  BY DEF Uploaded
<1>2. exec \in Execution
  BY DEF UploadsInv, UploadsTypeOK
<1>3. /\ exec'.step = "upload" /\ exec'.todo = exec.todo \ {t} /\ exec'.copies = exec.copies \cup copies
      /\ exec'.tried = exec.tried /\ exec'.spec = exec.spec
      /\ exec'.first = IF exec.first = Gone /\ copies # {} THEN t ELSE exec.first
  BY <1>1, <1>2 DEF Execution
<1>4. t \in exec.tried
  BY DEF UploadsInv, Counted
<1>5. \A c : Place(c)' = Place(c)
  BY DEF Place, expectedKey
<1>6. ASSUME NEW c \in exec'.copies
      PROVE  /\ c.target \in exec'.tried \ exec'.todo
             /\ c.mode = exec'.spec[c.target]
             /\ Stored(Place(c), "whole")' \in stored'
  <2>1. CASE c \in exec.copies
    <3>1. /\ c.target \in exec.tried \ exec.todo /\ c.mode = exec.spec[c.target]
          /\ Stored(Place(c), "whole") \in stored
      BY <2>1 DEF UploadsInv, Counted
    <3>2. Place(c).target # t
      BY <3>1 DEF Place, Copy
    <3>3. Stored(Place(c), "whole") \in stored'
      BY <3>1, <3>2 DEF Stored
    <3> QED BY <1>3, <1>5, <3>1, <3>3 DEF Stored
  <2>2. CASE c \in copies
    BY <1>3, <1>4, <1>5, <2>2 DEF Stored
  <2> QED BY <1>3, <2>1, <2>2
<1>7. exec'.first # Gone \/ exec'.copies # {} => \E c \in exec'.copies : c.target = exec'.first
  BY <1>3 DEF UploadsInv, Counted
<1>8. exec'.todo \subseteq exec'.tried
  BY <1>3 DEF UploadsInv, Counted
<1> QED BY <1>3, <1>6, <1>7, <1>8 DEF Counted, UploadsInv, Unreported, Stored

LEMMA UploadedTyped ==
  ASSUME NEW t \in Targets, NEW copies \in SUBSET Copies, Uploaded(t, copies), exec \in Execution
  PROVE  exec' \in Execution
BY DEF Uploaded, Execution

(* Nothing else changes for the handlers of other targets.                  *)
LEMMA UploadedAlone ==
  ASSUME UploadsInv, NEW t \in Targets, NEW copies \in SUBSET Copies, Uploaded(t, copies),
         exec \in Execution, exec # Gone, t \in exec.todo, UNCHANGED record,
         exec.step = "upload" \/ exec.awaits = t, exec.step \in {"upload", "sent"},
         \A c \in copies : c.target = t,
         \A u \in Targets : relay'[u] # Gone => relay[u] # Gone,
         copies = {} \/ relay'[t] = Gone
  PROVE  Alone'
<1>1. /\ exec'.step = "upload" /\ exec'.todo = exec.todo \ {t} /\ exec'.copies = exec.copies \cup copies
  BY DEF Uploaded, Execution
<1>2. SUFFICES ASSUME NEW u \in Targets, relay'[u] # Gone
      PROVE  /\ u \notin exec'.todo
             /\ \A c \in exec'.copies : c.target # u
             /\ \A c \in record.copies : c.target # u
  BY <1>1 DEF Alone
<1>3. /\ u \in exec.todo => exec.step = "sent" /\ exec.awaits = u
      /\ \A c \in exec.copies : c.target # u
      /\ \A c \in record.copies : c.target # u
  BY <1>2 DEF UploadsInv, Alone
<1> QED BY <1>1, <1>2, <1>3

LEMMA DirectInv ==
  ASSUME UploadsInv, NEW t \in Targets, UploadDirect(t)
  PROVE  UploadsInv'
<1>1. /\ exec # Gone /\ exec.step = "upload" /\ t \in exec.todo /\ exec.spec[t] = "direct"
      /\ UNCHANGED <<record, wanted, modeOf, relay, day>>
      /\ stored \subseteq stored'
  BY DEF UploadDirect, Executes, World
<1>2. exec \in Execution
  BY <1>1 DEF UploadsInv, UploadsTypeOK
<1>3. reportedKey \in Keys
  BY <1>2 DEF reportedKey, BuildStorageKey, BuildRecordStorageKey, Execution, Keys
<1>4. Copy(t, "direct", reportedKey) \in Copies
  BY <1>3 DEF Copy, Copies, Modes
<1>5. PICK copies \in SUBSET Copies :
        /\ Uploaded(t, copies)
        /\ \A c \in copies : /\ c.target = t /\ c.mode = exec.spec[t]
                            /\ Stored(Place(c), "whole") \in stored'
  <2> DEFINE copy == Copy(t, "direct", reportedKey)
  <2>1. copy.target = t /\ copy.mode = "direct" /\ Place(copy) = copy
    BY DEF Copy, Place
  <2>2. CASE Uploaded(t, {}) BY <2>2
  <2>3. CASE stored' = stored \cup {Stored(copy, "whole")} /\ Uploaded(t, {copy})
    <3> HIDE DEF copy
    <3> QED BY <1>1, <1>4, <2>1, <2>3 DEF copy
  <2> QED BY <2>2, <2>3 DEF UploadDirect
<1>6. Counted' /\ Unreported'
  BY <1>1, <1>2, <1>5, UploadedCounted
<1>7. relay[t] = Gone
  BY <1>1 DEF UploadsInv, Alone
<1>8. Alone'
  BY <1>1, <1>2, <1>5, <1>7, UploadedAlone
<1>9. UploadsTypeOK'
  BY <1>1, <1>2, <1>5, UploadedTyped DEF UploadsInv, UploadsTypeOK
<1>10. SuccessLeadsToCopies'
  BY <1>1 DEF UploadsInv, SuccessLeadsToCopies, Stored
<1> QED BY <1>6, <1>8, <1>9, <1>10 DEF UploadsInv

LEMMA SendInv ==
  ASSUME UploadsInv, NEW t \in Targets, SendArtifact(t)
  PROVE  UploadsInv'
<1>1. /\ exec # Gone /\ exec.step = "upload" /\ t \in exec.todo /\ exec.spec[t] = "relay"
      /\ UNCHANGED <<record, wanted, modeOf, stored, day>>
      /\ exec' = [exec EXCEPT !.step = "sent", !.awaits = t]
      /\ relay' = [relay EXCEPT ![t] = [step |-> "check", key |-> reportedKey]]
  BY DEF SendArtifact, Executes, World
<1>2. exec \in Execution
  BY <1>1 DEF UploadsInv, UploadsTypeOK
<1>3. reportedKey \in Keys
  BY <1>2 DEF reportedKey, BuildStorageKey, BuildRecordStorageKey, Execution, Keys
<1>4. /\ exec' \in Execution
      /\ exec'.step = "sent" /\ exec'.awaits = t /\ exec'.todo = exec.todo /\ exec'.tried = exec.tried
      /\ exec'.copies = exec.copies /\ exec'.spec = exec.spec /\ exec'.first = exec.first
  BY <1>1, <1>2 DEF Execution
<1>5. UploadsTypeOK'
  BY <1>1, <1>3, <1>4 DEF UploadsInv, UploadsTypeOK
<1>6. Counted' /\ Unreported'
  BY <1>1, <1>4 DEF UploadsInv, Counted, Unreported, Place, expectedKey
<1>7. Alone'
  <2> SUFFICES ASSUME NEW u \in Targets, relay'[u] # Gone
               PROVE  /\ u \in exec'.todo => exec'.step = "sent" /\ exec'.awaits = u
                      /\ \A c \in exec'.copies : c.target # u
                      /\ \A c \in record.copies : c.target # u
    BY <1>1, <1>4 DEF Alone
  <2>1. CASE u = t
    BY <1>1, <1>4, <2>1 DEF UploadsInv, Counted, Unreported
  <2>2. CASE u # t
    <3>1. relay[u] # Gone
      BY <1>1, <2>2 DEF UploadsInv, UploadsTypeOK
    <3> QED BY <1>1, <1>4, <2>2, <3>1 DEF UploadsInv, Alone
  <2> QED BY <2>1, <2>2
<1>8. SuccessLeadsToCopies'
  BY <1>1 DEF UploadsInv, SuccessLeadsToCopies
<1> QED BY <1>5, <1>6, <1>7, <1>8 DEF UploadsInv

LEMMA LoseInv == ASSUME UploadsInv, LoseReply PROVE UploadsInv'
<1>1. /\ exec # Gone /\ exec.step = "sent" /\ Uploaded(exec.awaits, {})
      /\ UNCHANGED <<record, wanted, modeOf, relay, stored, day>>
  BY DEF LoseReply, Executes, World
<1>2. exec \in Execution /\ exec.awaits \in exec.todo /\ exec.awaits \in Targets
  BY <1>1 DEF UploadsInv, UploadsTypeOK, Counted, Execution
<1>3. Counted' /\ Unreported'
  BY <1>1, <1>2, UploadedCounted
<1>4. Alone'
  BY <1>1, <1>2, UploadedAlone
<1>5. UploadsTypeOK'
  BY <1>1, <1>2, UploadedTyped DEF UploadsInv, UploadsTypeOK
<1>6. SuccessLeadsToCopies'
  BY <1>1 DEF UploadsInv, SuccessLeadsToCopies
<1> QED BY <1>3, <1>4, <1>5, <1>6 DEF UploadsInv

-----------------------------------------------------------------------------
(* A handler ends: its target is counted, passed over, or not waited for    *)
(* any more; what it deleted was its own.                                   *)
LEMMA ReplyInv ==
  ASSUME UploadsInv, NEW t \in Targets, NEW copies \in SUBSET Copies, Reply(t, copies),
         relay[t] # Gone, UNCHANGED <<record, wanted, modeOf, day>>,
         \A o \in stored : o \in stored' \/ o.copy.target = t,
         \A c \in copies : /\ c.target = t /\ c.mode = "relay"
                         /\ Stored(Place(c), "whole") \in stored'
  PROVE  UploadsInv'
<1>1. relay' = [relay EXCEPT ![t] = Gone]
  BY DEF Reply
<1>2. /\ relay' \in [Targets -> [step : {"check", "stream", "delete"}, key : Keys] \cup {Gone}]
      /\ relay'[t] = Gone
      /\ \A u \in Targets : relay'[u] # Gone => relay[u] # Gone /\ u # t
  BY <1>1 DEF UploadsInv, UploadsTypeOK
<1>3. SuccessLeadsToCopies'
  <2> SUFFICES ASSUME record.status = "success", NEW c \in record.copies
               PROVE  Stored(c, "whole") \in stored'
    BY DEF UploadsInv, SuccessLeadsToCopies, Stored
  <2>1. Stored(c, "whole") \in stored /\ c.target # t
    BY DEF UploadsInv, SuccessLeadsToCopies, Alone
  <2> QED BY <2>1 DEF Stored
<1>4. CASE exec # Gone /\ exec.step = "sent" /\ exec.awaits = t
  <2>1. exec \in Execution /\ t \in exec.todo /\ exec.spec[t] = "relay" /\ Uploaded(t, copies)
    BY <1>4 DEF UploadsInv, UploadsTypeOK, Counted, Reply, Executes
  <2>2. Counted' /\ Unreported'
    BY <1>4, <2>1, UploadedCounted
  <2>3. Alone'
    BY <1>2, <1>4, <2>1, UploadedAlone
  <2>4. UploadsTypeOK'
    BY <1>2, <2>1, UploadedTyped DEF UploadsInv, UploadsTypeOK
  <2> QED BY <1>3, <2>2, <2>3, <2>4 DEF UploadsInv
<1>5. CASE ~(exec # Gone /\ exec.step = "sent" /\ exec.awaits = t)
  <2>1. UNCHANGED exec
    BY <1>5 DEF Reply, Executes
  <2>2. UploadsTypeOK'
    BY <1>2, <2>1 DEF UploadsInv, UploadsTypeOK
  <2>3. Alone' /\ Unreported'
    BY <1>2, <2>1 DEF UploadsInv, Alone, Unreported
  <2>4. Counted'
    <3> SUFFICES ASSUME exec # Gone PROVE Counted'
      BY <2>1 DEF Counted
    <3>1. ASSUME NEW c \in exec.copies
          PROVE  Stored(Place(c), "whole") \in stored'
      <4>1. Stored(Place(c), "whole") \in stored /\ c.target # t
        BY DEF UploadsInv, Counted, Alone
      <4>2. Place(c).target # t
        BY <4>1 DEF Place, Copy
      <4> QED BY <4>1, <4>2 DEF Stored
    <3>2. \A c : Place(c)' = Place(c)
      BY DEF Place, expectedKey
    <3> QED BY <2>1, <3>1, <3>2 DEF UploadsInv, Counted, Stored
  <2> QED BY <1>3, <2>2, <2>3, <2>4 DEF UploadsInv
<1> QED BY <1>4, <1>5

(* A handler goes on.                                                       *)
LEMMA HandlerStep ==
  ASSUME UploadsInv, NEW t \in Targets, relay[t] # Gone,
         NEW step \in {"check", "stream", "delete"}, relay' = [relay EXCEPT ![t].step = step],
         UNCHANGED <<record, wanted, modeOf, day, exec>>, stored \subseteq stored'
  PROVE  UploadsInv'
<1>1. /\ relay' \in [Targets -> [step : {"check", "stream", "delete"}, key : Keys] \cup {Gone}]
      /\ \A u \in Targets : relay'[u] # Gone => relay[u] # Gone
  BY DEF UploadsInv, UploadsTypeOK
<1>2. UploadsTypeOK'
  BY <1>1 DEF UploadsInv, UploadsTypeOK
<1>3. Alone' /\ Unreported'
  BY <1>1 DEF UploadsInv, Alone, Unreported
<1>4. Counted'
  BY DEF UploadsInv, Counted, Place, expectedKey, Stored
<1>5. SuccessLeadsToCopies'
  BY DEF UploadsInv, SuccessLeadsToCopies, Stored
<1> QED BY <1>2, <1>3, <1>4, <1>5 DEF UploadsInv

LEMMA RelayInv ==
  ASSUME UploadsInv, NEW t \in Targets, CheckRelay(t) \/ Stream(t) \/ StreamCut(t) \/ DeleteCut(t)
  PROVE  UploadsInv'
<1>1. relay[t] # Gone /\ relay[t].key \in Keys /\ UNCHANGED <<record, wanted, modeOf, day>>
  BY DEF CheckRelay, Stream, StreamCut, DeleteCut, Handles, World, UploadsInv, UploadsTypeOK
<1>2. CASE CheckRelay(t)
  <2>1. CASE Reply(t, {}) /\ UNCHANGED stored
    BY <1>1, <2>1, ReplyInv
  <2>2. CASE relay' = [relay EXCEPT ![t].step = "stream"] /\ UNCHANGED <<exec, stored>>
    BY <1>1, <2>2, HandlerStep
  <2> QED BY <1>2, <2>1, <2>2 DEF CheckRelay, World
<1>3. CASE Stream(t)
  <2> DEFINE copy == Copy(t, "relay", relay[t].key)
  <2>1. copy \in Copies /\ copy.target = t /\ copy.mode = "relay"
    BY <1>1 DEF Copy, Copies, Modes
  <2>2. Place(copy) = Copy(t, "relay", expectedKey)
    BY <2>1 DEF Place
  <2>3. Reply(t, {copy}) /\ stored' = stored \cup {Stored(Copy(t, "relay", expectedKey), "whole")}
    BY <1>3 DEF Stream
  <2> HIDE DEF copy
  <2> QED BY <1>1, <2>1, <2>2, <2>3, ReplyInv
<1>4. CASE StreamCut(t)
  <2>1. relay' = [relay EXCEPT ![t].step = "delete"] /\ UNCHANGED exec /\ stored \subseteq stored'
    BY <1>4 DEF StreamCut, World
  <2> QED BY <1>1, <2>1, HandlerStep
<1>5. CASE DeleteCut(t)
  <2>1. Reply(t, {})
    BY <1>5 DEF DeleteCut
  <2>2. \A o \in stored : o \in stored' \/ o.copy = Copy(t, "relay", expectedKey)
    BY <1>5 DEF DeleteCut
  <2>3. Copy(t, "relay", expectedKey).target = t
    BY DEF Copy
  <2> QED BY <1>1, <2>1, <2>2, <2>3, ReplyInv
<1> QED BY <1>2, <1>3, <1>4, <1>5

-----------------------------------------------------------------------------
(* The report: the modes of the targets are those of the uploads, so that   *)
(* the record names the places the Agent counted.                           *)
LEMMA ReportInv == ASSUME UploadsInv, Report PROVE UploadsInv'
<1>1. /\ exec # Gone /\ exec.step = "upload" /\ exec.copies # {} /\ exec' = Gone
      /\ UNCHANGED <<wanted, modeOf, day, relay, stored>>
  BY DEF Report, Executes, World
<1>2. Counted' /\ Unreported'
  BY <1>1 DEF Counted, Unreported
<1>3. exec \in Execution
  BY <1>1 DEF UploadsInv, UploadsTypeOK
<1>4. CASE record' = record
  <2>1. UploadsTypeOK' /\ Alone' /\ SuccessLeadsToCopies'
    BY <1>1, <1>4 DEF UploadsInv, UploadsTypeOK, Alone, SuccessLeadsToCopies
  <2> QED BY <1>2, <2>1 DEF UploadsInv
<1>5. CASE /\ record.status = "running" /\ StillValid
           /\ record' = [record EXCEPT !.status = "success", !.copies = {Named(c) : c \in exec.copies},
                                       !.target = exec.first]
  <2>1. \A c \in exec.copies : Named(c) = Place(c)
    <3> SUFFICES ASSUME NEW c \in exec.copies PROVE Named(c) = Place(c)
      OBVIOUS
    <3>1. c \in Copies /\ c.target \in exec.tried /\ c.mode = exec.spec[c.target]
      BY <1>1, <1>3 DEF UploadsInv, Counted, Execution
    <3>2. modeOf[c.target] = c.mode
      BY <1>5, <3>1 DEF StillValid
    <3> QED BY <3>1, <3>2 DEF Named, Place, Copy, Copies
  <2>2. \A c \in exec.copies : Place(c) \in Copies /\ Place(c).target = c.target
    BY <1>3 DEF Place, Copy, Copies, Keys, Modes, Execution, expectedKey, BuildRecordStorageKey, UploadsInv, UploadsTypeOK
  <2>3. /\ record'.status = "success" /\ record'.copies = {Named(c) : c \in exec.copies}
        /\ record'.target = exec.first
    BY <1>5 DEF UploadsInv, UploadsTypeOK
  <2>4. UploadsTypeOK'
    <3>1. {Named(c) : c \in exec.copies} \in SUBSET Copies
      BY <2>1, <2>2
    <3>2. exec.first \in Targets \cup {Gone}
      BY <1>3 DEF Execution
    <3>3. UNCHANGED <<wanted, modeOf, day, relay>> /\ exec' = Gone
      BY <1>1
    <3> HIDE DEF UploadsInv
    <3>4. record' \in [status : {"running", "failed", "success"}, day : Nat, copies : SUBSET Copies,
                       target : Targets \cup {Gone}]
      BY <1>5, <3>1, <3>2 DEF UploadsInv, UploadsTypeOK
    <3> QED BY <3>3, <3>4 DEF UploadsInv, UploadsTypeOK
  <2>5. Alone'
    BY <1>1, <2>1, <2>2, <2>3 DEF UploadsInv, Alone
  <2>6. SuccessLeadsToCopies'
    BY <1>1, <2>1, <2>2, <2>3 DEF UploadsInv, Counted, SuccessLeadsToCopies, Stored
  <2> QED BY <1>2, <2>4, <2>5, <2>6 DEF UploadsInv
<1> QED BY <1>4, <1>5 DEF Report

LEMMA UploadsInvStep == UploadsInv /\ [UploadsNext]_uploadVars => UploadsInv'
<1> SUFFICES ASSUME UploadsInv, [UploadsNext]_uploadVars PROVE UploadsInv'
  OBVIOUS
<1>1. CASE UNCHANGED uploadVars
  BY <1>1 DEF uploadVars, UploadsInv, UploadsTypeOK, Counted, Alone, Unreported, SuccessLeadsToCopies,
              Place, expectedKey, Stored
<1>2. CASE Edit \/ NextDay \/ FailRecord
  BY <1>2, EditInv
<1>3. CASE AgentDies \/ EndWithError
  BY <1>3, GoneInv
<1>4. CASE FetchTask \/ FetchTargets
  BY <1>4, FetchInv
<1>5. CASE LoseReply
  BY <1>5, LoseInv
<1>6. CASE Report
  BY <1>6, ReportInv
<1>7. CASE \E t \in Targets : UploadDirect(t) \/ SendArtifact(t) \/ CheckRelay(t) \/ Stream(t)
                              \/ StreamCut(t) \/ DeleteCut(t)
  BY <1>7, DirectInv, SendInv, RelayInv
<1> QED BY <1>1, <1>2, <1>3, <1>4, <1>5, <1>6, <1>7 DEF UploadsNext

(* A successful record leads to its artifact, whatever is edited, cut or    *)
(* lost between the specification and the report (UploadArtifact,           *)
(* UpdateRecord).                                                           *)
THEOREM SuccessLeadsToCopiesHolds == UploadsSpec => []SuccessLeadsToCopies
<1>1. UploadsInv => SuccessLeadsToCopies
  BY DEF UploadsInv
<1> QED BY <1>1, UploadsInvInit, UploadsInvStep, PTL DEF UploadsSpec

(* The rows, the execution, the handlers and the objects keep their shapes. *)
THEOREM UploadsTyped == UploadsSpec => []UploadsTypeOK
<1>1. UploadsInv => UploadsTypeOK
  BY DEF UploadsInv
<1> QED BY <1>1, UploadsInvInit, UploadsInvStep, PTL DEF UploadsSpec

HIDE UploadsAssumption

-----------------------------------------------------------------------------
(* RemoteCalls                                                              *)
USE RemoteCallsAssumption

CallResults == [place : Places, version : Nat]
CallRows == [kind : {"question", "delete", "run"}, place : Places,
         status : ActiveStates \cup FinalStates, result : CallResults \cup {Nobody}]
Questions == [step : {"idle", "waiting", "answered", "failed"}, id : Nat, place : Places \cup {Nobody},
              since : Nat, answer : CallResults \cup {Nobody}]
CallWork == [id : Nat, step : {"work", "submit"}, ok : BOOLEAN, result : CallResults \cup {Nobody}, tries : Nat]

RemoteTypeOK ==
    /\ commands \in Seq(CallRows)
    /\ caller \in [Callers -> Questions]
    /\ node \in CallWork \cup {Nobody}
    /\ node # Nobody => node \in CallWork /\ node.id \in Ids
    /\ place \in [Places -> Nat]
    /\ changes \in Nat /\ losses \in Nat

(* A version the caller c may be told.                                      *)
Fresh(c, version) == version >= caller[c].since \/ version = 0

(* A caller waits for a question of its own.                                *)
Waits == \A c \in Callers : caller[c].step = "waiting" =>
    /\ caller[c].id \in Ids /\ caller[c].place \in Places
    /\ commands[caller[c].id].kind = "question"
    /\ commands[caller[c].id].place = caller[c].place
    /\ Fresh(c, place[caller[c].place])

(* What the Agent will submit for the command a caller waits for.           *)
HeldFresh == node # Nobody => \A c \in Callers :
    (caller[c].step = "waiting" /\ node.id = caller[c].id /\ node.step = "submit" /\ node.ok) =>
      /\ node.result \in CallResults /\ node.result.place = caller[c].place
      /\ Fresh(c, node.result.version)

(* What the row of that command says.                                       *)
StoredFresh == \A c \in Callers :
    (caller[c].step = "waiting" /\ commands[caller[c].id].status = "succeeded") =>
      /\ commands[caller[c].id].result \in CallResults
      /\ commands[caller[c].id].result.place = caller[c].place
      /\ Fresh(c, commands[caller[c].id].result.version)

RemoteInv == RemoteTypeOK /\ Waits /\ HeldFresh /\ StoredFresh /\ AnswerIsCurrent

LEMMA RemoteInvInit == RemoteInit => RemoteInv
<1> SUFFICES ASSUME RemoteInit PROVE RemoteInv
  OBVIOUS
<1>1. RemoteTypeOK
  BY DEF RemoteInit, RemoteTypeOK, Questions, Ids
<1>2. Waits /\ HeldFresh /\ StoredFresh /\ AnswerIsCurrent
  BY DEF RemoteInit, Waits, HeldFresh, StoredFresh, AnswerIsCurrent
<1> QED BY <1>1, <1>2 DEF RemoteInv

-----------------------------------------------------------------------------
(* A command is added at the end of the queue.                              *)
LEMMA CallAdded ==
  ASSUME RemoteTypeOK, NEW kind \in {"question", "delete", "run"}, NEW p \in Places, EnqueueCommand(kind, p)
  PROVE  /\ commands' \in Seq(CallRows) /\ Ids \subseteq Ids'
         /\ \A i \in Ids : commands'[i] = commands[i]
         /\ IdOf(kind, p) = Len(commands) + 1
         /\ Len(commands) + 1 \in Ids' \ Ids
         /\ commands'[Len(commands) + 1] = Command(kind, p)
<1>1. Command(kind, p) \in CallRows
  BY DEF Command, CallRows, ActiveStates
<1>2. commands \in Seq(CallRows) /\ commands' = Append(commands, Command(kind, p))
  BY DEF RemoteTypeOK, EnqueueCommand
<1>3. /\ commands' \in Seq(CallRows) /\ Len(commands') = Len(commands) + 1
      /\ Ids = 1 .. Len(commands) /\ Ids' = 1 .. Len(commands) + 1
      /\ \A i \in Ids : commands'[i] = commands[i]
      /\ commands'[Len(commands) + 1] = Command(kind, p)
  BY <1>1, <1>2 DEF Ids
<1> DEFINE Last(i) == /\ commands'[i].kind = kind /\ commands'[i].place = p
                      /\ \A j \in Ids' : commands'[j].kind = kind /\ commands'[j].place = p => j <= i
<1>4. Len(commands) + 1 \in Ids' /\ Last(Len(commands) + 1)
  BY <1>2, <1>3 DEF Command
<1>5. \A i \in Ids' : Last(i) => i = Len(commands) + 1
  BY <1>2, <1>3, <1>4
<1>6. IdOf(kind, p) = CHOOSE i \in Ids' : Last(i)
  BY DEF IdOf, Ids
<1> HIDE DEF Last
<1>7. IdOf(kind, p) = Len(commands) + 1
  BY <1>4, <1>5, <1>6
<1> QED BY <1>2, <1>3, <1>7

LEMMA AskInv ==
  ASSUME RemoteInv, NEW c \in Callers, NEW p \in Places, Ask(c, p)
  PROVE  RemoteInv'
<1> DEFINE new == Len(commands) + 1
<1>1. /\ commands' \in Seq(CallRows) /\ Ids \subseteq Ids' /\ \A i \in Ids : commands'[i] = commands[i]
      /\ new \in Ids' \ Ids /\ commands'[new] = Command("question", p)
      /\ IdOf("question", p) = new
  BY CallAdded DEF Ask, RemoteInv
<1>2. /\ caller' = [caller EXCEPT ![c] = [step |-> "waiting", id |-> new, place |-> p,
                                           since |-> place[p], answer |-> Nobody]]
      /\ UNCHANGED <<node, place, changes, losses>>
  BY <1>1 DEF Ask, NoLoss
<1>3. new \in Nat
  BY DEF RemoteInv, RemoteTypeOK
<1> HIDE DEF new
<1>4. /\ caller'[c] = [step |-> "waiting", id |-> new, place |-> p, since |-> place[p], answer |-> Nobody]
      /\ \A d \in Callers \ {c} : caller'[d] = caller[d]
      /\ place[p] \in Nat
  BY <1>2 DEF RemoteInv, RemoteTypeOK
<1>5. RemoteTypeOK'
  BY <1>1, <1>2, <1>3, <1>4 DEF RemoteInv, RemoteTypeOK, Questions
<1>6. Waits'
  BY <1>1, <1>2, <1>4 DEF RemoteInv, Waits, Fresh, Command
<1>7. HeldFresh'
  BY <1>1, <1>2, <1>4 DEF RemoteInv, RemoteTypeOK, HeldFresh, Fresh
<1>8. StoredFresh'
  BY <1>1, <1>2, <1>4 DEF RemoteInv, Waits, StoredFresh, Fresh, Command
<1>9. AnswerIsCurrent'
  BY <1>2, <1>4 DEF RemoteInv, AnswerIsCurrent
<1> QED BY <1>5, <1>6, <1>7, <1>8, <1>9 DEF RemoteInv

LEMMA EnqueuedInv ==
  ASSUME RemoteInv, NEW kind \in {"delete", "run"}, NEW p \in Places, Enqueued(kind, p)
  PROVE  RemoteInv'
<1>1. /\ commands' \in Seq(CallRows) /\ Ids \subseteq Ids' /\ \A i \in Ids : commands'[i] = commands[i]
      /\ UNCHANGED <<caller, node, place, changes, losses>>
  BY CallAdded DEF Enqueued, RemoteInv, NoLoss
<1>2. RemoteTypeOK'
  BY <1>1 DEF RemoteInv, RemoteTypeOK
<1>3. Waits' /\ HeldFresh' /\ StoredFresh' /\ AnswerIsCurrent'
  BY <1>1 DEF RemoteInv, Waits, HeldFresh, StoredFresh, AnswerIsCurrent, Fresh
<1> QED BY <1>2, <1>3 DEF RemoteInv

-----------------------------------------------------------------------------
(* A caller stops waiting: it believes a row it was right to believe.       *)
LEMMA CallerKeeps ==
  ASSUME RemoteInv, NEW c \in Callers, CallerStep(c)
  PROVE  RemoteInv'
<1>1. PICK step, answer :
        /\ step \in {"answered", "failed"}
        /\ caller[c].step = "waiting" /\ Returns(c, step, answer)
        /\ step = "failed" => answer = Nobody
        /\ step = "answered" => /\ commands[caller[c].id].status = "succeeded"
                                /\ answer = commands[caller[c].id].result
  BY DEF CallerStep, SeeResult, GiveUpWaiting
<1>2. /\ caller' = [caller EXCEPT ![c].step = step, ![c].answer = answer]
      /\ UNCHANGED <<commands, node, place, changes, losses>>
  BY <1>1 DEF Returns, NoLoss
<1>3. step = "answered" => /\ answer \in CallResults /\ answer.place = caller[c].place
                           /\ Fresh(c, answer.version)
  BY <1>1 DEF RemoteInv, StoredFresh
<1>4. /\ caller'[c] = [caller[c] EXCEPT !.step = step, !.answer = answer]
      /\ \A d \in Callers \ {c} : caller'[d] = caller[d]
      /\ caller[c] \in Questions
  BY <1>2 DEF RemoteInv, RemoteTypeOK
<1>5. /\ caller'[c] \in Questions /\ caller'[c].step = step /\ caller'[c].answer = answer
      /\ caller'[c].place = caller[c].place /\ caller'[c].since = caller[c].since
  BY <1>1, <1>3, <1>4 DEF Questions
<1>6. RemoteTypeOK'
  BY <1>2, <1>5 DEF RemoteInv, RemoteTypeOK, Ids
<1>7. \A d \in Callers : caller'[d].step = "waiting" => caller'[d] = caller[d]
  BY <1>1, <1>4, <1>5
<1>8. Waits'
  BY <1>2, <1>7 DEF RemoteInv, Waits, Fresh, Ids
<1>9. HeldFresh'
  BY <1>2, <1>7 DEF RemoteInv, HeldFresh, Fresh
<1>10. StoredFresh'
  BY <1>2, <1>7 DEF RemoteInv, StoredFresh, Fresh
<1>11. AnswerIsCurrent'
  <2> SUFFICES ASSUME NEW d \in Callers, caller'[d].step = "answered"
      PROVE  /\ caller'[d].answer.place = caller'[d].place
             /\ caller'[d].answer.version >= caller'[d].since \/ caller'[d].answer.version = 0
    BY DEF AnswerIsCurrent
  <2>1. CASE d = c
    BY <1>3, <1>5, <2>1 DEF Fresh
  <2>2. CASE d # c
    BY <1>4, <2>2 DEF RemoteInv, AnswerIsCurrent
  <2> QED BY <2>1, <2>2
<1> QED BY <1>6, <1>8, <1>9, <1>10, <1>11 DEF RemoteInv

-----------------------------------------------------------------------------
(* A row is settled or claimed: its question stays what it was.             *)
LEMMA SettledRows ==
  ASSUME RemoteInv, NEW id \in Ids, NEW status \in ActiveStates \cup FinalStates,
         NEW result \in CallResults \cup {Nobody}, Settled(id, status, result)
  PROVE  /\ commands' \in Seq(CallRows) /\ Ids' = Ids
         /\ \A i \in Ids \ {id} : commands'[i] = commands[i]
         /\ commands'[id].kind = commands[id].kind /\ commands'[id].place = commands[id].place
         /\ commands'[id].status = status /\ commands'[id].result = result
<1>1. commands \in Seq(CallRows) /\ commands[id] \in CallRows
  BY DEF RemoteInv, RemoteTypeOK, Ids
<1>2. commands' = [commands EXCEPT ![id] = [commands[id] EXCEPT !.status = status, !.result = result]]
  BY DEF Settled
<1>3. [commands[id] EXCEPT !.status = status, !.result = result] \in CallRows
  BY <1>1 DEF CallRows
<1>4. /\ commands' \in Seq(CallRows) /\ Len(commands') = Len(commands)
      /\ \A i \in Ids \ {id} : commands'[i] = commands[i]
      /\ commands'[id] = [commands[id] EXCEPT !.status = status, !.result = result]
  BY <1>1, <1>2, <1>3 DEF Ids
<1> QED BY <1>1, <1>4 DEF CallRows, Ids

(* As long as a row does not become succeeded, no answer is made.           *)
LEMMA TimeoutInv ==
  ASSUME RemoteInv, NEW id \in Ids, TimeoutCommand(id)
  PROVE  RemoteInv'
<1>1. /\ Settled(id, "timeout", Nobody)
      /\ UNCHANGED <<caller, node, place, changes, losses>>
  BY DEF TimeoutCommand, NoLoss
<1>2. /\ commands' \in Seq(CallRows) /\ Ids' = Ids
      /\ \A i \in Ids \ {id} : commands'[i] = commands[i]
      /\ commands'[id].kind = commands[id].kind /\ commands'[id].place = commands[id].place
      /\ commands'[id].status = "timeout"
  BY <1>1, SettledRows DEF FinalStates
<1>3. RemoteTypeOK'
  BY <1>1, <1>2 DEF RemoteInv, RemoteTypeOK
<1>4. Waits'
  BY <1>1, <1>2 DEF RemoteInv, Waits, Fresh
<1>5. HeldFresh' /\ AnswerIsCurrent'
  BY <1>1 DEF RemoteInv, HeldFresh, AnswerIsCurrent, Fresh
<1>6. StoredFresh'
  BY <1>1, <1>2 DEF RemoteInv, Waits, StoredFresh, Fresh
<1> QED BY <1>3, <1>4, <1>5, <1>6 DEF RemoteInv

LEMMA PollInv ==
  ASSUME RemoteInv, PollCommand
  PROVE  RemoteInv'
<1>1. PICK id \in Ids :
        /\ Settled(id, "dispatched", Nobody)
        /\ \/ node' = [id |-> id, step |-> "work", ok |-> FALSE, result |-> Nobody, tries |-> 0]
           \/ node' = Nobody
        /\ UNCHANGED <<caller, place, changes>> /\ losses' \in Nat
  BY DEF PollCommand, Loss, NoLoss, RemoteInv, RemoteTypeOK
<1>2. /\ commands' \in Seq(CallRows) /\ Ids' = Ids
      /\ \A i \in Ids \ {id} : commands'[i] = commands[i]
      /\ commands'[id].kind = commands[id].kind /\ commands'[id].place = commands[id].place
      /\ commands'[id].status = "dispatched"
  BY <1>1, SettledRows DEF ActiveStates
<1>3. node' # Nobody => node' \in CallWork /\ node'.id = id /\ node'.step = "work"
  <2>1. id \in Nat
    BY DEF RemoteInv, RemoteTypeOK, Ids
  <2> DEFINE taken == [id |-> id, step |-> "work", ok |-> FALSE, result |-> Nobody, tries |-> 0]
  <2>2. taken \in CallWork /\ taken.id = id /\ taken.step = "work"
    BY <2>1 DEF CallWork
  <2>3. node' = taken \/ node' = Nobody
    BY <1>1
  <2> HIDE DEF taken
  <2> QED BY <2>2, <2>3
<1>4. RemoteTypeOK'
  BY <1>1, <1>2, <1>3 DEF RemoteInv, RemoteTypeOK
<1>5. Waits'
  BY <1>1, <1>2 DEF RemoteInv, Waits, Fresh
<1>6. HeldFresh' /\ AnswerIsCurrent'
  BY <1>1, <1>3 DEF RemoteInv, HeldFresh, AnswerIsCurrent
<1>7. StoredFresh'
  BY <1>1, <1>2 DEF RemoteInv, Waits, StoredFresh, Fresh
<1> QED BY <1>4, <1>5, <1>6, <1>7 DEF RemoteInv

-----------------------------------------------------------------------------
(* The Agent answers with what is there now, which is fresh for whoever     *)
(* waits; places only get newer, or are deleted.                            *)
LEMMA HandleInv ==
  ASSUME RemoteInv, HandleCommand \/ FailCommand
  PROVE  RemoteInv'
<1> DEFINE row == commands[node.id]
<1>1. /\ node # Nobody /\ node \in CallWork /\ node.id \in Ids /\ row \in CallRows
      /\ UNCHANGED <<commands, caller, changes>> /\ losses' \in Nat
  <2>1. node # Nobody /\ UNCHANGED <<commands, caller, changes>> /\ losses' \in {losses, losses + 1}
    BY DEF HandleCommand, FailCommand, Loss, NoLoss
  <2>2. node \in CallWork /\ node.id \in Ids /\ commands \in Seq(CallRows) /\ losses \in Nat
    BY <2>1 DEF RemoteInv, RemoteTypeOK
  <2>3. row \in CallRows
    BY <2>2 DEF Ids
  <2> QED BY <2>1, <2>2, <2>3
<1>2. PICK ok \in BOOLEAN, result \in CallResults \cup {Nobody} :
        /\ node' = [node EXCEPT !.step = "submit", !.ok = ok, !.result = result]
        /\ ok /\ row.kind = "question" => result = [place |-> row.place, version |-> place[row.place]]
        /\ \/ UNCHANGED place
           \/ row.kind = "delete" /\ place' = [place EXCEPT ![row.place] = 0]
  <2>1. CASE FailCommand
    BY <2>1 DEF FailCommand, Handled
  <2>2. CASE HandleCommand
    <3>1. [place |-> row.place, version |-> place[row.place]] \in CallResults
      BY <1>1 DEF RemoteInv, RemoteTypeOK, CallRows, CallResults
    <3> QED BY <2>2, <3>1 DEF HandleCommand, Handled
  <2> QED BY <2>1, <2>2
<1>3. /\ node' \in CallWork /\ node'.id = node.id /\ node'.ok = ok /\ node'.result = result
  BY <1>1, <1>2 DEF CallWork
<1>4. /\ place' \in [Places -> Nat]
      /\ \A p \in Places : place'[p] = place[p] \/ place'[p] = 0
  BY <1>1, <1>2 DEF RemoteInv, RemoteTypeOK, CallRows
<1>5. RemoteTypeOK'
  BY <1>1, <1>3, <1>4 DEF RemoteInv, RemoteTypeOK, Ids
<1>6. Waits'
  BY <1>1, <1>4 DEF RemoteInv, Waits, Fresh, Ids
<1>7. HeldFresh'
  <2> SUFFICES ASSUME NEW c \in Callers, caller[c].step = "waiting", node.id = caller[c].id, ok
      PROVE  result \in CallResults /\ result.place = caller[c].place /\ Fresh(c, result.version)
    BY <1>1, <1>3 DEF HeldFresh, Fresh
  <2>1. /\ row.kind = "question" /\ row.place = caller[c].place /\ row.place \in Places
        /\ Fresh(c, place[row.place])
    BY DEF RemoteInv, Waits
  <2>2. result = [place |-> row.place, version |-> place[row.place]]
    BY <1>2, <2>1
  <2> QED BY <2>1, <2>2 DEF RemoteInv, RemoteTypeOK, CallResults
<1>8. StoredFresh' /\ AnswerIsCurrent'
  BY <1>1 DEF RemoteInv, StoredFresh, AnswerIsCurrent, Fresh
<1> QED BY <1>5, <1>6, <1>7, <1>8 DEF RemoteInv

LEMMA ChangeInv ==
  ASSUME RemoteInv, NEW p \in Places, ChangePlace(p)
  PROVE  RemoteInv'
<1>1. /\ UNCHANGED <<commands, caller, node, losses>> /\ changes' \in Nat
      /\ place' \in [Places -> Nat]
      /\ \A q \in Places : place'[q] = place[q] \/ (place[q] # 0 /\ place'[q] = place[q] + 1)
  BY DEF ChangePlace, NoLoss, RemoteInv, RemoteTypeOK
<1>2. RemoteTypeOK'
  BY <1>1 DEF RemoteInv, RemoteTypeOK, Ids
<1>3. Waits'
  BY <1>1 DEF RemoteInv, RemoteTypeOK, Waits, Fresh, Ids, Questions
<1>4. HeldFresh' /\ StoredFresh' /\ AnswerIsCurrent'
  BY <1>1 DEF RemoteInv, HeldFresh, StoredFresh, AnswerIsCurrent, Fresh
<1> QED BY <1>2, <1>3, <1>4 DEF RemoteInv

-----------------------------------------------------------------------------
(* A result that arrives is stored while the command is dispatched, and     *)
(* then the row says what the Agent held.                                   *)
LEMMA SubmitInv ==
  ASSUME RemoteInv, SubmitResult
  PROVE  RemoteInv'
<1>1. /\ node # Nobody /\ node.step = "submit" /\ node \in CallWork /\ node.id \in Ids
      /\ CompleteDispatched \/ UNCHANGED commands
      /\ UNCHANGED <<caller, place, changes>> /\ losses' \in Nat
      /\ node' = Nobody \/ (node' \in CallWork /\ node' = [node EXCEPT !.tries = node.tries + 1])
  <2>1. /\ node # Nobody /\ node.step = "submit" /\ UNCHANGED <<caller, place, changes>>
        /\ CompleteDispatched \/ UNCHANGED commands
        /\ losses' \in {losses, losses + 1}
        /\ node' = Nobody \/ node' = [node EXCEPT !.tries = node.tries + 1]
    BY DEF SubmitResult, Loss, NoLoss
  <2>2. node \in CallWork /\ node.id \in Ids /\ losses \in Nat
    BY <2>1 DEF RemoteInv, RemoteTypeOK
  <2>3. [node EXCEPT !.tries = node.tries + 1] \in CallWork
    BY <2>2 DEF CallWork
  <2> QED BY <2>1, <2>2, <2>3
<1>2. node' # Nobody => /\ node' \in CallWork /\ node'.id = node.id /\ node'.step = "submit"
                        /\ node'.ok = node.ok /\ node'.result = node.result
  BY <1>1 DEF CallWork
<1>3. HeldFresh' /\ AnswerIsCurrent'
  BY <1>1, <1>2 DEF RemoteInv, HeldFresh, AnswerIsCurrent, Fresh
<1>4. CASE UNCHANGED commands
  <2>1. RemoteTypeOK'
    BY <1>1, <1>2, <1>4 DEF RemoteInv, RemoteTypeOK, Ids
  <2>2. Waits' /\ StoredFresh'
    BY <1>1, <1>4 DEF RemoteInv, Waits, StoredFresh, Fresh, Ids
  <2> QED BY <1>3, <2>1, <2>2 DEF RemoteInv
<1>5. CASE Settled(node.id, IF node.ok THEN "succeeded" ELSE "failed", node.result)
  <2> DEFINE status == IF node.ok THEN "succeeded" ELSE "failed"
  <2>1. status \in ActiveStates \cup FinalStates /\ node.result \in CallResults \cup {Nobody}
    BY <1>1 DEF FinalStates, CallWork
  <2>2. /\ commands' \in Seq(CallRows) /\ Ids' = Ids
        /\ \A i \in Ids \ {node.id} : commands'[i] = commands[i]
        /\ commands'[node.id].kind = commands[node.id].kind
        /\ commands'[node.id].place = commands[node.id].place
        /\ commands'[node.id].status = status /\ commands'[node.id].result = node.result
    BY <1>1, <1>5, <2>1, SettledRows
  <2>3. RemoteTypeOK'
    BY <1>1, <1>2, <2>2 DEF RemoteInv, RemoteTypeOK
  <2>4. Waits'
    BY <1>1, <2>2 DEF RemoteInv, Waits, Fresh
  <2>5. StoredFresh'
    <3> SUFFICES ASSUME NEW c \in Callers, caller[c].step = "waiting",
                        commands'[caller[c].id].status = "succeeded"
        PROVE  /\ commands'[caller[c].id].result \in CallResults
               /\ commands'[caller[c].id].result.place = caller[c].place
               /\ Fresh(c, commands'[caller[c].id].result.version)
      BY <1>1 DEF StoredFresh, Fresh
    <3>1. CASE caller[c].id = node.id
      BY <1>1, <2>2, <3>1 DEF RemoteInv, HeldFresh
    <3>2. CASE caller[c].id # node.id
      BY <2>2, <3>2 DEF RemoteInv, Waits, StoredFresh
    <3> QED BY <3>1, <3>2
  <2> QED BY <1>3, <2>3, <2>4, <2>5 DEF RemoteInv
<1> QED BY <1>1, <1>4, <1>5 DEF CompleteDispatched

LEMMA RestartInv ==
  ASSUME RemoteInv, AgentRestarts
  PROVE  RemoteInv'
<1>1. node' = Nobody /\ UNCHANGED <<commands, caller, place, changes>> /\ losses' \in Nat
  BY DEF AgentRestarts, Loss, RemoteInv, RemoteTypeOK
<1>2. RemoteTypeOK'
  BY <1>1 DEF RemoteInv, RemoteTypeOK, Ids
<1>3. Waits' /\ HeldFresh' /\ StoredFresh' /\ AnswerIsCurrent'
  BY <1>1 DEF RemoteInv, Waits, HeldFresh, StoredFresh, AnswerIsCurrent, Fresh, Ids
<1> QED BY <1>2, <1>3 DEF RemoteInv

-----------------------------------------------------------------------------
LEMMA RemoteInvStep == RemoteInv /\ [RemoteNext]_remoteVars => RemoteInv'
<1> SUFFICES ASSUME RemoteInv, [RemoteNext]_remoteVars PROVE RemoteInv'
  OBVIOUS
<1>1. CASE UNCHANGED remoteVars
  BY <1>1 DEF RemoteInv, RemoteTypeOK, Waits, HeldFresh, StoredFresh, AnswerIsCurrent, Fresh, Ids, remoteVars
<1>2. CASE \E c \in Callers : CallerStep(c) \/ \E p \in Places : Ask(c, p)
  BY <1>2, CallerKeeps, AskInv
<1>3. CASE \E p \in Places : Enqueued("delete", p) \/ Enqueued("run", p) \/ ChangePlace(p)
  BY <1>3, EnqueuedInv, ChangeInv
<1>4. CASE \E id \in Ids : TimeoutCommand(id)
  BY <1>4, TimeoutInv
<1>5. CASE PollCommand \/ HandleCommand \/ FailCommand \/ SubmitResult \/ AgentRestarts
  BY <1>5, PollInv, HandleInv, SubmitInv, RestartInv
<1> QED BY <1>1, <1>2, <1>3, <1>4, <1>5 DEF RemoteNext

(* Whatever is lost, late or repeated, an answer is to the caller's own     *)
(* question and not older than it (WaitForCommandResult).                   *)
THEOREM AnswersAreCurrent == RemoteSpec => []AnswerIsCurrent
<1>1. RemoteInv => AnswerIsCurrent
  BY DEF RemoteInv
<1> QED BY <1>1, RemoteInvInit, RemoteInvStep, PTL DEF RemoteSpec

(* The queue, the callers and the Agent stay within their types.            *)
THEOREM RemoteTyped == RemoteSpec => []RemoteTypeOK
<1>1. RemoteInv => RemoteTypeOK
  BY DEF RemoteInv
<1> QED BY <1>1, RemoteInvInit, RemoteInvStep, PTL DEF RemoteSpec

HIDE RemoteCallsAssumption

-----------------------------------------------------------------------------
(* VdiTransfer                                                              *)
(* What each party says of itself.                                          *)
TransferRecord ==
    [step : {"start", "lookup", "await", "drain", "both", "returned", "done"},
     mode : {"none", "backup", "restore"}, taken : SUBSET {"helper", "sql"},
     result : {"none", "ok", "error"}]
HelperRecord ==
    [step : {"off", "starting", "up", "moved", "gone"},
     said : {"nothing", "ready", "incompatible"}, outcome : {"none", "ok", "error"}]
StatementRecord == [step : {"off", "running", "returned"}, outcome : {"none", "ok", "error"}]

TransferTypeOK ==
    /\ transfer \in TransferRecord
    /\ helper \in HelperRecord
    /\ sql \in StatementRecord
    /\ ctx \in [run : BOOLEAN, own : BOOLEAN]
    /\ artifact \in {"none", "empty", "whole", "kept"}

(* How far the two parties may be at each step of transfer.                 *)
PartiesFollow ==
    /\ InTransfer({"start", "lookup"}) => helper.step = "off" /\ sql.step = "off"
    /\ InTransfer({"await", "drain"}) => helper.step # "off" /\ sql.step = "off"
    /\ InTransfer({"start", "lookup", "await"}) => transfer.taken = {}
    /\ InTransfer({"both"}) => helper.step # "off" /\ sql.step # "off"
    /\ InTransfer({"returned", "done"}) => helper.step \in {"off", "gone"} /\ sql.step \in {"off", "returned"}
    /\ InTransfer({"both"}) =>
         /\ "helper" \in transfer.taken => helper.step = "gone"
         /\ "sql" \in transfer.taken => sql.step = "returned"
    /\ helper.step = "gone" <=> helper.outcome # "none"
    /\ sql.step = "returned" <=> sql.outcome # "none"

(* What the file holds: all of it when the helper says so.                  *)
FileFollows ==
    /\ ~InTransfer({"start"}) => transfer.mode # "none"
    /\ transfer.mode = "restore" => artifact = "kept"
    /\ transfer.mode = "backup" /\ ~InTransfer({"done"}) => artifact \in {"empty", "whole"}
    /\ (helper.step = "moved" \/ helper.outcome = "ok") /\ ~InTransfer({"done"}) => artifact \in {"whole", "kept"}
    /\ InTransfer({"returned", "done"}) =>
         transfer.result = "error" \/ (helper.outcome = "ok" /\ sql.outcome = "ok" /\ transfer.result = "ok")

TransferInv == TransferTypeOK /\ PartiesFollow /\ FileFollows /\ TransferHonest

(* What a step assigns keeps its shape.                                     *)
LEMMA TransferShapes ==
    ASSUME TransferTypeOK
    PROVE  /\ \A result \in Outcomes : /\ [transfer EXCEPT !.step = "returned", !.result = result] \in TransferRecord
                                       /\ [transfer EXCEPT !.step = "done", !.result = result] \in TransferRecord
           /\ [transfer EXCEPT !.step = "done"] \in TransferRecord
           /\ \A outcome \in Outcomes : [helper EXCEPT !.step = "gone", !.outcome = outcome] \in HelperRecord
           /\ \A said \in {"ready", "incompatible"} : [helper EXCEPT !.step = "up", !.said = said] \in HelperRecord
           /\ \A outcome \in Outcomes : [sql EXCEPT !.step = "returned", !.outcome = outcome] \in StatementRecord
           /\ [sql EXCEPT !.step = "running"] \in StatementRecord
           /\ [ctx EXCEPT !.run = TRUE] \in [run : BOOLEAN, own : BOOLEAN]
<1>1. \A result \in Outcomes : /\ [transfer EXCEPT !.step = "returned", !.result = result] \in TransferRecord
                              /\ [transfer EXCEPT !.step = "done", !.result = result] \in TransferRecord
  BY DEF TransferTypeOK, TransferRecord, Outcomes
<1>2. [transfer EXCEPT !.step = "done"] \in TransferRecord
  BY DEF TransferTypeOK, TransferRecord
<1>3. /\ \A outcome \in Outcomes : [helper EXCEPT !.step = "gone", !.outcome = outcome] \in HelperRecord
      /\ \A said \in {"ready", "incompatible"} : [helper EXCEPT !.step = "up", !.said = said] \in HelperRecord
  BY DEF TransferTypeOK, HelperRecord, Outcomes
<1>4. /\ \A outcome \in Outcomes : [sql EXCEPT !.step = "returned", !.outcome = outcome] \in StatementRecord
      /\ [sql EXCEPT !.step = "running"] \in StatementRecord
  BY DEF TransferTypeOK, StatementRecord, Outcomes
<1>5. [ctx EXCEPT !.run = TRUE] \in [run : BOOLEAN, own : BOOLEAN]
  BY DEF TransferTypeOK
<1>6. QED
  BY <1>1, <1>2, <1>3, <1>4, <1>5

LEMMA TransferStarts == TransferInit => TransferInv
BY DEF TransferInit, TransferInv, TransferTypeOK, TransferRecord, HelperRecord, StatementRecord, PartiesFollow, FileFollows, TransferHonest, InTransfer, Outcomes

LEMMA TransferKeeps == TransferInv /\ [TransferNext]_transferVars => TransferInv'
<1> SUFFICES ASSUME TransferInv, [TransferNext]_transferVars PROVE TransferInv'
  OBVIOUS
<1> USE DEF InTransfer, Outcomes
<1>1. CASE \E mode \in {"backup", "restore"} : Begin(mode)
  <2>1. TransferTypeOK'
    BY <1>1 DEF TransferInv, TransferTypeOK, TransferRecord, HelperRecord, StatementRecord, Begin
  <2>2. PartiesFollow'
    BY <1>1 DEF TransferInv, TransferTypeOK, TransferRecord, HelperRecord, StatementRecord, PartiesFollow, Begin
  <2>3. FileFollows'
    BY <1>1 DEF TransferInv, TransferTypeOK, TransferRecord, HelperRecord, StatementRecord, PartiesFollow, FileFollows, Begin
  <2>4. TransferHonest'
    BY <1>1 DEF TransferInv, TransferTypeOK, TransferRecord, HelperRecord, StatementRecord, PartiesFollow, FileFollows, TransferHonest, Begin
  <2>5. QED
    BY <2>1, <2>2, <2>3, <2>4 DEF TransferInv
<1>2. CASE CannotStart
  <2>1. TransferTypeOK'
    BY <1>2, TransferShapes DEF TransferInv, TransferTypeOK, CannotStart, Conclude
  <2>2. PartiesFollow'
    BY <1>2 DEF TransferInv, TransferTypeOK, TransferRecord, HelperRecord, StatementRecord, PartiesFollow, CannotStart, Conclude
  <2>3. FileFollows'
    BY <1>2 DEF TransferInv, TransferTypeOK, TransferRecord, HelperRecord, StatementRecord, PartiesFollow, FileFollows, CannotStart, Conclude
  <2>4. TransferHonest'
    BY <1>2 DEF TransferInv, TransferTypeOK, TransferRecord, HelperRecord, StatementRecord, PartiesFollow, FileFollows, TransferHonest, CannotStart, Conclude
  <2>5. QED
    BY <2>1, <2>2, <2>3, <2>4 DEF TransferInv
<1>3. CASE StartHelper
  <2>1. TransferTypeOK'
    BY <1>3 DEF TransferInv, TransferTypeOK, TransferRecord, HelperRecord, StatementRecord, StartHelper, Moves
  <2>2. PartiesFollow'
    BY <1>3 DEF TransferInv, TransferTypeOK, TransferRecord, HelperRecord, StatementRecord, PartiesFollow, StartHelper, Moves
  <2>3. FileFollows'
    BY <1>3 DEF TransferInv, TransferTypeOK, TransferRecord, HelperRecord, StatementRecord, PartiesFollow, FileFollows, StartHelper, Moves
  <2>4. TransferHonest'
    BY <1>3 DEF TransferInv, TransferTypeOK, TransferRecord, HelperRecord, StatementRecord, PartiesFollow, FileFollows, TransferHonest, StartHelper, Moves
  <2>5. QED
    BY <2>1, <2>2, <2>3, <2>4 DEF TransferInv
<1>4. CASE HelperReady
  <2>0. /\ transfer.step = "await" /\ transfer' = [transfer EXCEPT !.step = "both"]
        /\ sql' = [sql EXCEPT !.step = "running"]
        /\ helper' = helper /\ ctx' = ctx /\ artifact' = artifact
    BY <1>4 DEF HelperReady, Moves
  <2>1. TransferTypeOK'
    <3>1. transfer' \in TransferRecord
      BY <2>0 DEF TransferInv, TransferTypeOK, TransferRecord
    <3>2. QED
      BY <2>0, <3>1, TransferShapes DEF TransferInv, TransferTypeOK
  <2>2. PartiesFollow'
    <3>1. transfer'.step = "both" /\ transfer'.taken = transfer.taken
      BY <2>0 DEF TransferInv, TransferTypeOK, TransferRecord
    <3>2. sql'.step = "running" /\ sql'.outcome = sql.outcome
      BY <2>0 DEF TransferInv, TransferTypeOK, StatementRecord
    <3>3. QED
      BY <2>0, <3>1, <3>2 DEF TransferInv, PartiesFollow
  <2>3. FileFollows'
    BY <1>4 DEF TransferInv, TransferTypeOK, TransferRecord, HelperRecord, StatementRecord, PartiesFollow, FileFollows, HelperReady, Moves
  <2>4. TransferHonest'
    BY <1>4 DEF TransferInv, TransferTypeOK, TransferRecord, HelperRecord, StatementRecord, PartiesFollow, FileFollows, TransferHonest, HelperReady, Moves
  <2>5. QED
    BY <2>1, <2>2, <2>3, <2>4 DEF TransferInv
<1>5. CASE HelperGone
  <2>1. TransferTypeOK'
    BY <1>5, TransferShapes DEF TransferInv, TransferTypeOK, HelperGone, Conclude
  <2>2. PartiesFollow'
    BY <1>5 DEF TransferInv, TransferTypeOK, TransferRecord, HelperRecord, StatementRecord, PartiesFollow, HelperGone, Conclude
  <2>3. FileFollows'
    BY <1>5 DEF TransferInv, TransferTypeOK, TransferRecord, HelperRecord, StatementRecord, PartiesFollow, FileFollows, HelperGone, Conclude
  <2>4. TransferHonest'
    BY <1>5 DEF TransferInv, TransferTypeOK, TransferRecord, HelperRecord, StatementRecord, PartiesFollow, FileFollows, TransferHonest, HelperGone, Conclude
  <2>5. QED
    BY <2>1, <2>2, <2>3, <2>4 DEF TransferInv
<1>6. CASE HelperRefused \/ CancelSeen \/ TimerFires
  <2>1. TransferTypeOK'
    BY <1>6 DEF TransferInv, TransferTypeOK, TransferRecord, HelperRecord, StatementRecord, HelperRefused, CancelSeen, TimerFires, NotReady, Cancels, Moves
  <2>2. PartiesFollow'
    BY <1>6 DEF TransferInv, TransferTypeOK, TransferRecord, HelperRecord, StatementRecord, PartiesFollow, HelperRefused, CancelSeen, TimerFires, NotReady, Cancels, Moves
  <2>3. FileFollows'
    BY <1>6 DEF TransferInv, TransferTypeOK, TransferRecord, HelperRecord, StatementRecord, PartiesFollow, FileFollows, HelperRefused, CancelSeen, TimerFires, NotReady, Cancels, Moves
  <2>4. TransferHonest'
    BY <1>6 DEF TransferInv, TransferTypeOK, TransferRecord, HelperRecord, StatementRecord, PartiesFollow, FileFollows, TransferHonest, HelperRefused, CancelSeen, TimerFires, NotReady, Cancels, Moves
  <2>5. QED
    BY <2>1, <2>2, <2>3, <2>4 DEF TransferInv
<1>7. CASE CancelRun
  <2>1. TransferTypeOK'
    BY <1>7, TransferShapes DEF TransferInv, TransferTypeOK, CancelRun
  <2>2. PartiesFollow'
    BY <1>7 DEF TransferInv, TransferTypeOK, TransferRecord, HelperRecord, StatementRecord, PartiesFollow, CancelRun
  <2>3. FileFollows'
    BY <1>7 DEF TransferInv, TransferTypeOK, TransferRecord, HelperRecord, StatementRecord, PartiesFollow, FileFollows, CancelRun
  <2>4. TransferHonest'
    BY <1>7 DEF TransferInv, TransferTypeOK, TransferRecord, HelperRecord, StatementRecord, PartiesFollow, FileFollows, TransferHonest, CancelRun
  <2>5. QED
    BY <2>1, <2>2, <2>3, <2>4 DEF TransferInv
<1>8. CASE Drain
  <2>1. TransferTypeOK'
    BY <1>8, TransferShapes DEF TransferInv, TransferTypeOK, Drain, Conclude
  <2>2. PartiesFollow'
    BY <1>8 DEF TransferInv, TransferTypeOK, TransferRecord, HelperRecord, StatementRecord, PartiesFollow, Drain, Conclude
  <2>3. FileFollows'
    BY <1>8 DEF TransferInv, TransferTypeOK, TransferRecord, HelperRecord, StatementRecord, PartiesFollow, FileFollows, Drain, Conclude
  <2>4. TransferHonest'
    BY <1>8 DEF TransferInv, TransferTypeOK, TransferRecord, HelperRecord, StatementRecord, PartiesFollow, FileFollows, TransferHonest, Drain, Conclude
  <2>5. QED
    BY <2>1, <2>2, <2>3, <2>4 DEF TransferInv
<1>9. CASE Join
  <2>1. TransferTypeOK'
    BY <1>9, TransferShapes DEF TransferInv, TransferTypeOK, Join, Conclude
  <2>2. PartiesFollow'
    BY <1>9 DEF TransferInv, TransferTypeOK, TransferRecord, HelperRecord, StatementRecord, PartiesFollow, Join, Conclude
  <2>3. FileFollows'
    BY <1>9 DEF TransferInv, TransferTypeOK, TransferRecord, HelperRecord, StatementRecord, PartiesFollow, FileFollows, Join, Conclude
  <2>4. TransferHonest'
    BY <1>9 DEF TransferInv, TransferTypeOK, TransferRecord, HelperRecord, StatementRecord, PartiesFollow, FileFollows, TransferHonest, Join, Conclude
  <2>5. QED
    BY <2>1, <2>2, <2>3, <2>4 DEF TransferInv
<1>10. CASE TakeHelper
  <2>1. TransferTypeOK'
    BY <1>10 DEF TransferInv, TransferTypeOK, TransferRecord, HelperRecord, StatementRecord, TakeHelper, Cancels
  <2>2. PartiesFollow'
    BY <1>10 DEF TransferInv, TransferTypeOK, TransferRecord, HelperRecord, StatementRecord, PartiesFollow, TakeHelper, Cancels
  <2>3. FileFollows'
    BY <1>10 DEF TransferInv, TransferTypeOK, TransferRecord, HelperRecord, StatementRecord, PartiesFollow, FileFollows, TakeHelper, Cancels
  <2>4. TransferHonest'
    BY <1>10 DEF TransferInv, TransferTypeOK, TransferRecord, HelperRecord, StatementRecord, PartiesFollow, FileFollows, TransferHonest, TakeHelper, Cancels
  <2>5. QED
    BY <2>1, <2>2, <2>3, <2>4 DEF TransferInv
<1>11. CASE TakeStatement
  <2>1. TransferTypeOK'
    BY <1>11 DEF TransferInv, TransferTypeOK, TransferRecord, HelperRecord, StatementRecord, TakeStatement, Cancels
  <2>2. PartiesFollow'
    BY <1>11 DEF TransferInv, TransferTypeOK, TransferRecord, HelperRecord, StatementRecord, PartiesFollow, TakeStatement, Cancels
  <2>3. FileFollows'
    BY <1>11 DEF TransferInv, TransferTypeOK, TransferRecord, HelperRecord, StatementRecord, PartiesFollow, FileFollows, TakeStatement, Cancels
  <2>4. TransferHonest'
    BY <1>11 DEF TransferInv, TransferTypeOK, TransferRecord, HelperRecord, StatementRecord, PartiesFollow, FileFollows, TransferHonest, TakeStatement, Cancels
  <2>5. QED
    BY <2>1, <2>2, <2>3, <2>4 DEF TransferInv
<1>12. CASE Finish
  <2>1. TransferTypeOK'
    BY <1>12, TransferShapes DEF TransferInv, TransferTypeOK, Finish
  <2>2. PartiesFollow'
    BY <1>12 DEF TransferInv, TransferTypeOK, TransferRecord, HelperRecord, StatementRecord, PartiesFollow, Finish
  <2>3. FileFollows'
    BY <1>12 DEF TransferInv, TransferTypeOK, TransferRecord, HelperRecord, StatementRecord, PartiesFollow, FileFollows, Finish
  <2>4. TransferHonest'
    BY <1>12 DEF TransferInv, TransferTypeOK, TransferRecord, HelperRecord, StatementRecord, PartiesFollow, FileFollows, TransferHonest, Finish
  <2>5. QED
    BY <2>1, <2>2, <2>3, <2>4 DEF TransferInv
<1>13. CASE Announce
  <2>1. TransferTypeOK'
    BY <1>13, TransferShapes DEF TransferInv, TransferTypeOK, Announce
  <2>2. PartiesFollow'
    BY <1>13 DEF TransferInv, TransferTypeOK, TransferRecord, HelperRecord, StatementRecord, PartiesFollow, Announce
  <2>3. FileFollows'
    BY <1>13 DEF TransferInv, TransferTypeOK, TransferRecord, HelperRecord, StatementRecord, PartiesFollow, FileFollows, Announce
  <2>4. TransferHonest'
    BY <1>13 DEF TransferInv, TransferTypeOK, TransferRecord, HelperRecord, StatementRecord, PartiesFollow, FileFollows, TransferHonest, Announce
  <2>5. QED
    BY <2>1, <2>2, <2>3, <2>4 DEF TransferInv
<1>14. CASE MoveData
  <2>1. TransferTypeOK'
    BY <1>14 DEF TransferInv, TransferTypeOK, TransferRecord, HelperRecord, StatementRecord, MoveData
  <2>2. PartiesFollow'
    BY <1>14 DEF TransferInv, TransferTypeOK, TransferRecord, HelperRecord, StatementRecord, PartiesFollow, MoveData
  <2>3. FileFollows'
    BY <1>14 DEF TransferInv, TransferTypeOK, TransferRecord, HelperRecord, StatementRecord, PartiesFollow, FileFollows, MoveData
  <2>4. TransferHonest'
    BY <1>14 DEF TransferInv, TransferTypeOK, TransferRecord, HelperRecord, StatementRecord, PartiesFollow, FileFollows, TransferHonest, MoveData
  <2>5. QED
    BY <2>1, <2>2, <2>3, <2>4 DEF TransferInv
<1>15. CASE HelperSucceeds
  <2>1. TransferTypeOK'
    BY <1>15, TransferShapes DEF TransferInv, TransferTypeOK, HelperSucceeds, HelperExits
  <2>2. PartiesFollow'
    BY <1>15 DEF TransferInv, TransferTypeOK, TransferRecord, HelperRecord, StatementRecord, PartiesFollow, HelperSucceeds, HelperExits
  <2>3. FileFollows'
    BY <1>15 DEF TransferInv, TransferTypeOK, TransferRecord, HelperRecord, StatementRecord, PartiesFollow, FileFollows, HelperSucceeds, HelperExits
  <2>4. TransferHonest'
    BY <1>15 DEF TransferInv, TransferTypeOK, TransferRecord, HelperRecord, StatementRecord, PartiesFollow, FileFollows, TransferHonest, HelperSucceeds, HelperExits
  <2>5. QED
    BY <2>1, <2>2, <2>3, <2>4 DEF TransferInv
<1>16. CASE HelperFails \/ HelperStops
  <2>1. TransferTypeOK'
    BY <1>16 DEF TransferInv, TransferTypeOK, TransferRecord, HelperRecord, StatementRecord, HelperStops, HelperFails, HelperExits
  <2>2. PartiesFollow'
    BY <1>16 DEF TransferInv, TransferTypeOK, TransferRecord, HelperRecord, StatementRecord, PartiesFollow, HelperStops, HelperFails, HelperExits
  <2>3. FileFollows'
    BY <1>16 DEF TransferInv, TransferTypeOK, TransferRecord, HelperRecord, StatementRecord, PartiesFollow, FileFollows, HelperStops, HelperFails, HelperExits
  <2>4. TransferHonest'
    BY <1>16 DEF TransferInv, TransferTypeOK, TransferRecord, HelperRecord, StatementRecord, PartiesFollow, FileFollows, TransferHonest, HelperStops, HelperFails, HelperExits
  <2>5. QED
    BY <2>1, <2>2, <2>3, <2>4 DEF TransferInv
<1>17. CASE StatementSucceeds
  <2>1. TransferTypeOK'
    BY <1>17, TransferShapes DEF TransferInv, TransferTypeOK, StatementSucceeds, SQLReturns
  <2>2. PartiesFollow'
    BY <1>17 DEF TransferInv, TransferTypeOK, TransferRecord, HelperRecord, StatementRecord, PartiesFollow, StatementSucceeds, SQLReturns
  <2>3. FileFollows'
    BY <1>17 DEF TransferInv, TransferTypeOK, TransferRecord, HelperRecord, StatementRecord, PartiesFollow, FileFollows, StatementSucceeds, SQLReturns
  <2>4. TransferHonest'
    BY <1>17 DEF TransferInv, TransferTypeOK, TransferRecord, HelperRecord, StatementRecord, PartiesFollow, FileFollows, TransferHonest, StatementSucceeds, SQLReturns
  <2>5. QED
    BY <2>1, <2>2, <2>3, <2>4 DEF TransferInv
<1>18. CASE StatementFails \/ StatementStops
  <2>1. TransferTypeOK'
    BY <1>18 DEF TransferInv, TransferTypeOK, TransferRecord, HelperRecord, StatementRecord, StatementStops, StatementFails, SQLReturns
  <2>2. PartiesFollow'
    BY <1>18 DEF TransferInv, TransferTypeOK, TransferRecord, HelperRecord, StatementRecord, PartiesFollow, StatementStops, StatementFails, SQLReturns
  <2>3. FileFollows'
    BY <1>18 DEF TransferInv, TransferTypeOK, TransferRecord, HelperRecord, StatementRecord, PartiesFollow, FileFollows, StatementStops, StatementFails, SQLReturns
  <2>4. TransferHonest'
    BY <1>18 DEF TransferInv, TransferTypeOK, TransferRecord, HelperRecord, StatementRecord, PartiesFollow, FileFollows, TransferHonest, StatementStops, StatementFails, SQLReturns
  <2>5. QED
    BY <2>1, <2>2, <2>3, <2>4 DEF TransferInv
<1>19. CASE UNCHANGED transferVars
  <2>1. TransferTypeOK'
    BY <1>19 DEF TransferInv, TransferTypeOK, TransferRecord, HelperRecord, StatementRecord, transferVars
  <2>2. PartiesFollow'
    BY <1>19 DEF TransferInv, TransferTypeOK, TransferRecord, HelperRecord, StatementRecord, PartiesFollow, transferVars
  <2>3. FileFollows'
    BY <1>19 DEF TransferInv, TransferTypeOK, TransferRecord, HelperRecord, StatementRecord, PartiesFollow, FileFollows, transferVars
  <2>4. TransferHonest'
    BY <1>19 DEF TransferInv, TransferTypeOK, TransferRecord, HelperRecord, StatementRecord, PartiesFollow, FileFollows, TransferHonest, transferVars
  <2>5. QED
    BY <2>1, <2>2, <2>3, <2>4 DEF TransferInv
<1>20. QED
  BY <1>1, <1>2, <1>3, <1>4, <1>5, <1>6, <1>7, <1>8, <1>9, <1>10, <1>11, <1>12, <1>13, <1>14, <1>15, <1>16, <1>17, <1>18, <1>19 DEF TransferNext, MasterStep

(* transfer, Run: a backup or restore of SQL Server reports success only if *)
(* both parties ended well, and leaves nothing at work and no file behind   *)
(* when it failed, in whatever order the two end, fail or hang.             *)
THEOREM TransferHonestHolds == TransferSpec => []TransferHonest
<1>1. TransferInv => TransferHonest
  BY DEF TransferInv
<1>2. QED
  BY <1>1, TransferStarts, TransferKeeps, PTL DEF TransferSpec

-----------------------------------------------------------------------------
(* Alerts                                                                   *)
USE AlertsAssumption

(* A run is begun when none is running, so that only the last one can be.   *)
RunRecords == [status : {"running", "success", "failed", "deleted"}, remote : BOOLEAN,
               by : {"run", "agent", "start", Absent}, at : Nat]
AlertsTypeOK ==
    /\ records \in Seq(RunRecords)
    /\ reporting \subseteq AlertRuns
    /\ told \subseteq Channels \X Nat
    /\ missed \subseteq Nat
    /\ watched \in [Monitors -> {"good", "bad", "gone"}]
    /\ seen \in [Monitors -> {"good", "bad", "gone", Absent}]
    /\ remembered \in [Monitors -> Nat \cup {Absent}]
    /\ announced \in [Monitors -> Seq(Nat)]
    /\ hours \in Nat

LastRuns == \A id \in AlertRuns : records[id].status = "running" => id = Len(records)

(* The last run, if it has decided: it was told, nobody could know whom to  *)
(* tell, or one of the last Threshold runs, and be it this one, has not     *)
(* failed and never will have.                                              *)
Decided ==
    LET last == Len(records) IN
    (last > 0 /\ last >= Threshold /\ records[last].by = "run" /\ last \notin reporting /\ last \notin missed)
      => \/ \A c \in collectSubscribers("backup_failed") : <<c, last>> \in told
         \/ records[last].status # "failed"
         \/ \E id \in last - Threshold + 1 .. last : records[id].status \in {"success", "deleted"}

(* What a monitor has announced it remembers, as long as it has not read    *)
(* that the condition is over; when it has, there is nothing to remember.   *)
Spared(m) ==
    /\ \A i, j \in DOMAIN announced[m] : i < j => announced[m][j] - announced[m][i] >= Reset
    /\ \A i \in DOMAIN announced[m] : announced[m][i] <= hours
    /\ \A i \in DOMAIN announced[m] : remembered[m] \in Nat /\ announced[m][i] <= remembered[m]
    /\ remembered[m] # Absent => remembered[m] <= hours
    /\ seen[m] = "good" \/ (seen[m] = "gone" /\ m # "capacity") => announced[m] = <<>>

AlertsInv ==
    /\ AlertsTypeOK
    /\ LastRuns
    /\ Decided
    /\ \A m \in Monitors : Spared(m)
    /\ Len(announced["capacity"]) <= 1

LEMMA AlertsStart == AlertsInit => AlertsInv
<1> SUFFICES ASSUME AlertsInit PROVE AlertsInv
  OBVIOUS
<1>1. AlertsTypeOK
  BY DEF AlertsInit, AlertsTypeOK, AlertRuns
<1>2. LastRuns /\ Decided
  BY DEF AlertsInit, LastRuns, Decided, AlertRuns
<1>3. \A m \in Monitors : Spared(m)
  BY DEF AlertsInit, Spared
<1>4. Len(announced["capacity"]) <= 1
  BY DEF AlertsInit, Monitors
<1> QED BY <1>1, <1>2, <1>3, <1>4 DEF AlertsInv

(* A list of announcements is kept, forgotten, or grows by one.             *)
LEMMA Announced ==
    ASSUME AlertsTypeOK, NEW ms \in SUBSET Monitors, Announcing(ms)
    PROVE  /\ announced' \in [Monitors -> Seq(Nat)]
           /\ \A m \in ms : announced'[m] = Append(announced[m], hours)
           /\ \A m \in Monitors \ ms : announced'[m] \in {announced[m], <<>>}
           /\ \A m \in Monitors \ ms : ~Lasts(m)' => announced'[m] = <<>>
<1>1. \A m \in Monitors : announced'[m] = IF m \in ms THEN Append(announced[m], hours)
                                          ELSE IF Lasts(m)' THEN announced[m] ELSE <<>>
  BY DEF Announcing
<1>2. \A m \in Monitors : announced'[m] \in Seq(Nat)
  <2> SUFFICES ASSUME NEW m \in Monitors PROVE announced'[m] \in Seq(Nat)
    OBVIOUS
  <2>1. announced[m] \in Seq(Nat) /\ <<>> \in Seq(Nat) /\ hours \in Nat
    BY DEF AlertsTypeOK
  <2>2. Append(announced[m], hours) \in Seq(Nat)
    BY <2>1
  <2> QED BY <1>1, <2>1, <2>2
<1>3. announced' \in [Monitors -> Seq(Nat)]
  BY <1>2 DEF Announcing
<1> QED BY <1>1, <1>3

(* Nothing of what a record says is lost, a new one is appended.            *)
LEMMA RecordsTyped ==
    ASSUME AlertsTypeOK, NEW id \in AlertRuns
    PROVE  /\ records[id] \in RunRecords
           /\ id \in 1 .. Len(records)
  BY DEF AlertsTypeOK, AlertRuns

LEMMA RecordChanged ==
    ASSUME AlertsTypeOK, NEW id \in AlertRuns, NEW new \in RunRecords,
           records' = [records EXCEPT ![id] = new]
    PROVE  /\ records' \in Seq(RunRecords) /\ Len(records') = Len(records)
           /\ AlertRuns' = AlertRuns
           /\ records'[id] = new
           /\ \A j \in AlertRuns : j # id => records'[j] = records[j]
<1>1. records \in Seq(RunRecords) /\ id \in 1 .. Len(records)
  BY DEF AlertsTypeOK, AlertRuns
<1>2. records' \in Seq(RunRecords) /\ Len(records') = Len(records)
  BY <1>1
<1> QED BY <1>1, <1>2 DEF AlertRuns

(* The runs of the task: what each step does to the last one.               *)
LEMMA BeginRunKeeps ==
    ASSUME AlertsInv, BeginRun
    PROVE  /\ records' \in Seq(RunRecords) /\ reporting' \subseteq AlertRuns'
           /\ LastRuns' /\ Decided'
<1>1. PICK remote \in BOOLEAN : records' = Append(records, [status |-> "running", remote |-> remote, by |-> Absent, at |-> hours])
  BY DEF BeginRun
<1> DEFINE new == [status |-> "running", remote |-> remote, by |-> Absent, at |-> hours]
<1>2. records \in Seq(RunRecords) /\ new \in RunRecords
  BY DEF AlertsInv, AlertsTypeOK, RunRecords
<1> HIDE DEF new
<1>3. /\ records' \in Seq(RunRecords) /\ Len(records') = Len(records) + 1
      /\ records'[Len(records) + 1] = new
      /\ \A j \in 1 .. Len(records) : records'[j] = records[j]
  BY <1>1, <1>2 DEF new
<1>4. AlertRuns' = AlertRuns \cup {Len(records) + 1} /\ AlertRuns = 1 .. Len(records)
  BY <1>2, <1>3 DEF AlertRuns
<1>5. LastRuns'
  BY <1>3, <1>4 DEF LastRuns, BeginRun
<1>6. Decided'
  <2>1. records'[Len(records')].by = Absent
    BY <1>2, <1>3 DEF new
  <2> QED BY <2>1 DEF Decided
<1>7. reporting' \subseteq AlertRuns'
  BY <1>4 DEF BeginRun, AlertsInv, AlertsTypeOK
<1> QED BY <1>3, <1>5, <1>6, <1>7

(* A record that does not run any more keeps its outcome unless it is       *)
(* deleted; a change of another record than the last leaves a decision as   *)
(* it was.                                                                  *)
LEMMA ChangeKeeps ==
    ASSUME AlertsInv, NEW id \in AlertRuns, NEW new \in RunRecords,
           records' = [records EXCEPT ![id] = new],
           missed' = missed, told' = told, reporting \subseteq reporting', reporting' \subseteq AlertRuns,
           new.status = "running" => records[id].status = "running",
           records[id].status \in {"success", "deleted"} => new.status \in {"success", "deleted"},
           new.by = "run" /\ new.status = "failed" =>
              id \in reporting' \/ (records[id].by = "run" /\ records[id].status = "failed")
    PROVE  records' \in Seq(RunRecords) /\ reporting' \subseteq AlertRuns' /\ LastRuns' /\ Decided'
<1>1. /\ records' \in Seq(RunRecords) /\ Len(records') = Len(records)
      /\ AlertRuns' = AlertRuns
      /\ records'[id] = new
      /\ \A j \in AlertRuns : j # id => records'[j] = records[j]
  BY RecordChanged DEF AlertsInv
<1>2. LastRuns'
  BY <1>1 DEF LastRuns, AlertsInv
<1>3. Decided'
  <2> DEFINE last == Len(records)
  <2>0. last \in Nat /\ (last > 0 => last \in AlertRuns) /\ AlertRuns = 1 .. last
    BY DEF AlertsInv, AlertsTypeOK, AlertRuns
  <2> SUFFICES ASSUME last > 0, last >= Threshold, records'[last].by = "run",
                      last \notin reporting', last \notin missed,
                      records'[last].status = "failed"
               PROVE  \/ \A c \in collectSubscribers("backup_failed") : <<c, last>> \in told
                      \/ \E i \in last - Threshold + 1 .. last : records'[i].status \in {"success", "deleted"}
    BY <1>1 DEF Decided
  <2> HIDE DEF last
  <2>1. records[last].by = "run" /\ records[last].status = "failed" /\ last \notin reporting
    BY <1>1, <2>0
  <2>2. \/ \A c \in collectSubscribers("backup_failed") : <<c, last>> \in told
        \/ \E i \in last - Threshold + 1 .. last : records[i].status \in {"success", "deleted"}
    BY <2>1 DEF AlertsInv, Decided, last
  <2>3. ASSUME NEW i \in last - Threshold + 1 .. last, records[i].status \in {"success", "deleted"}
        PROVE  records'[i].status \in {"success", "deleted"}
    <3>1. i \in AlertRuns
      BY <2>0
    <3> QED BY <2>3, <3>1, <1>1
  <2> QED BY <2>2, <2>3
<1> QED BY <1>1, <1>2, <1>3

LEMMA Collected == \A e : collectSubscribers(e) \subseteq Channels
  BY DEF collectSubscribers

LEMMA FinalizeRunKeeps ==
    ASSUME AlertsInv, NEW id \in AlertRuns, NEW status \in {"failed", "success"}, FinalizeRun(id, status)
    PROVE  records' \in Seq(RunRecords) /\ reporting' \subseteq AlertRuns' /\ LastRuns' /\ Decided'
<1>1. records[id] \in RunRecords /\ hours \in Nat /\ reporting \subseteq AlertRuns
  BY RecordsTyped DEF AlertsInv, AlertsTypeOK
<1>2. /\ reporting' = IF status = "failed" THEN reporting \cup {id} ELSE reporting
      /\ told' = told /\ missed' = missed /\ records[id].by = Absent
  BY DEF FinalizeRun
<1>3. reporting \subseteq reporting' /\ reporting' \subseteq AlertRuns
  BY <1>1, <1>2
<1>4. CASE records[id].status = "running" /\ Closed(id, status, "run")
  <2> DEFINE new == [records[id] EXCEPT !.status = status, !.by = "run", !.at = hours]
  <2>1. new \in RunRecords /\ new.status = status /\ new.by = "run"
    BY <1>1 DEF RunRecords
  <2>2. records' = [records EXCEPT ![id] = new]
    BY <1>4 DEF Closed
  <2> HIDE DEF new
  <2> QED BY <1>2, <1>3, <1>4, <2>1, <2>2, ChangeKeeps
<1>5. CASE records[id].status \in {"deleted", "running"} /\ records' = [records EXCEPT ![id].by = "run"]
  <2> DEFINE new == [records[id] EXCEPT !.by = "run"]
  <2>1. new \in RunRecords /\ new.status = records[id].status
    BY <1>1 DEF RunRecords
  <2>2. records' = [records EXCEPT ![id] = new]
    BY <1>5
  <2> HIDE DEF new
  <2> QED BY <1>2, <1>3, <1>5, <2>1, <2>2, ChangeKeeps
<1> QED BY <1>4, <1>5 DEF FinalizeRun

LEMMA AgentClosesKeeps ==
    ASSUME AlertsInv, NEW id \in AlertRuns, NEW status \in {"failed", "success"}, AgentCloses(id, status)
    PROVE  records' \in Seq(RunRecords) /\ reporting' \subseteq AlertRuns' /\ LastRuns' /\ Decided'
<1>1. records[id] \in RunRecords /\ hours \in Nat /\ reporting \subseteq AlertRuns
  BY RecordsTyped DEF AlertsInv, AlertsTypeOK
<1> DEFINE new == [records[id] EXCEPT !.status = status, !.by = "agent", !.at = hours]
<1>2. new \in RunRecords /\ new.status = status /\ new.by = "agent"
  BY <1>1 DEF RunRecords
<1>3. records' = [records EXCEPT ![id] = new] /\ records[id].status = "running"
  BY DEF Closed, AgentCloses
<1> HIDE DEF new
<1>4. reporting' = reporting /\ told' = told /\ missed' = missed
  BY DEF AgentCloses
<1> QED BY <1>1, <1>2, <1>3, <1>4, ChangeKeeps

LEMMA RemoveRecordKeeps ==
    ASSUME AlertsInv, NEW id \in AlertRuns, RemoveRecord(id)
    PROVE  records' \in Seq(RunRecords) /\ reporting' \subseteq AlertRuns' /\ LastRuns' /\ Decided'
<1>1. records[id] \in RunRecords /\ reporting \subseteq AlertRuns
  BY RecordsTyped DEF AlertsInv, AlertsTypeOK
<1> DEFINE new == [records[id] EXCEPT !.status = "deleted"]
<1>2. new \in RunRecords /\ new.status = "deleted"
  BY <1>1 DEF RunRecords
<1>3. records' = [records EXCEPT ![id] = new]
  BY DEF RemoveRecord
<1> HIDE DEF new
<1>4. reporting' = reporting /\ told' = told /\ missed' = missed
  BY DEF RemoveRecord
<1> QED BY <1>1, <1>2, <1>3, <1>4, ChangeKeeps

(* When the last Threshold records are there and none of them succeeded,    *)
(* they are what shouldNotify looks at.                                     *)
LEMMA FailuresAreSeen ==
    ASSUME AlertsInv, Len(records) >= Threshold, Len(records) > 0,
           records[Len(records)].status = "failed",
           \A id \in Len(records) - Threshold + 1 .. Len(records) : records[id].status \notin {"success", "deleted"}
    PROVE  shouldNotify
<1> DEFINE last == Len(records)
<1> DEFINE Latest == last - Threshold + 1 .. last
<1>0. last \in Nat \ {0} /\ Threshold \in Nat /\ AlertRuns = 1 .. last
  BY DEF AlertsInv, AlertsTypeOK, AlertRuns
<1>1. \A id \in Latest : records[id].status = "failed" /\ id \in Present
  <2> SUFFICES ASSUME NEW id \in Latest PROVE records[id].status = "failed" /\ id \in Present
    OBVIOUS
  <2>1. id \in AlertRuns
    BY <1>0
  <2>2. records[id] \in RunRecords
    BY <2>1, RecordsTyped DEF AlertsInv
  <2>3. records[id].status # "running"
    BY <2>1, <1>0 DEF AlertsInv, LastRuns
  <2>4. records[id].status = "failed"
    BY <2>2, <2>3 DEF RunRecords
  <2> QED BY <2>1, <2>4 DEF Present
<1> SUFFICES ASSUME NEW id \in Newest(Threshold) PROVE id \in Latest
  BY <1>1 DEF shouldNotify
<1> HIDE DEF Latest
<1>2. /\ id \in Present /\ id \in 1 .. last
      /\ Cardinality({j \in Present : j >= id}) <= Threshold
  BY <1>0 DEF Newest, Present
<1> SUFFICES ASSUME id <= last - Threshold PROVE FALSE
  BY <1>2, <1>0 DEF Latest
<1> DEFINE Later == {j \in Present : j >= id}
<1>3. IsFiniteSet(Later)
  <2>1. IsFiniteSet(1 .. last)
    BY <1>0, FS_Interval
  <2>2. Later \subseteq 1 .. last
    BY <1>0 DEF Present
  <2> QED BY <2>1, <2>2, FS_Subset
<1>5. IsFiniteSet(Latest) /\ Cardinality(Latest) = Threshold
  BY <1>0, FS_Interval DEF Latest
<1>6. id \notin Latest /\ Latest \cup {id} \subseteq Later
  BY <1>0, <1>1, <1>2 DEF Latest
<1>7. IsFiniteSet(Latest \cup {id}) /\ Cardinality(Latest \cup {id}) = Threshold + 1
  BY <1>5, <1>6, FS_AddElement
<1>8. Cardinality(Later) >= Threshold + 1 /\ Cardinality(Later) \in Nat
  BY <1>3, <1>6, <1>7, FS_Subset, FS_CardinalityType
<1> QED BY <1>0, <1>2, <1>8

LEMMA TellFailureKeeps ==
    ASSUME AlertsInv, NEW id \in AlertRuns, TellFailure(id)
    PROVE  /\ records' \in Seq(RunRecords) /\ reporting' \subseteq AlertRuns'
           /\ told' \subseteq Channels \X Nat /\ missed' \subseteq Nat
           /\ LastRuns' /\ Decided'
<1>1. records' = records /\ reporting' = reporting \ {id}
  BY DEF TellFailure
<1>2. AlertRuns' = AlertRuns
  BY <1>1 DEF AlertRuns
<1>3. records' \in Seq(RunRecords) /\ reporting' \subseteq AlertRuns'
  BY <1>1, <1>2 DEF AlertsInv, AlertsTypeOK
<1>4. id \in Nat
  BY DEF AlertsInv, AlertsTypeOK, AlertRuns
<1>5. told' \subseteq Channels \X Nat /\ missed' \subseteq Nat
  BY <1>4, Collected DEF TellFailure, AlertsInv, AlertsTypeOK
<1>6. LastRuns'
  BY <1>1, <1>2 DEF AlertsInv, LastRuns
<1>7. Decided'
  <2> DEFINE last == Len(records)
  <2> SUFFICES ASSUME last > 0, last >= Threshold, records[last].by = "run",
                      last \notin reporting', last \notin missed', records[last].status = "failed",
                      \A i \in last - Threshold + 1 .. last : records[i].status \notin {"success", "deleted"}
               PROVE  \A c \in collectSubscribers("backup_failed") : <<c, last>> \in told'
    BY <1>1 DEF Decided
  <2>1. told \subseteq told' /\ missed \subseteq missed'
    BY DEF TellFailure
  <2>2. CASE id # last
    <3>1. last \notin reporting /\ last \notin missed
      BY <1>1, <2>1, <2>2
    <3>2. \A c \in collectSubscribers("backup_failed") : <<c, last>> \in told
      BY <3>1 DEF AlertsInv, Decided
    <3> QED BY <3>2, <2>1
  <2>3. CASE id = last
    <3>1. shouldNotify
      BY FailuresAreSeen
    <3> QED BY <2>3, <3>1 DEF TellFailure
  <2> QED BY <2>2, <2>3
<1> QED BY <1>3, <1>5, <1>6, <1>7

LEMMA RestartRecords ==
    ASSUME AlertsInv, MasterRestarts
    PROVE  records' \in Seq(RunRecords) /\ reporting' \subseteq AlertRuns' /\ LastRuns' /\ Decided'
<1>1. PICK lost \in SUBSET AlertRuns :
         records' = [id \in AlertRuns |->
              IF id \in lost /\ records[id].status = "running"
              THEN [records[id] EXCEPT !.status = "failed", !.by = "start", !.at = hours]
              ELSE IF id \in reporting \/ (records[id].by = Absent /\ ~records[id].remote)
              THEN [records[id] EXCEPT !.by = "start"] ELSE records[id]]
  BY DEF MasterRestarts
<1> DEFINE Marked(id) ==
             /\ records'[id] \in RunRecords
             /\ \/ records'[id].status = records[id].status
                \/ records'[id].status = "failed" /\ records[id].status = "running"
             /\ \/ records'[id].by = "start"
                \/ records'[id] = records[id] /\ id \notin reporting
<1>2. \A id \in AlertRuns : Marked(id)
  <2> SUFFICES ASSUME NEW id \in AlertRuns
               PROVE  Marked(id)
    OBVIOUS
  <2>1. records[id] \in RunRecords /\ hours \in Nat
    BY RecordsTyped DEF AlertsInv, AlertsTypeOK
  <2>2. CASE id \in lost /\ records[id].status = "running"
    <3>1. records'[id] = [records[id] EXCEPT !.status = "failed", !.by = "start", !.at = hours]
      BY <1>1, <2>2
    <3> QED BY <2>1, <2>2, <3>1 DEF RunRecords
  <2>3. CASE /\ ~(id \in lost /\ records[id].status = "running")
             /\ id \in reporting \/ (records[id].by = Absent /\ ~records[id].remote)
    <3>1. records'[id] = [records[id] EXCEPT !.by = "start"]
      BY <1>1, <2>3
    <3> QED BY <2>1, <3>1 DEF RunRecords
  <2>4. CASE /\ ~(id \in lost /\ records[id].status = "running")
             /\ ~(id \in reporting \/ (records[id].by = Absent /\ ~records[id].remote))
    <3>1. records'[id] = records[id]
      BY <1>1, <2>4
    <3> QED BY <2>1, <2>4, <3>1
  <2> QED BY <2>2, <2>3, <2>4
<1>3. AlertRuns = 1 .. Len(records) /\ Len(records) \in Nat
  BY DEF AlertsInv, AlertsTypeOK, AlertRuns
<1>4. records' \in Seq(RunRecords) /\ Len(records') = Len(records) /\ AlertRuns' = AlertRuns
  <2>1. records' \in [1 .. Len(records) -> RunRecords]
    BY <1>1, <1>2, <1>3
  <2> QED BY <2>1, <1>3 DEF AlertRuns
<1>5. reporting' = {} /\ told' = told /\ missed' = missed
  BY DEF MasterRestarts
<1>6. LastRuns'
  BY <1>2, <1>4 DEF AlertsInv, LastRuns
<1>7. Decided'
  <2> DEFINE last == Len(records)
  <2> SUFFICES ASSUME last > 0, last >= Threshold, records'[last].by = "run", last \notin missed,
                      records'[last].status = "failed"
               PROVE  \/ \A c \in collectSubscribers("backup_failed") : <<c, last>> \in told
                      \/ \E i \in last - Threshold + 1 .. last : records'[i].status \in {"success", "deleted"}
    BY <1>4, <1>5 DEF Decided
  <2>1. last \in AlertRuns
    BY <1>3
  <2>2. records'[last] = records[last] /\ last \notin reporting
    BY <1>2, <2>1
  <2>3. \/ \A c \in collectSubscribers("backup_failed") : <<c, last>> \in told
        \/ \E i \in last - Threshold + 1 .. last : records[i].status \in {"success", "deleted"}
    BY <2>2 DEF AlertsInv, Decided
  <2>4. ASSUME NEW i \in last - Threshold + 1 .. last, records[i].status \in {"success", "deleted"}
        PROVE  records'[i].status \in {"success", "deleted"}
    <3>1. i \in AlertRuns
      BY <1>3
    <3> QED BY <2>4, <3>1, <1>2
  <2> QED BY <2>3, <2>4
<1> QED BY <1>4, <1>5, <1>6, <1>7

(* The monitors: one that does not announce anything in a step, and either  *)
(* looks or keeps what it has seen.                                         *)
LEMMA SparedStays ==
    ASSUME AlertsInv, NEW m \in Monitors, hours' \in Nat, hours <= hours',
           remembered'[m] = remembered[m],
           announced'[m] \in {announced[m], <<>>},
           \/ seen'[m] \in {Absent, "bad", seen[m]}
           \/ seen'[m] = "gone" /\ m = "capacity"
           \/ announced'[m] = <<>>
    PROVE  Spared(m)'
<1>1. /\ remembered[m] \in Nat \cup {Absent} /\ announced[m] \in Seq(Nat) /\ hours \in Nat
      /\ seen[m] \in {"good", "bad", "gone", Absent}
      /\ Spared(m)
  BY DEF AlertsInv, AlertsTypeOK
<1>2. CASE announced'[m] = <<>>
  BY <1>1, <1>2 DEF Spared
<1>3. CASE announced'[m] = announced[m]
  <2>1. \A i \in DOMAIN announced[m] : announced[m][i] \in Nat
    BY <1>1
  <2>2. \A i \in DOMAIN announced'[m] : announced'[m][i] <= hours'
    BY <1>1, <1>3, <2>1 DEF Spared
  <2>3. remembered'[m] # Absent => remembered'[m] <= hours'
    BY <1>1 DEF Spared
  <2>4. seen'[m] = "good" \/ (seen'[m] = "gone" /\ m # "capacity") => announced'[m] = <<>>
    BY <1>1, <1>3 DEF Spared
  <2> QED BY <1>1, <1>3, <2>2, <2>3, <2>4 DEF Spared
<1> QED BY <1>2, <1>3

(* A scan that found the condition over forgets it.                         *)
LEMMA SparedEnds ==
    ASSUME NEW m \in Monitors, announced'[m] = <<>>, remembered'[m] = Absent
    PROVE  Spared(m)'
  BY DEF Spared

(* An announcement that is due.                                             *)
LEMMA SparedGrows ==
    ASSUME AlertsInv, NEW m \in Monitors, Due(m), hours' = hours, seen'[m] = Absent,
           remembered'[m] = hours, announced'[m] = Append(announced[m], hours)
    PROVE  Spared(m)'
<1>1. /\ remembered[m] \in Nat \cup {Absent} /\ announced[m] \in Seq(Nat) /\ hours \in Nat
      /\ Spared(m)
  BY DEF AlertsInv, AlertsTypeOK
<1> DEFINE n == Len(announced[m])
<1>2. /\ n \in Nat /\ DOMAIN announced[m] = 1 .. n /\ DOMAIN announced'[m] = 1 .. n + 1
      /\ announced'[m][n + 1] = hours
      /\ \A i \in 1 .. n : announced'[m][i] = announced[m][i] /\ announced[m][i] \in Nat
  BY <1>1
<1> HIDE DEF n
<1>3. \A i \in 1 .. n : announced[m][i] <= hours /\ hours - announced[m][i] >= Reset
  <2> SUFFICES ASSUME NEW i \in 1 .. n
               PROVE  announced[m][i] <= hours /\ hours - announced[m][i] >= Reset
    OBVIOUS
  <2>1. /\ announced[m][i] <= hours
        /\ remembered[m] \in Nat /\ announced[m][i] <= remembered[m]
    BY <1>1, <1>2 DEF Spared
  <2>2. hours - remembered[m] >= Reset
    BY <2>1 DEF Due
  <2> QED BY <1>1, <1>2, <2>1, <2>2
<1>4. \A i \in DOMAIN announced'[m] : announced'[m][i] <= hours
  BY <1>1, <1>2, <1>3
<1>5. \A i, j \in DOMAIN announced'[m] : i < j => announced'[m][j] - announced'[m][i] >= Reset
  <2> SUFFICES ASSUME NEW i \in 1 .. n + 1, NEW j \in 1 .. n + 1, i < j
               PROVE  announced'[m][j] - announced'[m][i] >= Reset
    BY <1>2
  <2>1. CASE j = n + 1
    BY <1>2, <1>3, <2>1
  <2>2. CASE j # n + 1
    <3>1. i \in 1 .. n /\ j \in 1 .. n
      BY <1>2, <2>2
    <3>2. announced[m][j] - announced[m][i] >= Reset
      BY <1>1, <1>2, <3>1 DEF Spared
    <3> QED BY <1>2, <3>1, <3>2
  <2> QED BY <2>1, <2>2
<1> QED BY <1>1, <1>4, <1>5 DEF Spared

(* Steps that announce nothing.                                             *)
LEMMA QuietKeeps ==
    ASSUME AlertsInv, Announcing({}), remembered' = remembered, hours' \in Nat, hours <= hours',
           \A m \in Monitors : \/ seen'[m] \in {Absent, "bad", seen[m]}
                               \/ seen'[m] = "gone" /\ m = "capacity"
                               \/ ~Lasts(m)'
    PROVE  /\ announced' \in [Monitors -> Seq(Nat)]
           /\ \A m \in Monitors : Spared(m)'
           /\ Len(announced'["capacity"]) <= 1
<1>1. /\ announced' \in [Monitors -> Seq(Nat)]
      /\ \A m \in Monitors : announced'[m] \in {announced[m], <<>>}
      /\ \A m \in Monitors : ~Lasts(m)' => announced'[m] = <<>>
  BY Announced DEF AlertsInv
<1>2. \A m \in Monitors : Spared(m)'
  BY <1>1, SparedStays
<1>3. Len(announced'["capacity"]) <= 1
  BY <1>1 DEF AlertsInv, Monitors
<1> QED BY <1>1, <1>2, <1>3

LEMMA LookKeeps ==
    ASSUME AlertsInv, NEW m \in Monitors, Look(m)
    PROVE  /\ seen' \in [Monitors -> {"good", "bad", "gone", Absent}]
           /\ announced' \in [Monitors -> Seq(Nat)]
           /\ \A n \in Monitors : Spared(n)'
           /\ Len(announced'["capacity"]) <= 1
<1>1. Reading(m) \in {"good", "bad", "gone"}
  BY DEF Reading, Compliance, AlertsInv, AlertsTypeOK
<1>2. seen' = [seen EXCEPT ![m] = Reading(m)] /\ seen \in [Monitors -> {"good", "bad", "gone", Absent}]
  BY DEF Look, AlertsInv, AlertsTypeOK
<1>3. Reading(m)' = Reading(m)
  BY DEF Look, Reading, Compliance, Successes, AlertRuns
<1>4. \A n \in Monitors : \/ seen'[n] \in {Absent, "bad", seen[n]}
                          \/ seen'[n] = "gone" /\ n = "capacity"
                          \/ ~Lasts(n)'
  BY <1>1, <1>2, <1>3 DEF Lasts
<1>5. Announcing({}) /\ remembered' = remembered /\ hours' = hours /\ hours \in Nat
  BY DEF Look, AlertsInv, AlertsTypeOK
<1>6. hours' \in Nat /\ hours <= hours'
  BY <1>5
<1> QED BY <1>1, <1>2, <1>4, <1>5, <1>6, QuietKeeps

LEMMA ActKeeps ==
    ASSUME AlertsInv, NEW m \in Monitors, Act(m)
    PROVE  /\ seen' \in [Monitors -> {"good", "bad", "gone", Absent}]
           /\ remembered' \in [Monitors -> Nat \cup {Absent}]
           /\ announced' \in [Monitors -> Seq(Nat)]
           /\ \A n \in Monitors : Spared(n)'
           /\ Len(announced'["capacity"]) <= 1
<1>1. /\ seen' = [seen EXCEPT ![m] = Absent] /\ hours' = hours /\ hours \in Nat
      /\ seen \in [Monitors -> {"good", "bad", "gone", Absent}]
      /\ remembered \in [Monitors -> Nat \cup {Absent}]
      /\ Spared(m)
  BY DEF Act, AlertsInv, AlertsTypeOK
<1>2. \/ /\ seen[m] = "bad" /\ Due(m) /\ Remember(m, hours) /\ Announcing({m})
         /\ m = "capacity" => remembered[m] = Absent
      \/ remembered' = remembered /\ Announcing({})
      \/ /\ seen[m] = "good" \/ (seen[m] = "gone" /\ m # "capacity")
         /\ Remember(m, Absent) /\ Announcing({})
  <2>1. CASE m = "sla" /\ scanAndDispatchSLA
    BY <2>1, <1>1 DEF scanAndDispatchSLA, Judge, Act
  <2>2. CASE m = "version" /\ scanVersions
    BY <2>2, <1>1 DEF scanVersions, Judge, Act
  <2>3. CASE m = "capacity" /\ checkCapacity
    BY <2>3, <1>1 DEF checkCapacity, Due
  <2> QED BY <2>1, <2>2, <2>3 DEF Act
<1>3. CASE remembered' = remembered /\ Announcing({})
  <2>1. \A n \in Monitors : seen'[n] \in {Absent, "bad", seen[n]}
    BY <1>1
  <2>2. hours' \in Nat /\ hours <= hours'
    BY <1>1
  <2> QED BY <1>1, <1>3, <2>1, <2>2, QuietKeeps
<1>4. CASE /\ seen[m] = "bad" /\ Due(m) /\ Remember(m, hours) /\ Announcing({m})
           /\ m = "capacity" => remembered[m] = Absent
  <2>1. /\ announced' \in [Monitors -> Seq(Nat)]
        /\ announced'[m] = Append(announced[m], hours)
        /\ \A n \in Monitors \ {m} : announced'[n] \in {announced[n], <<>>}
    BY <1>4, Announced DEF AlertsInv
  <2>2. /\ remembered' \in [Monitors -> Nat \cup {Absent}] /\ remembered'[m] = hours
        /\ \A n \in Monitors \ {m} : remembered'[n] = remembered[n]
    BY <1>1, <1>4 DEF Remember
  <2>3. Spared(m)'
    BY <1>1, <1>4, <2>1, <2>2, SparedGrows
  <2>4. ASSUME NEW n \in Monitors \ {m} PROVE Spared(n)'
    BY <1>1, <2>1, <2>2, SparedStays
  <2>5. Len(announced'["capacity"]) <= 1
    <3>1. "capacity" \in Monitors /\ announced["capacity"] \in Seq(Nat)
      BY DEF Monitors, AlertsInv, AlertsTypeOK
    <3>2. CASE m = "capacity"
      <4>1. announced[m] = <<>>
        BY <1>1, <1>4, <3>1, <3>2 DEF Spared
      <4> QED BY <3>2, <4>1, <2>1, <1>1
    <3>3. CASE m # "capacity"
      BY <3>1, <3>3, <2>1 DEF AlertsInv
    <3> QED BY <3>2, <3>3
  <2> QED BY <1>1, <2>1, <2>2, <2>3, <2>4, <2>5
<1>5. CASE /\ seen[m] = "good" \/ (seen[m] = "gone" /\ m # "capacity")
           /\ Remember(m, Absent) /\ Announcing({})
  <2>1. /\ announced' \in [Monitors -> Seq(Nat)]
        /\ \A n \in Monitors : announced'[n] \in {announced[n], <<>>}
    BY <1>5, Announced DEF AlertsInv
  <2>2. /\ remembered' \in [Monitors -> Nat \cup {Absent}] /\ remembered'[m] = Absent
        /\ \A n \in Monitors \ {m} : remembered'[n] = remembered[n]
    BY <1>1, <1>5 DEF Remember
  <2>3. announced'[m] = <<>>
    BY <1>1, <1>5, <2>1 DEF Spared
  <2>4. Spared(m)'
    BY <2>2, <2>3, SparedEnds
  <2>5. ASSUME NEW n \in Monitors \ {m} PROVE Spared(n)'
    BY <1>1, <2>1, <2>2, SparedStays
  <2>6. Len(announced'["capacity"]) <= 1
    BY <2>1 DEF AlertsInv, Monitors
  <2> QED BY <1>1, <2>1, <2>2, <2>4, <2>5, <2>6
<1> QED BY <1>2, <1>3, <1>4, <1>5

(* The steps of the runs leave the monitors alone.                          *)
LEMMA RunOnlyKeeps ==
    ASSUME AlertsInv, RunOnly
    PROVE  /\ watched' = watched /\ seen' = seen /\ remembered' = remembered /\ hours' = hours
           /\ announced' \in [Monitors -> Seq(Nat)]
           /\ \A m \in Monitors : Spared(m)'
           /\ Len(announced'["capacity"]) <= 1
<1>1. /\ Announcing({}) /\ watched' = watched /\ seen' = seen /\ remembered' = remembered
      /\ hours' = hours /\ hours \in Nat
  BY DEF RunOnly, AlertsInv, AlertsTypeOK
<1>2. hours' \in Nat /\ hours <= hours'
  BY <1>1
<1> QED BY <1>1, <1>2, QuietKeeps

LEMMA RecordsKept ==
    ASSUME AlertsInv, UNCHANGED <<records, reporting, told, missed>>
    PROVE  /\ records' \in Seq(RunRecords) /\ reporting' \subseteq AlertRuns'
           /\ told' \subseteq Channels \X Nat /\ missed' \subseteq Nat
           /\ LastRuns' /\ Decided'
  BY DEF AlertsInv, AlertsTypeOK, LastRuns, Decided, AlertRuns

LEMMA AlertsKeep == AlertsInv /\ [AlertsNext]_alertVars => AlertsInv'
<1> SUFFICES ASSUME AlertsInv, [AlertsNext]_alertVars PROVE AlertsInv'
  OBVIOUS
<1> DEFINE RunsKept == /\ records' \in Seq(RunRecords) /\ reporting' \subseteq AlertRuns'
                    /\ told' \subseteq Channels \X Nat /\ missed' \subseteq Nat
                    /\ LastRuns' /\ Decided'
<1> DEFINE MonitorsKept == /\ watched' \in [Monitors -> {"good", "bad", "gone"}]
                        /\ seen' \in [Monitors -> {"good", "bad", "gone", Absent}]
                        /\ remembered' \in [Monitors -> Nat \cup {Absent}]
                        /\ announced' \in [Monitors -> Seq(Nat)]
                        /\ hours' \in Nat
                        /\ \A m \in Monitors : Spared(m)'
                        /\ Len(announced'["capacity"]) <= 1
<1>0. SUFFICES RunsKept /\ MonitorsKept
  BY DEF AlertsInv, AlertsTypeOK
<1>1. /\ told \subseteq Channels \X Nat /\ missed \subseteq Nat /\ hours \in Nat
      /\ watched \in [Monitors -> {"good", "bad", "gone"}]
      /\ seen \in [Monitors -> {"good", "bad", "gone", Absent}]
      /\ remembered \in [Monitors -> Nat \cup {Absent}]
      /\ announced \in [Monitors -> Seq(Nat)]
  BY DEF AlertsInv, AlertsTypeOK
<1>2. ASSUME RunOnly PROVE MonitorsKept
  BY <1>1, <1>2, RunOnlyKeeps
<1>3. CASE BeginRun
  BY <1>1, <1>2, <1>3, BeginRunKeeps DEF BeginRun
<1>4. ASSUME NEW id \in AlertRuns, NEW status \in {"failed", "success"}, FinalizeRun(id, status)
      PROVE  RunsKept /\ MonitorsKept
  <2>1. RunOnly /\ told' = told /\ missed' = missed
    BY <1>4 DEF FinalizeRun
  <2> QED BY <1>1, <1>2, <1>4, <2>1, FinalizeRunKeeps
<1>5. ASSUME NEW id \in AlertRuns, NEW status \in {"failed", "success"}, AgentCloses(id, status)
      PROVE  RunsKept /\ MonitorsKept
  <2>1. RunOnly /\ told' = told /\ missed' = missed
    BY <1>5 DEF AgentCloses
  <2> QED BY <1>1, <1>2, <1>5, <2>1, AgentClosesKeeps
<1>6. ASSUME NEW id \in AlertRuns, TellFailure(id) PROVE RunsKept /\ MonitorsKept
  <2>1. RunOnly
    BY <1>6 DEF TellFailure
  <2> QED BY <1>2, <1>6, <2>1, TellFailureKeeps
<1>7. ASSUME NEW id \in AlertRuns, RemoveRecord(id) PROVE RunsKept /\ MonitorsKept
  <2>1. RunOnly /\ told' = told /\ missed' = missed
    BY <1>7 DEF RemoveRecord
  <2> QED BY <1>1, <1>2, <1>7, <2>1, RemoveRecordKeeps
<1>8. ASSUME NEW m \in Monitors, Look(m) PROVE RunsKept /\ MonitorsKept
  <2>1. /\ UNCHANGED <<records, reporting, told, missed>>
        /\ watched' = watched /\ remembered' = remembered /\ hours' = hours
    BY <1>8 DEF Look
  <2>2. RunsKept
    BY <2>1, RecordsKept
  <2> QED BY <1>1, <1>8, <2>1, <2>2, LookKeeps
<1>9. ASSUME NEW m \in Monitors, Act(m) PROVE RunsKept /\ MonitorsKept
  <2>1. /\ UNCHANGED <<records, reporting, told, missed>>
        /\ watched' = watched /\ hours' = hours
    BY <1>9 DEF Act
  <2>2. RunsKept
    BY <2>1, RecordsKept
  <2> QED BY <1>1, <1>9, <2>1, <2>2, ActKeeps
<1>10. ASSUME NEW m \in Monitors, NEW value \in {"good", "bad", "gone"}, Switch(m, value)
       PROVE  RunsKept /\ MonitorsKept
  <2>1. /\ UNCHANGED <<records, reporting, told, missed>>
        /\ seen' = seen /\ remembered' = remembered /\ hours' = hours
        /\ watched' = [watched EXCEPT ![m] = value] /\ Announcing({})
    BY <1>10 DEF Switch
  <2>2. RunsKept
    BY <2>1, RecordsKept
  <2>3. hours' \in Nat /\ hours <= hours' /\ \A n \in Monitors : seen'[n] \in {Absent, "bad", seen[n]}
    BY <1>1, <2>1
  <2>4. watched' \in [Monitors -> {"good", "bad", "gone"}]
    BY <1>1, <2>1
  <2> QED BY <1>1, <2>1, <2>2, <2>3, <2>4, QuietKeeps
<1>11. CASE HourPasses
  <2>1. /\ UNCHANGED <<records, reporting, told, missed>>
        /\ seen' = seen /\ remembered' = remembered /\ hours' = hours + 1
        /\ watched' = watched /\ Announcing({})
    BY <1>11 DEF HourPasses
  <2>2. RunsKept
    BY <2>1, RecordsKept
  <2>3. hours' \in Nat /\ hours <= hours' /\ \A n \in Monitors : seen'[n] \in {Absent, "bad", seen[n]}
    BY <1>1, <2>1
  <2> QED BY <1>1, <2>1, <2>2, <2>3, QuietKeeps
<1>12. CASE MasterRestarts
  <2>1. RunsKept
    BY <1>1, <1>12, RestartRecords DEF MasterRestarts
  <2>2. /\ watched' = watched /\ hours' = hours
        /\ seen' = [m \in Monitors |-> Absent] /\ remembered' = [m \in Monitors |-> Absent]
        /\ announced' = [m \in Monitors |-> <<>>]
    BY <1>12 DEF MasterRestarts
  <2>3. \A m \in Monitors : Spared(m)'
    BY <2>2, SparedEnds
  <2> QED BY <1>1, <2>1, <2>2, <2>3 DEF Monitors
<1>13. CASE UNCHANGED alertVars
  <2>1. RunsKept
    BY <1>13, RecordsKept DEF alertVars
  <2>2. \A m \in Monitors : Spared(m)'
    BY <1>13 DEF AlertsInv, Spared, alertVars
  <2> QED BY <1>1, <1>13, <2>1, <2>2 DEF AlertsInv, alertVars
<1> HIDE DEF RunsKept, MonitorsKept
<1> QED BY <1>3, <1>4, <1>5, <1>6, <1>7, <1>8, <1>9, <1>10, <1>11, <1>12, <1>13 DEF AlertsNext

(* NotifyBackupResult and the monitors: the last of Threshold failures in a *)
(* row has been told when the run has decided, and no condition that lasts  *)
(* is announced again too early, whatever runs, edits, deletions, database  *)
(* errors and restarts come between reading and deciding.                   *)
THEOREM AlertsAreDueHolds == AlertsSpec => []AlertsAreDue
<1>1. AlertsInv /\ [AlertsNext]_alertVars => AlertsInv'
  BY AlertsKeep
<1>2. AlertsInv => AlertsAreDue
  <2> SUFFICES ASSUME AlertsInv PROVE AlertsAreDue
    OBVIOUS
  <2>1. FailuresTold
    <3> DEFINE last == Len(records)
    <3>1. last \in Nat /\ AlertRuns = 1 .. last
      BY DEF AlertsInv, AlertsTypeOK, AlertRuns
    <3> SUFFICES ASSUME reporting = {}, last >= Threshold, last > 0, records[last].by = "run",
                        records[last].status = "failed", last \notin missed,
                        \A id \in last - Threshold + 1 .. last : id \in AlertRuns => records[id].status = "failed"
                 PROVE  \A c \in collectSubscribers("backup_failed") : <<c, last>> \in told
      BY DEF FailuresTold
    <3>2. \A id \in last - Threshold + 1 .. last : records[id].status = "failed"
      BY <3>1
    <3> QED BY <3>1, <3>2 DEF AlertsInv, Decided
  <2>2. Sparing
    BY DEF AlertsInv, Sparing, Spared
  <2> QED BY <2>1, <2>2 DEF AlertsAreDue
<1> QED BY AlertsStart, <1>1, <1>2, PTL DEF AlertsSpec

=============================================================================
