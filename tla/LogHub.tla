--------------------------------- MODULE LogHub ---------------------------------
(***************************************************************************)
(* The log hub of the Master: runs append log events to a stream each,     *)
(* viewers (the handlers of server-sent events) copy the stream so far     *)
(* into a channel and then follow it.  One mutex guards all streams of the *)
(* hub.  Append and Complete send to a viewer's channel without waiting;   *)
(* Subscribe sends the events so far while it holds the mutex, and waits   *)
(* when the channel is full.                                               *)
(*                                                                         *)
(* An event is its sequence number in the stream.                          *)
(***************************************************************************)
EXTENDS Naturals, Sequences

CONSTANTS
  Runs,      \* ids of the records whose runs write to the hub
  Viewers,   \* handlers of log requests
  Buffer,    \* capacity of a viewer's channel, 64 in the handlers
  MaxLines,  \* bound: lines of one run, progress reports included
  None       \* nobody

ASSUME LogHubAssumption ==
  /\ Buffer \in Nat \ {0}
  /\ MaxLines \in Nat
  /\ None \notin Viewers /\ None \notin Runs

VARIABLES
  run,     \* where the run of each record stands
  events,  \* events in each stream
  done,    \* the completion event of each stream, 0 if there is none yet
  mutex,   \* the viewer in whose Subscribe the mutex is held
  viewer,  \* progress of each handler
  chan     \* the channel of each handler

vars == <<run, events, done, mutex, viewer, chan>>

Event == 1 .. MaxLines + 1

(* past counts the events of the snapshot, sent those that were replayed;  *)
(* client is what was written to the connection.                           *)
View == [pc : {"idle", "snapshot", "subscribe", "replay", "show", "follow", "leave"},
         run : Runs \cup {None}, closed : BOOLEAN, past : 0 .. MaxLines + 1,
         sent : 0 .. MaxLines + 1, client : Seq(Event)]
Away == [pc |-> "idle", run |-> None, closed |-> FALSE, past |-> 0, sent |-> 0, client |-> <<>>]

Upto(n) == [i \in 1 .. n |-> i]

TypeOK ==
  /\ run \in [Runs -> {"running", "stored", "over"}]
  /\ events \in [Runs -> 0 .. MaxLines + 1]
  /\ done \in [Runs -> 0 .. MaxLines + 1]
  /\ mutex \in Viewers \cup {None}
  /\ viewer \in [Viewers -> View]
  /\ chan \in [Viewers -> Seq(Event)]
  /\ \A v \in Viewers : Len(chan[v]) <= Buffer

Init ==
  /\ run = [r \in Runs |-> "running"]
  /\ events = [r \in Runs |-> 0]
  /\ done = [r \in Runs |-> 0]
  /\ mutex = None
  /\ viewer = [v \in Viewers |-> Away]
  /\ chan = [v \in Viewers |-> <<>>]

-----------------------------------------------------------------------------
(* The run.  Complete is called once, by the deferred function that ends   *)
(* executeTask.                                                            *)

Subscribers(r) == {v \in Viewers : viewer[v].run = r /\ viewer[v].pc \in {"replay", "show", "follow", "leave"}}

(* The next event of a stream, for every subscriber that has room for it.  *)
Publish(r) ==
  /\ events' = [events EXCEPT ![r] = @ + 1]
  /\ chan' = [v \in Viewers |->
                IF v \in Subscribers(r) /\ Len(chan[v]) < Buffer
                  THEN Append(chan[v], events[r] + 1) ELSE chan[v]]

(* A line or a progress report.  The goroutine that starts the dependents  *)
(* may write lines after the completion.                                   *)
WriteLine(r) ==
  /\ mutex = None
  /\ events[r] < MaxLines + (IF done[r] = 0 THEN 0 ELSE 1)
  /\ Publish(r)
  /\ UNCHANGED <<run, done, mutex, viewer>>

(* finalizeRecord: the record is no longer running, if it can be saved.    *)
Finalize(r) ==
  /\ run[r] = "running"
  /\ run' = [run EXCEPT ![r] = "stored"]
  /\ UNCHANGED <<events, done, mutex, viewer, chan>>

Complete(r) ==
  /\ run[r] = "stored"
  /\ mutex = None
  /\ run' = [run EXCEPT ![r] = "over"]
  /\ done' = [done EXCEPT ![r] = events[r] + 1]
  /\ Publish(r)
  /\ UNCHANGED <<mutex, viewer>>

-----------------------------------------------------------------------------
(* The viewer: StreamLogs.                                                 *)

(* The record is read; a running one is shown with a snapshot of its log.  *)
(* One that could not be saved when its run ended still reads as running.  *)
ReadRecord(v) ==
  /\ viewer[v].pc = "idle"
  /\ \E r \in Runs : \E over \in {FALSE, run[r] # "running"} :
       viewer' = [viewer EXCEPT ![v] =
                    [Away EXCEPT !.run = r, !.closed = over,
                                 !.pc = IF over THEN "subscribe" ELSE "snapshot"]]
  /\ UNCHANGED <<run, events, done, mutex, chan>>

Snapshot(v) ==
  /\ viewer[v].pc = "snapshot"
  /\ mutex = None
  /\ viewer' = [viewer EXCEPT ![v].pc = "subscribe", ![v].past = events[viewer[v].run]]
  /\ UNCHANGED <<run, events, done, mutex, chan>>

(* Mutant: the channel is registered and the mutex released at once.       *)
SubscribeUnlocked(v) ==
  /\ viewer[v].pc = "subscribe"
  /\ mutex = None
  /\ viewer' = [viewer EXCEPT ![v].pc = "replay"]
  /\ UNCHANGED <<run, events, done, mutex, chan>>

Subscribe(v) ==
  /\ viewer[v].pc = "subscribe"
  /\ mutex = None
  /\ mutex' = v
  /\ viewer' = [viewer EXCEPT ![v].pc = "replay"]
  /\ UNCHANGED <<run, events, done, chan>>

(* One of the events so far; the send waits for room in the channel.       *)
Replay(v) ==
  /\ viewer[v].pc = "replay"
  /\ viewer[v].sent < events[viewer[v].run]
  /\ Len(chan[v]) < Buffer
  /\ chan' = [chan EXCEPT ![v] = Append(@, viewer[v].sent + 1)]
  /\ viewer' = [viewer EXCEPT ![v].sent = @ + 1]
  /\ UNCHANGED <<run, events, done, mutex>>

(* Mutant: the mutex is not released.                                      *)
ReturnHolding(v) ==
  /\ viewer[v].pc = "replay"
  /\ viewer[v].sent = events[viewer[v].run]
  /\ viewer' = [viewer EXCEPT ![v].pc = "show"]
  /\ UNCHANGED <<run, events, done, mutex, chan>>

(* Subscribe returns.                                                      *)
Return(v) ==
  /\ viewer[v].pc = "replay"
  /\ viewer[v].sent = events[viewer[v].run]
  /\ mutex' = None
  /\ viewer' = [viewer EXCEPT ![v].pc = "show"]
  /\ UNCHANGED <<run, events, done, chan>>

(* The snapshot is written to the client, although the channel holds the   *)
(* same events; a record that was complete is not followed.                *)
Show(v) ==
  /\ viewer[v].pc = "show"
  /\ viewer' = [viewer EXCEPT ![v].client = Upto(viewer[v].past),
                              ![v].pc = IF viewer[v].closed THEN "leave" ELSE "follow"]
  /\ UNCHANGED <<run, events, done, mutex, chan>>

(* An event is passed on to the client; the completion is the last.        *)
Receive(v) ==
  /\ viewer[v].pc = "follow"
  /\ chan[v] # <<>>
  /\ chan' = [chan EXCEPT ![v] = Tail(@)]
  /\ viewer' = [viewer EXCEPT ![v] =
                   [@ EXCEPT !.client = Append(viewer[v].client, Head(chan[v])),
                             !.pc = IF Head(chan[v]) = done[viewer[v].run] THEN "leave" ELSE "follow"]]
  /\ UNCHANGED <<run, events, done, mutex>>

(* The client goes away; a viewer that writes to it or follows notices.    *)
Disconnect(v) ==
  /\ viewer[v].pc \in {"show", "follow"}
  /\ viewer' = [viewer EXCEPT ![v].pc = "leave"]
  /\ UNCHANGED <<run, events, done, mutex, chan>>

Cancel(v) ==
  /\ viewer[v].pc = "leave"
  /\ mutex = None
  /\ viewer' = [viewer EXCEPT ![v] = Away]
  /\ chan' = [chan EXCEPT ![v] = <<>>]
  /\ UNCHANGED <<run, events, done, mutex>>

-----------------------------------------------------------------------------
RunStep(r) == WriteLine(r) \/ Finalize(r) \/ Complete(r)
ViewStep(v) == Snapshot(v) \/ Subscribe(v) \/ Replay(v) \/ Return(v) \/ Show(v) \/ Receive(v) \/ Cancel(v)

Next ==
  \/ \E r \in Runs : RunStep(r)
  \/ \E v \in Viewers : ReadRecord(v) \/ ViewStep(v) \/ Disconnect(v)

Spec == Init /\ [][Next]_vars

(* Goroutines run on, and one that waits for the mutex gets it in the end: *)
(* Go's mutex hands itself over to a waiter that starves.                  *)
Fairness ==
  /\ \A r \in Runs : WF_vars(Finalize(r)) /\ SF_vars(Complete(r))
  /\ \A v \in Viewers : SF_vars(ViewStep(v))

FairSpec == Spec /\ Fairness

-----------------------------------------------------------------------------
(* A viewer of a stream that fits into its channel misses no event and     *)
(* gets all in their order, although Subscribe copies the past while runs  *)
(* write: after the snapshot, the channel goes through the whole stream    *)
(* once, so that no event comes twice but those of the snapshot.           *)
NoGap ==
  \A v \in Viewers : LET w == viewer[v] IN
    w.pc = "follow" /\ events[w.run] <= Buffer =>
      w.client \o chan[v] = Upto(w.past) \o Upto(events[w.run])

(* No viewer holds a run up: each run completes its stream.                *)
RunEnds == \A r \in Runs : <>(run[r] = "over")

(* A viewer that follows a run learns of its end.                          *)
ViewerEnds == \A v \in Viewers : (viewer[v].pc = "follow") ~> (viewer[v].pc # "follow")
=============================================================================
