------------------------- MODULE BackgroundJobsProofs -------------------------
(* The Supervisor's promise, the exit of the Master and the truth of a      *)
(* successful row, for any jobs, backups, slots and faults.  Two arguments: *)
(* what may still report a success has done the whole chain (Truthful), and *)
(* in a behaviour without faults whoever owns a running row is still there  *)
(* or has closed it before the Master exits (Manned, Closing).              *)
EXTENDS BackgroundJobs, SequenceTheorems, TLAPS

USE JobsAssumption

(* A row that does not exist yet has nothing that works for it.             *)
Unbegun == \A j \in Jobs :
    /\ row[j] = "none" => job[j].pc = "idle" /\ command[j] = "none" /\ agent[j] = "idle"
                          /\ handler[j] = {} /\ applied[j] = <<>>
    /\ row[j] # "none" => kind[j] \in Kinds /\ source[j] \in Sources

(* Commands and Agents work for restores on other nodes only.               *)
Remote == \A j \in Jobs :
    /\ command[j] # "none" \/ agent[j] # "idle" \/ handler[j] # {} => kind[j] = "remote"
    /\ job[j].pc \in {"waiting", "resolve", "working", "ending"} => Local(j)

Whole(j) ==
    /\ applied[j] = Chain(j)
    /\ kind[j] = "copy" => source[j] \in copied

(* Whoever is about to report a success has done the whole work.            *)
Truthful == \A j \in Jobs :
    /\ job[j].pc = "ending" /\ job[j].ok => Whole(j)
    /\ agent[j] = "restored" \/ "success" \in handler[j] => Whole(j)

(* A row that runs in a behaviour without faults has its job, until the     *)
(* Master has exited.                                                       *)
Manned == faults = {} =>
    /\ ~late
    /\ \A j \in Jobs : Local(j) /\ ~Cron(j) /\ row[j] = "running" =>
         /\ Accepted(j) \/ job[j].pc = "created"
         /\ app # "down"
         /\ app = "background" => job[j].pc # "created"

(* The Supervisor only drains when it takes nothing more.                   *)
Closing == drained => stopping /\ \A j \in Jobs : ~Accepted(j)

Proper == \A j \in Jobs : row[j] = "success" => Whole(j)

Inv == JobsTypeOK /\ Unbegun /\ Remote /\ Truthful /\ Manned /\ Closing /\ Proper

LEMMA InvInit == JobsInit => Inv
<1> SUFFICES ASSUME JobsInit PROVE Inv
  OBVIOUS
<1>1. JobsTypeOK
  <2>1. [j \in Jobs |-> [pc |-> "idle", ok |-> FALSE]] \in [Jobs -> Stages]
    BY DEF Stages
  <2>2. [j \in Jobs |-> <<>>] \in [Jobs -> Seq(Sources)]
    OBVIOUS
  <2> QED BY <2>1, <2>2 DEF JobsInit, JobsTypeOK, AgentStates, Terminal
<1>2. Unbegun /\ Remote /\ Truthful /\ Manned /\ Closing /\ Proper
  BY DEF JobsInit, Unbegun, Remote, Truthful, Manned, Closing, Proper
<1> QED BY <1>1, <1>2 DEF Inv

-----------------------------------------------------------------------------
(* What a job must go through, and what is left of it.                      *)
LEMMA ChainShape ==
  ASSUME NEW j \in Jobs, source[j] \in Sources
  PROVE  Chain(j) \in Seq(Sources) /\ Len(Chain(j)) \in {1, 2} /\ Head(Chain(j)) = Chain(j)[1]
<1>1. BaseOf[source[j]] \in Sources \cup {None}
  BY DEF JobsAssumption
<1> QED BY <1>1 DEF Chain, Needs, Local

LEMMA RestOfChain ==
  ASSUME NEW c \in Seq(Sources), Len(c) \in {1, 2}
  PROVE  /\ SubSeq(c, Len(c) + 1, Len(c)) = <<>>
         /\ SubSeq(c, 1, Len(c)) = c
         /\ Len(c) = 2 => SubSeq(c, 2, Len(c)) = <<c[2]>>
         /\ Len(c) = 2 => Append(<<c[1]>>, c[2]) = c
         /\ Len(c) = 1 => Append(<<>>, c[1]) = c
<1>1. SubSeq(c, Len(c) + 1, Len(c)) = <<>>
  OBVIOUS
<1>2. SubSeq(c, 1, Len(c)) = c
  OBVIOUS
<1>3. ASSUME Len(c) = 2 PROVE SubSeq(c, 2, Len(c)) = <<c[2]>>
  <2> DEFINE d == SubSeq(c, 2, Len(c))
  <2>0. c[2] \in Sources
    <3>1. 2 \in 1 .. Len(c)
      BY <1>3
    <3> QED BY <3>1, ElementOfSeq
  <2>1. d \in Seq(Sources) /\ Len(d) = 1 /\ d[1] = c[2]
    <3>1. \A i \in 2 .. 2 : c[i] \in Sources
      BY <2>0
    <3>2. /\ SubSeq(c, 2, 2) \in Seq(Sources)
          /\ Len(SubSeq(c, 2, 2)) = IF 2 <= 2 THEN 2 - 2 + 1 ELSE 0
          /\ \A i \in 1 .. 2 - 2 + 1 : SubSeq(c, 2, 2)[i] = c[2 + i - 1]
      BY <3>1, SubSeqProperties
    <3> QED BY <1>3, <3>2
  <2>2. <<c[2]>> \in Seq(Sources) /\ Len(<<c[2]>>) = 1 /\ <<c[2]>>[1] = c[2]
    BY <2>0
  <2> HIDE DEF d
  <2>3. \A i \in 1 .. Len(d) : d[i] = <<c[2]>>[i]
    BY <2>1, <2>2
  <2>4. d = <<c[2]>>
    BY <2>1, <2>2, <2>3, SeqEqual
  <2> QED BY <2>4 DEF d
<1>4. ASSUME Len(c) = 2 PROVE Append(<<c[1]>>, c[2]) = c
  <2> DEFINE d == Append(<<c[1]>>, c[2])
  <2>1. /\ d \in Seq(Sources) /\ Len(d) = 2 /\ d[1] = c[1] /\ d[2] = c[2]
    BY <1>4
  <2> HIDE DEF d
  <2>2. \A i \in 1 .. Len(d) : d[i] = c[i]
    BY <2>1
  <2> QED BY <1>4, <2>1, <2>2, SeqEqual
<1>5. ASSUME Len(c) = 1 PROVE Append(<<>>, c[1]) = c
  BY <1>5
<1> QED BY <1>1, <1>2, <1>3, <1>4, <1>5

(* The next artifact completes the chain, or begins it.                     *)
LEMMA NextOfChain ==
  ASSUME Inv, NEW j \in Jobs, source[j] \in Sources, Todo(j) # <<>>
  PROVE  /\ applied[j] # Chain(j)
         /\ Append(applied[j], Head(Todo(j))) \in Seq(Sources)
         /\ Append(applied[j], Head(Todo(j))) \in {<<Head(Chain(j))>>, Chain(j)}
         /\ ~(Len(Todo(j)) > 1) => Append(applied[j], Head(Todo(j))) = Chain(j)
<1> DEFINE c == Chain(j)
<1>1. c \in Seq(Sources) /\ Len(c) \in {1, 2} /\ Head(c) = c[1]
  BY ChainShape
<1>2. applied[j] \in {<<>>, <<c[1]>>, c} /\ Todo(j) = SubSeq(c, Len(applied[j]) + 1, Len(c))
  BY <1>1 DEF Inv, JobsTypeOK, Todo
<1> DEFINE rest == Todo(j)
<1> HIDE DEF c, rest
<1>2a. applied[j] \in {<<>>, <<c[1]>>, c} /\ rest = SubSeq(c, Len(applied[j]) + 1, Len(c)) /\ rest # <<>>
  BY <1>2 DEF rest
<1>3. applied[j] # c
  BY <1>1, <1>2a, RestOfChain
<1>4. CASE applied[j] = <<>>
  <2>1. rest = c
    BY <1>1, <1>2a, <1>4, RestOfChain
  <2>2. Append(applied[j], Head(rest)) = <<c[1]>>
    BY <1>1, <1>4, <2>1
  <2>3. <<c[1]>> \in Seq(Sources)
    BY <1>1
  <2>4. Len(c) = 1 => <<c[1]>> = c
    BY <1>1
  <2>5. ~(Len(rest) > 1) => Append(applied[j], Head(rest)) = c
    <3>1. ~(Len(rest) > 1) => Len(c) = 1
      BY <1>1, <2>1
    <3> QED BY <2>2, <2>4, <3>1
  <2>6. Append(applied[j], Head(rest)) \in {<<Head(c)>>, c}
    BY <1>1, <2>2
  <2>7. Append(applied[j], Head(rest)) \in Seq(Sources)
    BY <2>2, <2>3
  <2> QED BY <1>3, <2>5, <2>6, <2>7 DEF c, rest
<1>5. CASE applied[j] = <<c[1]>>
  <2>1. Len(c) = 2
    <3>1. Len(c) = 1 => <<c[1]>> = c
      BY <1>1
    <3> QED BY <1>1, <1>3, <1>5, <3>1
  <2>2. Len(applied[j]) + 1 = 2
    BY <1>5
  <2>2a. rest = SubSeq(c, 2, Len(c))
    BY <1>2a, <2>2
  <2>3. rest = <<c[2]>>
    BY <1>1, <2>1, <2>2a, RestOfChain
  <2>4. Append(applied[j], Head(rest)) = c
    BY <1>1, <1>5, <2>1, <2>3, RestOfChain
  <2> QED BY <1>1, <1>3, <2>4 DEF c, rest
<1> QED BY <1>2a, <1>3, <1>4, <1>5

-----------------------------------------------------------------------------
(* A request: the row had nothing before.                                   *)
LEMMA BeginInv ==
  ASSUME Inv, NEW j \in Jobs, NEW k \in Kinds, NEW r \in Sources, Begin(j, k, r), app \in {"up", "cron"}
  PROVE  Inv'
<1>1. /\ row[j] = "none" /\ job[j].pc = "idle" /\ command[j] = "none" /\ agent[j] = "idle"
      /\ handler[j] = {} /\ applied[j] = <<>>
  BY DEF Begin, Inv, Unbegun
<1>2. /\ kind' = [kind EXCEPT ![j] = k] /\ source' = [source EXCEPT ![j] = r]
      /\ row' = [row EXCEPT ![j] = "running"] /\ job' = [job EXCEPT ![j].pc = "created"]
      /\ UNCHANGED <<record, object, copied, applied, command, agent, handler,
                     app, cancelled, stopping, drained, late, faults>>
  BY DEF Begin, Close, Goto, data, remote, master
<1>3. /\ \A i \in Jobs \ {j} : /\ kind'[i] = kind[i] /\ source'[i] = source[i] /\ row'[i] = row[i]
                               /\ job'[i] = job[i] /\ Chain(i)' = Chain(i)
      /\ kind'[j] = k /\ source'[j] = r /\ row'[j] = "running" /\ job'[j].pc = "created"
  BY <1>2 DEF Inv, JobsTypeOK, Chain, Needs, Local
<1>3a. job' \in [Jobs -> Stages]
  <2>1. job[j] \in Stages
    BY DEF Inv, JobsTypeOK
  <2>2. [job[j] EXCEPT !.pc = "created"] \in Stages
    BY <2>1 DEF Stages
  <2> QED BY <1>2, <2>2 DEF Inv, JobsTypeOK
<1>4. JobsTypeOK'
  BY <1>1, <1>2, <1>3, <1>3a DEF Inv, JobsTypeOK, Terminal
<1>5. Unbegun'
  BY <1>1, <1>2, <1>3 DEF Inv, Unbegun
<1>6. Remote'
  BY <1>1, <1>2, <1>3 DEF Inv, Remote, Local
<1>7. Truthful' /\ Proper'
  BY <1>1, <1>2, <1>3 DEF Inv, Truthful, Proper, Whole
<1>8. Manned'
  BY <1>2, <1>3 DEF Inv, Manned, Accepted, Local, Cron
<1>9. Closing'
  BY <1>2, <1>3 DEF Inv, Closing, Accepted
<1> QED BY <1>4, <1>5, <1>6, <1>7, <1>8, <1>9 DEF Inv

-----------------------------------------------------------------------------
(* A step of a job that does not work: its state and perhaps its row.       *)
JobStep(j, s, v) ==
  /\ job[j].pc # "idle"
  /\ job' = [job EXCEPT ![j] = s]
  /\ row' = [row EXCEPT ![j] = v]
  /\ faults \subseteq faults' /\ faults' \subseteq Hazards
  /\ UNCHANGED <<record, object, copied, kind, source, applied, command, agent, handler,
                 app, cancelled, stopping, drained, late>>
  /\ s.pc \in {"waiting", "resolve", "working", "ending"} => Local(j) /\ ~drained
  /\ s.pc = "ending" /\ s.ok => Whole(j)
  /\ v = row[j] \/ (v = "success" => Whole(j))
  /\ \/ ~Local(j) \/ Cron(j) \/ faults' # {} \/ v \in Terminal
     \/ s.pc \in {"waiting", "resolve", "working", "ending"}

LEMMA JobMoves ==
  ASSUME Inv, NEW j \in Jobs, NEW s \in Stages, NEW v \in {row[j]} \cup Terminal, JobStep(j, s, v)
  PROVE  Inv'
<1> USE DEF JobStep
<1>1. /\ \A i \in Jobs \ {j} : row'[i] = row[i] /\ job'[i] = job[i]
      /\ row'[j] = v /\ job'[j] = s
      /\ \A i \in Jobs : Chain(i)' = Chain(i) /\ (Whole(i)' <=> Whole(i))
      /\ \A i \in Jobs : (Local(i)' <=> Local(i)) /\ (Cron(i)' <=> Cron(i))
  BY DEF Inv, JobsTypeOK, Chain, Needs, Local, Whole, Cron
<1>2. row[j] # "none" /\ v # "none"
  BY DEF Inv, Unbegun, Terminal
<1>3. JobsTypeOK'
  BY <1>1 DEF Inv, JobsTypeOK
<1>4. Unbegun'
  BY <1>1, <1>2 DEF Inv, Unbegun
<1>5. Remote'
  BY <1>1 DEF Inv, Remote
<1>6. Truthful'
  BY <1>1 DEF Inv, Truthful
<1>7. Proper'
  <2>1. v = "success" => Whole(j)
    BY DEF Inv, Proper, Whole
  <2>2. Proper' <=> \A i \in Jobs : row'[i] = "success" => Whole(i)'
    BY DEF Proper
  <2>3. \A i \in Jobs : row[i] = "success" => Whole(i)
    BY DEF Inv, Proper, Whole
  <2> QED BY <1>1, <2>1, <2>2, <2>3
<1>8. Manned'
  <2>1. ASSUME faults' = {} PROVE faults = {}
    BY <2>1
  <2> QED BY <1>1, <1>2, <2>1 DEF Inv, Manned, Accepted, Terminal
<1>9. Closing'
  BY <1>1 DEF Inv, Closing, Accepted
<1> QED BY <1>3, <1>4, <1>5, <1>6, <1>7, <1>8, <1>9 DEF Inv

(* A step of the Agent, of the command or of a report for a restore on      *)
(* another node.                                                            *)
RemoteStep(j, c, a, h, v, x) ==
  /\ kind[j] = "remote"
  /\ row[j] # "none"
  /\ command' = [command EXCEPT ![j] = c]
  /\ agent' = [agent EXCEPT ![j] = a]
  /\ handler' = [handler EXCEPT ![j] = h]
  /\ row' = [row EXCEPT ![j] = v]
  /\ applied' = [applied EXCEPT ![j] = x]
  /\ faults \subseteq faults' /\ faults' \subseteq Hazards
  /\ UNCHANGED <<record, object, copied, kind, source, job, app, cancelled, stopping, drained, late>>
  /\ a = "restored" \/ "success" \in h => x = Chain(j)
  /\ v = row[j] \/ (v = "success" => x = Chain(j))

LEMMA RemoteMoves ==
  ASSUME Inv, NEW j \in Jobs,
         NEW c \in {command[j], "pending", "dispatched", "succeeded", "failed", "timeout"},
         NEW a \in AgentStates, NEW h \in SUBSET ({"running"} \cup Terminal),
         NEW v \in {row[j], "running"} \cup Terminal,
         NEW x \in {applied[j], Chain(j)}, RemoteStep(j, c, a, h, v, x)
  PROVE  Inv'
<1> USE DEF RemoteStep
<1>1. /\ \A i \in Jobs \ {j} : /\ row'[i] = row[i] /\ applied'[i] = applied[i] /\ command'[i] = command[i]
                               /\ agent'[i] = agent[i] /\ handler'[i] = handler[i]
                               /\ (Whole(i)' <=> Whole(i))
      /\ row'[j] = v /\ applied'[j] = x /\ command'[j] = c /\ agent'[j] = a /\ handler'[j] = h
      /\ \A i \in Jobs : /\ Chain(i)' = Chain(i) /\ (Local(i)' <=> Local(i)) /\ (Cron(i)' <=> Cron(i))
                         /\ (Accepted(i)' <=> Accepted(i))
  BY DEF Inv, JobsTypeOK, Chain, Needs, Local, Whole, Cron, Accepted
<1>2. v # "none" /\ ~Local(j) /\ kind'[j] # "copy"
  BY DEF Terminal, Local
<1>3. Chain(j) \in Seq(Sources)
  BY ChainShape DEF Inv, Unbegun
<1>4. JobsTypeOK'
  <2>1. x \in Seq(Sources) /\ x \in {<<>>, <<Head(Chain(j))>>, Chain(j)}
    BY <1>3 DEF Inv, JobsTypeOK
  <2> QED BY <1>1, <2>1 DEF Inv, JobsTypeOK
<1>5. Unbegun'
  BY <1>1, <1>2 DEF Inv, Unbegun
<1>6. Remote'
  BY <1>1, <1>2 DEF Inv, Remote
<1>6a. ~(job[j].pc \in {"waiting", "resolve", "working", "ending"})
  BY <1>2 DEF Inv, Remote
<1>7. Truthful'
  <2>1. Whole(j)' <=> x = Chain(j)
    BY <1>1, <1>2 DEF Whole
  <2> QED BY <1>1, <1>2, <1>6a, <2>1 DEF Inv, Truthful
<1>8. Proper'
  <2>1. v = "success" => x = Chain(j)
    BY DEF Inv, Proper, Whole
  <2>2. \A i \in Jobs \ {j} : row[i] = "success" => Whole(i)
    BY DEF Inv, Proper, Whole
  <2>3. \A i \in Jobs \ {j} : row'[i] = "success" => Whole(i)'
    BY <1>1, <2>2
  <2>4. \A i \in Jobs : row'[i] = "success" => applied'[i] = Chain(i)' /\ (kind'[i] = "copy" => source'[i] \in copied')
    BY <1>1, <1>2, <2>1, <2>3 DEF Whole
  <2> QED BY <2>4 DEF Proper, Whole
<1>9. Manned'
  <2>1. ASSUME faults' = {} PROVE faults = {}
    BY <2>1
  <2> QED BY <1>1, <1>2, <2>1 DEF Inv, Manned
<1>10. Closing'
  BY <1>1 DEF Inv, Closing
<1> QED BY <1>4, <1>5, <1>6, <1>7, <1>8, <1>9, <1>10 DEF Inv

LEMMA StageOf ==
  ASSUME Inv, NEW j \in Jobs, NEW p \in {"waiting", "resolve", "over"}, Goto(j, p)
  PROVE  \E s \in Stages : s.pc = p /\ job' = [job EXCEPT ![j] = s]
<1> DEFINE s == [job[j] EXCEPT !.pc = p]
<1>1. job[j] \in Stages
  BY DEF Inv, JobsTypeOK
<1>2. s \in Stages /\ s.pc = p
  BY <1>1 DEF Stages
<1>3. job' = [job EXCEPT ![j] = s]
  BY DEF Goto
<1> QED BY <1>2, <1>3

LEMMA Ending ==
  /\ \A b \in BOOLEAN : [pc |-> "ending", ok |-> b] \in Stages
  /\ \A p \in {"ending", "working"} : [pc |-> p, ok |-> FALSE] \in Stages
BY DEF Stages

LEMMA JobInv ==
  ASSUME Inv, NEW j \in Jobs,
         \/ Go(j) \/ GoFails(j) \/ TakeSlot(j) \/ Abandon(j) \/ Resolve(j) \/ WorkFails(j)
         \/ Finalize(j) \/ FinalizeFails(j) \/ DispatchFails(j)
  PROVE  Inv'
<1>0. /\ row = [row EXCEPT ![j] = row[j]] /\ faults \subseteq Hazards
      /\ job[j].pc \in {"waiting", "resolve", "working", "ending"} => Local(j) /\ ~drained
  BY DEF Inv, JobsTypeOK, Remote, Closing, Accepted
<1> DEFINE still == UNCHANGED <<record, object, copied, kind, source, applied, command, agent, handler,
                                app, cancelled, stopping, drained, late>>
<1>1. CASE Go(j)
  <2>0. job[j].pc = "created" /\ Local(j) /\ still /\ UNCHANGED faults
    BY <1>1 DEF Go, data, what, remote, master
  <2>1. CASE stopping \/ cancelled
    <3>1. PICK s \in Stages : s.pc = "over" /\ job' = [job EXCEPT ![j] = s]
      BY <1>1, <2>1, StageOf DEF Go
    <3>2. CASE Cron(j)
      <4>1. JobStep(j, s, row[j])
        BY <1>0, <1>1, <2>0, <2>1, <3>1, <3>2 DEF Go, JobStep
      <4> QED BY <4>1, JobMoves
    <3>3. CASE ~Cron(j)
      <4>1. JobStep(j, s, "failed") /\ "failed" \in Terminal
        BY <1>0, <1>1, <2>0, <2>1, <3>1, <3>3 DEF Go, Close, Terminal, JobStep
      <4> QED BY <4>1, JobMoves
    <3> QED BY <3>2, <3>3
  <2>2. CASE ~(stopping \/ cancelled)
    <3>1. PICK s \in Stages : s.pc = "waiting" /\ job' = [job EXCEPT ![j] = s]
      BY <1>1, <2>2, StageOf DEF Go
    <3>2. ~drained
      BY <2>2 DEF Inv, Closing
    <3>3. JobStep(j, s, row[j])
      BY <1>0, <1>1, <2>0, <2>2, <3>1, <3>2 DEF Go, JobStep
    <3> QED BY <3>3, JobMoves
  <2> QED BY <2>1, <2>2
<1>2. CASE GoFails(j) \/ FinalizeFails(j) \/ DispatchFails(j)
  <2>1. PICK s \in Stages : s.pc = "over" /\ job' = [job EXCEPT ![j] = s]
    BY <1>2, StageOf DEF GoFails, FinalizeFails, DispatchFails
  <2>2. job[j].pc # "idle" /\ Fault("db") /\ still /\ UNCHANGED row
    BY <1>2 DEF GoFails, FinalizeFails, DispatchFails, data, what, remote, master
  <2>3. faults \subseteq faults' /\ faults' \subseteq Hazards /\ faults' # {}
    BY <1>0, <2>2 DEF Fault
  <2>4. JobStep(j, s, row[j])
    BY <1>0, <2>1, <2>2, <2>3 DEF JobStep
  <2> QED BY <2>4, JobMoves
<1>3. CASE TakeSlot(j)
  <2>1. PICK s \in Stages : s.pc = "resolve" /\ job' = [job EXCEPT ![j] = s]
    BY <1>3, StageOf DEF TakeSlot
  <2>2. job[j].pc = "waiting" /\ still /\ UNCHANGED <<row, faults>>
    BY <1>3 DEF TakeSlot, data, what, remote, master
  <2>3. JobStep(j, s, row[j])
    BY <1>0, <2>1, <2>2 DEF JobStep
  <2> QED BY <2>3, JobMoves
<1>4. CASE Abandon(j) \/ Resolve(j) \/ WorkFails(j)
  <2>1. PICK p \in {"ending", "working"} : job' = [job EXCEPT ![j] = [pc |-> p, ok |-> FALSE]]
    BY <1>4 DEF Abandon, Resolve, WorkFails
  <2>2. /\ job[j].pc \in {"waiting", "resolve", "working"} /\ still /\ UNCHANGED row
        /\ UNCHANGED faults \/ Fault("storage")
    BY <1>4 DEF Abandon, Resolve, WorkFails, data, what, remote, master
  <2>3. faults \subseteq faults' /\ faults' \subseteq Hazards
    BY <1>0, <2>2 DEF Fault
  <2>4. JobStep(j, [pc |-> p, ok |-> FALSE], row[j])
    BY <1>0, <2>1, <2>2, <2>3 DEF JobStep
  <2> QED BY <2>4, Ending, JobMoves
<1>5. CASE Finalize(j)
  <2>1. PICK s \in Stages : s.pc = "over" /\ job' = [job EXCEPT ![j] = s]
    BY <1>5, StageOf DEF Finalize
  <2>2. job[j].pc = "ending" /\ still /\ UNCHANGED faults
    BY <1>5 DEF Finalize, data, what, remote, master
  <2> DEFINE v == IF job[j].ok THEN "success" ELSE "failed"
  <2>3. v \in Terminal /\ row' = [row EXCEPT ![j] = v]
    BY <1>5 DEF Finalize, Close, Terminal
  <2>4. v = "success" => Whole(j)
    BY <2>2 DEF Inv, Truthful
  <2> HIDE DEF v
  <2>5. JobStep(j, s, v)
    BY <1>0, <2>1, <2>2, <2>3, <2>4 DEF JobStep
  <2> QED BY <2>3, <2>5, JobMoves
<1> QED BY <1>1, <1>2, <1>3, <1>4, <1>5

(* Work: the next artifact, and the end after the last one.                 *)
LEMMA WorkInv ==
  ASSUME Inv, NEW j \in Jobs, Work(j)
  PROVE  Inv'
<1>0. /\ job[j].pc = "working" /\ Todo(j) # <<>> /\ Local(j) /\ ~drained
      /\ row[j] # "none" /\ source[j] \in Sources
  BY DEF Work, Inv, Remote, Unbegun, Closing, Accepted
<1>1. CASE Head(Todo(j)) \notin object
  <2>1. JobStep(j, [pc |-> "ending", ok |-> FALSE], row[j])
    BY <1>0, <1>1 DEF Work, what, remote, master, Inv, JobsTypeOK, JobStep
  <2> QED BY <2>1, Ending, JobMoves
<1>2. CASE Head(Todo(j)) \in object
  <2> DEFINE x == Append(applied[j], Head(Todo(j)))
             s == IF Len(Todo(j)) > 1 THEN job[j] ELSE [pc |-> "ending", ok |-> TRUE]
  <2>1. /\ applied' = [applied EXCEPT ![j] = x] /\ job' = [job EXCEPT ![j] = s]
        /\ copied' = IF kind[j] = "copy" THEN copied \cup {source[j]} ELSE copied
        /\ UNCHANGED <<record, object, kind, source, row, command, agent, handler,
                       app, cancelled, stopping, drained, late, faults>>
    BY <1>2 DEF Work, what, remote, master
  <2>2. /\ applied[j] # Chain(j) /\ x \in Seq(Sources) /\ x \in {<<Head(Chain(j))>>, Chain(j)}
        /\ ~(Len(Todo(j)) > 1) => x = Chain(j)
    BY <1>0, NextOfChain
  <2>3. s \in Stages /\ s.pc \in {"working", "ending"} /\ (s.pc = "ending" => x = Chain(j))
    BY <1>0, <2>2, Ending DEF Inv, JobsTypeOK
  <2> HIDE DEF x, s
  <2>4. /\ \A i \in Jobs \ {j} : applied'[i] = applied[i] /\ job'[i] = job[i]
        /\ applied'[j] = x /\ job'[j] = s
        /\ copied \subseteq copied' /\ copied' \subseteq Sources /\ (kind[j] = "copy" => source[j] \in copied')
        /\ \A i \in Jobs : /\ Chain(i)' = Chain(i)
                           /\ (Local(i)' <=> Local(i)) /\ (Cron(i)' <=> Cron(i))
                           /\ (Accepted(i)' <=> Accepted(i))
    BY <1>0, <2>1, <2>3 DEF Inv, JobsTypeOK, Chain, Needs, Local, Cron, Accepted
  <2>5. /\ \A i \in Jobs \ {j} : Whole(i) => Whole(i)'
        /\ x = Chain(j) => Whole(j)'
        /\ ~Whole(j)
    BY <2>1, <2>2, <2>4 DEF Whole
  <2>6. JobsTypeOK'
    BY <2>1, <2>2, <2>3, <2>4 DEF Inv, JobsTypeOK
  <2>7. Unbegun'
    BY <1>0, <2>1, <2>4 DEF Inv, Unbegun
  <2>8. Remote'
    BY <1>0, <2>1, <2>3, <2>4 DEF Inv, Remote
  <2>9. Truthful'
    <3>1. agent[j] # "restored" /\ "success" \notin handler[j]
      BY <1>0 DEF Inv, Remote, Local
    <3> QED BY <2>1, <2>3, <2>4, <2>5, <3>1 DEF Inv, Truthful
  <2>10. Proper'
    <3>1. \A i \in Jobs : row[i] = "success" => Whole(i)
      BY DEF Inv, Proper, Whole
    <3>2. \A i \in Jobs : row'[i] = "success" => Whole(i)'
      BY <2>1, <2>5, <3>1
    <3> QED BY <3>2 DEF Proper, Whole
  <2>11. Manned' /\ Closing'
    <3>1. job'[j].pc # "created" /\ \A i \in Jobs : job'[i].pc = "created" => job[i].pc = "created"
      BY <2>3, <2>4
    <3>2. \A i \in Jobs \ {j} : job'[i].pc = job[i].pc
      BY <2>4
    <3> QED BY <1>0, <2>1, <2>4, <3>1, <3>2 DEF Inv, Manned, Closing, Accepted
  <2> QED BY <2>6, <2>7, <2>8, <2>9, <2>10, <2>11 DEF Inv
<1> QED BY <1>1, <1>2

-----------------------------------------------------------------------------
(* A restore on another node is handed over, or its row is closed.          *)
LEMMA DispatchInv ==
  ASSUME Inv, NEW j \in Jobs, Dispatch(j)
  PROVE  Inv'
<1>0. /\ job[j].pc = "created" /\ kind[j] = "remote" /\ ~Local(j) /\ row[j] # "none"
  BY DEF Dispatch, Local, Inv, Unbegun
<1>1. PICK s \in Stages : s.pc = "over" /\ job' = [job EXCEPT ![j] = s]
  BY StageOf DEF Dispatch
<1>2. UNCHANGED <<record, object, copied, kind, source, applied, agent, handler,
                  app, cancelled, stopping, drained, late, faults>>
  BY DEF Dispatch, data, what, master
<1>3. CASE row' = [row EXCEPT ![j] = "failed"] /\ UNCHANGED command
  <2>1. JobStep(j, s, "failed") /\ "failed" \in Terminal
    BY <1>0, <1>1, <1>2, <1>3 DEF Terminal, JobStep, Inv, JobsTypeOK
  <2> QED BY <2>1, JobMoves
<1>4. CASE command' = [command EXCEPT ![j] = "pending"] /\ UNCHANGED row
  <2>1. /\ \A i \in Jobs \ {j} : job'[i] = job[i] /\ command'[i] = command[i]
        /\ job'[j].pc = "over" /\ command'[j] = "pending"
        /\ \A i \in Jobs : /\ Chain(i)' = Chain(i) /\ (Whole(i)' <=> Whole(i))
                           /\ (Local(i)' <=> Local(i)) /\ (Cron(i)' <=> Cron(i))
    BY <1>1, <1>2, <1>4 DEF Inv, JobsTypeOK, Chain, Needs, Local, Whole, Cron
  <2>2. JobsTypeOK'
    BY <1>1, <1>2, <1>4, <2>1 DEF Inv, JobsTypeOK
  <2>3. Unbegun'
    BY <1>0, <1>2, <1>4, <2>1 DEF Inv, Unbegun
  <2>4. Remote'
    BY <1>0, <1>2, <2>1 DEF Inv, Remote
  <2>5. Truthful'
    BY <1>2, <2>1 DEF Inv, Truthful
  <2>6. Proper'
    BY <1>2, <1>4, <2>1 DEF Inv, Proper
  <2>7. Manned'
    BY <1>0, <1>2, <1>4, <2>1 DEF Inv, Manned, Accepted
  <2>8. Closing'
    BY <1>2, <2>1 DEF Inv, Closing, Accepted
  <2> QED BY <2>2, <2>3, <2>4, <2>5, <2>6, <2>7, <2>8 DEF Inv
<1> QED BY <1>3, <1>4 DEF Dispatch, Close

(* Steps that leave what the Agent has applied, and who will report it.     *)
LEMMA RemoteMovesBy ==
  ASSUME Inv, NEW j \in Jobs, kind[j] = "remote", row[j] # "none",
         NEW c \in {command[j], "pending", "dispatched", "succeeded", "failed", "timeout"},
         NEW a \in AgentStates, a = "restored" => agent[j] = "restored",
         NEW v \in {row[j], "failed"},
         command' = [command EXCEPT ![j] = c], agent' = [agent EXCEPT ![j] = a],
         row' = [row EXCEPT ![j] = v], faults \subseteq faults', faults' \subseteq Hazards,
         UNCHANGED <<record, object, copied, kind, source, job, applied, handler,
                     app, cancelled, stopping, drained, late>>
  PROVE  Inv'
<1>0. handler = [handler EXCEPT ![j] = handler[j]] /\ applied = [applied EXCEPT ![j] = applied[j]]
      /\ handler[j] \in SUBSET ({"running"} \cup Terminal)
  BY DEF Inv, JobsTypeOK
<1>1. agent[j] = "restored" \/ "success" \in handler[j] => applied[j] = Chain(j)
  BY DEF Inv, Truthful, Whole
<1>2. RemoteStep(j, c, a, handler[j], v, applied[j])
  BY <1>0, <1>1 DEF RemoteStep
<1> QED BY <1>0, <1>2, RemoteMoves DEF Terminal

LEMMA RemoteInv ==
  ASSUME Inv, NEW j \in Jobs,
         \/ Claim(j) \/ ClaimLost(j) \/ AgentLog(j) \/ AgentRestore(j) \/ AgentFails(j)
         \/ AgentReport(j) \/ ReportSave(j) \/ ReportDropped(j) \/ RequestLost(j) \/ AgentResult(j)
         \/ AgentDies(j) \/ AgentStarts(j) \/ Expire(j) \/ CutOff(j) \/ ExpireFails(j)
  PROVE  Inv'
<1>0. /\ command = [command EXCEPT ![j] = command[j]] /\ agent = [agent EXCEPT ![j] = agent[j]]
      /\ handler = [handler EXCEPT ![j] = handler[j]] /\ row = [row EXCEPT ![j] = row[j]]
      /\ applied = [applied EXCEPT ![j] = applied[j]] /\ faults \subseteq Hazards
      /\ agent[j] \in AgentStates /\ handler[j] \in SUBSET ({"running"} \cup Terminal)
  BY DEF Inv, JobsTypeOK
<1>1. command[j] # "none" \/ agent[j] # "idle" \/ handler[j] # {}
  BY DEF Claim, ClaimLost, AgentLog, AgentRestore, AgentFails, AgentReport, ReportSave, ReportDropped,
         RequestLost, AfterLoss, AgentResult, AgentDies, AgentStarts, Expire, CutOff, ExpireFails,
         TimeOut, Overdue
<1>2. /\ kind[j] = "remote" /\ row[j] # "none"
      /\ agent[j] = "restored" \/ "success" \in handler[j] => applied[j] = Chain(j)
  BY <1>1 DEF Inv, Remote, Unbegun, Truthful, Whole
<1> DEFINE still == UNCHANGED <<record, object, copied, kind, source, job,
                                app, cancelled, stopping, drained, late>>
<1>3. CASE Claim(j) \/ ClaimLost(j)
  <2>1. PICK a \in {"working", "gone"} : agent' = [agent EXCEPT ![j] = a]
    BY <1>3 DEF Claim, ClaimLost
  <2>2. /\ still /\ UNCHANGED <<row, applied, handler>> /\ command' = [command EXCEPT ![j] = "dispatched"]
        /\ faults \subseteq faults' /\ faults' \subseteq Hazards
    BY <1>0, <1>3 DEF Claim, ClaimLost, Fault, data, what, master
  <2>3. a \in AgentStates /\ a # "restored"
    BY DEF AgentStates
  <2> QED BY <1>0, <1>2, <2>1, <2>2, <2>3, RemoteMovesBy
<1>4. CASE AgentRestore(j)
  <2>1. CASE Serving /\ source[j] \in record \cap object
    <3>1. RemoteStep(j, command[j], "restored", handler[j], row[j], Chain(j))
      BY <1>0, <1>2, <1>4, <2>1 DEF AgentRestore, data, what, master, RemoteStep
    <3>2. "restored" \in AgentStates
      BY DEF AgentStates
    <3> QED BY <1>0, <3>1, <3>2, RemoteMoves
  <2>2. CASE ~(Serving /\ source[j] \in record \cap object)
    <3>1. /\ agent' = [agent EXCEPT ![j] = "refused"]
          /\ still /\ UNCHANGED <<row, applied, handler, command, faults>>
      BY <1>4, <2>2 DEF AgentRestore, data, what, master
    <3>2. "refused" \in AgentStates
      BY DEF AgentStates
    <3> QED BY <1>0, <1>2, <3>1, <3>2, RemoteMovesBy
  <2> QED BY <2>1, <2>2
<1>5. CASE AgentLog(j) \/ AgentReport(j)
  <2>1. PICK s \in {"running"} \cup Terminal, to \in {"logging", "sent"},
             next \in {"logged", "result", "complaint"} :
          /\ Update(j, s, to, next)
          /\ s = "success" => agent[j] = "restored"
    <3>1. CASE AgentLog(j)
      BY <3>1 DEF AgentLog
    <3>2. CASE AgentReport(j)
      <4> DEFINE s == IF agent[j] = "restored" THEN "success" ELSE "failed"
                 n == IF agent[j] = "restored" /\ Serving THEN "result" ELSE "complaint"
      <4>1. s \in {"running"} \cup Terminal /\ n \in {"logged", "result", "complaint"}
            /\ (s = "success" => agent[j] = "restored") /\ "sent" \in {"logging", "sent"}
        BY DEF Terminal
      <4>2. Update(j, s, "sent", n)
        BY <3>2 DEF AgentReport
      <4> HIDE DEF s, n
      <4> QED BY <4>1, <4>2
    <3> QED BY <1>5, <3>1, <3>2
  <2>2. still /\ UNCHANGED <<row, applied, command, faults>>
    BY <1>5 DEF AgentLog, AgentReport, data, what, master
  <2>3. CASE Serving /\ row[j] = "running"
    <3> DEFINE h == handler[j] \cup {s}
    <3>1. handler' = [handler EXCEPT ![j] = h] /\ agent' = [agent EXCEPT ![j] = to]
      BY <2>1, <2>3 DEF Update
    <3>2. h \in SUBSET ({"running"} \cup Terminal) /\ ("success" \in h => applied[j] = Chain(j))
      BY <1>0, <1>2, <2>1
    <3>3. to \in AgentStates /\ to # "restored"
      BY DEF AgentStates
    <3> HIDE DEF h
    <3>4. RemoteStep(j, command[j], to, h, row[j], applied[j])
      BY <1>0, <1>2, <2>2, <3>1, <3>2, <3>3 DEF RemoteStep
    <3> QED BY <3>2, <3>3, <3>4, RemoteMoves
  <2>4. CASE ~(Serving /\ row[j] = "running")
    <3>1. agent' = [agent EXCEPT ![j] = next] /\ UNCHANGED handler
      BY <2>1, <2>4 DEF Update
    <3>2. next \in AgentStates /\ next # "restored"
      BY DEF AgentStates
    <3> QED BY <1>0, <1>2, <2>2, <3>1, <3>2, RemoteMovesBy
  <2> QED BY <2>3, <2>4
<1>6. CASE ReportSave(j) \/ ReportDropped(j)
  <2>1. PICK s \in handler[j], v \in {row[j], "running"} \cup Terminal,
             a \in {agent[j], "logged", "result", "complaint"} :
          /\ v \in {row[j], s}
          /\ handler' = [handler EXCEPT ![j] = @ \ {s}]
          /\ row' = [row EXCEPT ![j] = v] /\ agent' = [agent EXCEPT ![j] = a]
    <3>1. CASE ReportSave(j)
      <4>1. PICK s \in handler[j] :
              /\ handler' = [handler EXCEPT ![j] = @ \ {s}] /\ row' = [row EXCEPT ![j] = s]
              /\ agent' = [agent EXCEPT ![j] = IF Awaits(j, s) THEN Answered(s) ELSE @]
        BY <3>1 DEF ReportSave, Close
      <4>2. Answered(s) \in {"logged", "result", "complaint"}
        BY DEF Answered
      <4> DEFINE a == IF Awaits(j, s) THEN Answered(s) ELSE agent[j]
      <4>3. a \in {agent[j], "logged", "result", "complaint"} /\ agent' = [agent EXCEPT ![j] = a]
        BY <4>1, <4>2
      <4> HIDE DEF a
      <4> QED BY <1>0, <4>1, <4>3
    <3>2. CASE ReportDropped(j)
      <4>1. PICK s \in handler[j] : handler' = [handler EXCEPT ![j] = @ \ {s}] /\ UNCHANGED <<row, agent>>
        BY <3>2 DEF ReportDropped
      <4>2. row' = [row EXCEPT ![j] = row[j]] /\ agent' = [agent EXCEPT ![j] = agent[j]]
        BY <1>0, <4>1
      <4>3. row[j] \in {row[j], "running"} \cup Terminal /\ agent[j] \in {agent[j], "logged", "result", "complaint"}
        OBVIOUS
      <4> QED BY <4>1, <4>2, <4>3
    <3> QED BY <1>6, <3>1, <3>2
  <2>2. still /\ UNCHANGED <<applied, command, faults>>
    BY <1>6 DEF ReportSave, ReportDropped, data, what, master
  <2> DEFINE h == handler[j] \ {s}
  <2>3. h \in SUBSET ({"running"} \cup Terminal) /\ ("success" \in h => "success" \in handler[j])
        /\ handler' = [handler EXCEPT ![j] = h]
    BY <1>0, <2>1
  <2>4. v \in {row[j], "running"} \cup Terminal /\ (v = row[j] \/ (v = "success" => "success" \in handler[j]))
    BY <1>0, <2>1
  <2>5. a \in AgentStates /\ (a = "restored" => agent[j] = "restored")
    BY <1>0, <2>1 DEF AgentStates
  <2> HIDE DEF h
  <2>6. RemoteStep(j, command[j], a, h, v, applied[j])
    BY <1>0, <1>2, <2>1, <2>2, <2>3, <2>4, <2>5 DEF RemoteStep
  <2> QED BY <2>3, <2>4, <2>5, <2>6, RemoteMoves
<1>7. CASE AgentFails(j) \/ RequestLost(j) \/ AgentDies(j) \/ AgentStarts(j)
  <2>1. PICK a \in {"refused", "logged", "complaint", "gone", "dead", "idle"} : agent' = [agent EXCEPT ![j] = a]
    <3>1. CASE RequestLost(j)
      <4>1. AfterLoss[agent[j]] \in {"logged", "complaint", "gone"}
        BY <3>1 DEF RequestLost, AfterLoss
      <4> QED BY <3>1, <4>1 DEF RequestLost
    <3>2. CASE AgentFails(j) \/ AgentDies(j) \/ AgentStarts(j)
      BY <3>2 DEF AgentFails, AgentDies, AgentStarts
    <3> QED BY <1>7, <3>1, <3>2
  <2>2. faults \subseteq faults' /\ faults' \subseteq Hazards
    BY <1>0, <1>7 DEF AgentFails, RequestLost, AgentDies, AgentStarts, Fault
  <2>3. still /\ UNCHANGED <<row, applied, command, handler>>
    BY <1>7 DEF AgentFails, RequestLost, AgentDies, AgentStarts, data, what, master
  <2>4. a \in AgentStates /\ a # "restored"
    BY DEF AgentStates
  <2> QED BY <1>0, <1>2, <2>1, <2>2, <2>3, <2>4, RemoteMovesBy
<1>8. CASE AgentResult(j)
  <2>1. PICK c \in {command[j], "succeeded", "failed"} : command' = [command EXCEPT ![j] = c]
    BY <1>0, <1>8 DEF AgentResult
  <2>2. PICK v \in {row[j], "failed"} : row' = [row EXCEPT ![j] = v]
    BY <1>0, <1>8 DEF AgentResult, Close
  <2>3. "gone" \in AgentStates /\ still /\ agent' = [agent EXCEPT ![j] = "gone"]
        /\ UNCHANGED <<applied, handler, faults>>
    BY <1>8 DEF AgentResult, AgentStates, data, what, master
  <2> QED BY <1>0, <1>2, <2>1, <2>2, <2>3, RemoteMovesBy
<1>9. CASE Expire(j) \/ CutOff(j) \/ ExpireFails(j)
  <2>1. PICK v \in {row[j], "failed"} : row' = [row EXCEPT ![j] = v]
    BY <1>0, <1>9 DEF Expire, CutOff, ExpireFails, Close
  <2>2. faults \subseteq faults' /\ faults' \subseteq Hazards
    BY <1>0, <1>9 DEF Expire, CutOff, ExpireFails, Fault
  <2>3. still /\ command' = [command EXCEPT ![j] = "timeout"] /\ UNCHANGED <<applied, agent, handler>>
    BY <1>9 DEF Expire, CutOff, ExpireFails, TimeOut, data, what, master
  <2> QED BY <1>0, <1>2, <2>1, <2>2, <2>3, RemoteMovesBy
<1> QED BY <1>3, <1>4, <1>5, <1>6, <1>7, <1>8, <1>9

-----------------------------------------------------------------------------
(* Backups are deleted, and the Master begins or goes on to stop.           *)
Elsewhere ==
  /\ record' \subseteq Sources /\ object' \subseteq Sources
  /\ UNCHANGED <<copied, kind, source, row, job, applied, command, agent, handler>>
  /\ app' \in {"up", "cron", "http", "background"}
  /\ cancelled' \in BOOLEAN /\ stopping' \in BOOLEAN /\ drained' \in BOOLEAN /\ late' \in BOOLEAN
  /\ faults \subseteq faults' /\ faults' \subseteq Hazards
  /\ drained' => stopping' /\ \A j \in Jobs : ~Accepted(j)
  /\ faults' = {} => ~late'
  /\ faults' = {} /\ app' = "background" =>
       \A j \in Jobs : Local(j) /\ ~Cron(j) /\ row[j] = "running" => job[j].pc # "created"

LEMMA MasterMoves ==
  ASSUME Inv, Elsewhere
  PROVE  Inv'
<1> USE DEF Elsewhere
<1>1. \A j \in Jobs : /\ Chain(j)' = Chain(j) /\ (Whole(j)' <=> Whole(j)) /\ (Accepted(j)' <=> Accepted(j))
                      /\ (Local(j)' <=> Local(j)) /\ (Cron(j)' <=> Cron(j))
  BY DEF Chain, Needs, Local, Whole, Accepted, Cron
<1>2. JobsTypeOK'
  BY <1>1 DEF Inv, JobsTypeOK
<1>3. Unbegun' /\ Remote'
  BY <1>1 DEF Inv, Unbegun, Remote
<1>4. Truthful' /\ Proper'
  BY <1>1 DEF Inv, Truthful, Proper
<1>5. Manned'
  <2>1. ASSUME faults' = {} PROVE faults = {}
    BY <2>1
  <2> QED BY <1>1, <2>1 DEF Inv, Manned
<1>6. Closing'
  BY <1>1 DEF Closing
<1> QED BY <1>2, <1>3, <1>4, <1>5, <1>6 DEF Inv

LEMMA DeleteInv ==
  ASSUME Inv, NEW r \in Sources, DeleteObject(r) \/ DeleteRow(r)
  PROVE  Inv'
<1>1. /\ record' \subseteq Sources /\ object' \subseteq Sources /\ app # "down"
      /\ UNCHANGED <<copied, kind, source, row, job, applied, command, agent, handler,
                     app, cancelled, stopping, drained, late, faults>>
  BY DEF DeleteObject, DeleteRow, what, remote, master, Inv, JobsTypeOK
<1>2. Elsewhere
  BY <1>1 DEF Elsewhere, Inv, JobsTypeOK, Manned, Closing
<1> QED BY <1>2, MasterMoves

LEMMA ShutdownInv ==
  ASSUME Inv, BeginShutdown \/ StopScheduler \/ StopServer \/ Drain \/ (Expired /\ app # "down")
  PROVE  Inv'
<1>0. /\ UNCHANGED <<record, object, copied, kind, source, row, job, applied, command, agent, handler>>
      /\ record \subseteq Sources /\ object \subseteq Sources
  BY DEF BeginShutdown, StopScheduler, StopServer, Drain, Expired, data, what, remote, Inv, JobsTypeOK
<1>1. /\ faults \subseteq faults' /\ faults' \subseteq Hazards
      /\ faults' = {} => faults = {} /\ UNCHANGED late
  BY DEF BeginShutdown, StopScheduler, StopServer, Drain, Expired, Fault, Inv, JobsTypeOK
<1>2. /\ cancelled' \in BOOLEAN /\ stopping' \in BOOLEAN /\ drained' \in BOOLEAN /\ late' \in BOOLEAN
  BY DEF BeginShutdown, StopScheduler, StopServer, Drain, Expired, Inv, JobsTypeOK
<1>3. drained' => stopping' /\ \A j \in Jobs : ~Accepted(j)
  BY DEF BeginShutdown, StopScheduler, StopServer, Drain, Expired, Inv, Closing
<1>4. faults' = {} => ~late /\ ~late'
  BY <1>1 DEF Inv, Manned
<1>5. app' \in {"up", "cron", "http", "background"}
  BY DEF BeginShutdown, StopScheduler, StopServer, Drain, Expired, Inv, JobsTypeOK
<1>6. ASSUME faults' = {}, app' = "background", NEW j \in Jobs, Local(j), ~Cron(j), row[j] = "running"
      PROVE  job[j].pc # "created"
  <2>1. CASE StopServer
    BY <1>4, <1>6, <2>1 DEF StopServer
  <2>2. CASE ~StopServer
    <3>1. app = "background"
      BY <1>6, <2>2 DEF BeginShutdown, StopScheduler, Drain, Expired
    <3> QED BY <1>1, <1>6, <3>1 DEF Inv, Manned
  <2> QED BY <2>1, <2>2
<1>7. Elsewhere
  BY <1>0, <1>1, <1>2, <1>3, <1>4, <1>5, <1>6 DEF Elsewhere
<1> QED BY <1>7, MasterMoves

-----------------------------------------------------------------------------
(* The process ends: whatever it still did is over.                         *)
LEMMA DownInv ==
  ASSUME Inv, Exit \/ Crash
  PROVE  Inv'
<1>0. /\ UNCHANGED <<record, object, copied, kind, source, row, applied, command,
                     cancelled, stopping, drained, late>>
      /\ app' = "down" /\ faults \subseteq faults' /\ faults' \subseteq Hazards /\ Killed
  BY DEF Exit, Crash, Fault, data, what, Inv, JobsTypeOK
<1>1. \A j \in Jobs : /\ job'[j] \in Stages /\ job'[j].pc \in {"idle", "over"}
                      /\ (job'[j].pc = "idle" <=> job[j].pc = "idle")
                      /\ handler'[j] = {}
                      /\ agent'[j] \in {agent[j], "logged", "complaint"}
                      /\ agent'[j] # agent[j] => agent[j] \in {"logging", "sent"}
  BY <1>0 DEF Killed, AfterLoss, Stages, Inv, JobsTypeOK
<1>2. \A j \in Jobs : /\ Chain(j)' = Chain(j) /\ (Whole(j)' <=> Whole(j))
                      /\ (Local(j)' <=> Local(j)) /\ (Cron(j)' <=> Cron(j))
  BY <1>0 DEF Chain, Needs, Local, Whole, Cron
<1>3. JobsTypeOK'
  <2>1. /\ job' \in [Jobs -> Stages]
        /\ handler' \in [Jobs -> SUBSET ({"running"} \cup Terminal)]
        /\ agent' \in [Jobs -> AgentStates]
    BY <1>0, <1>1 DEF Killed, AgentStates, Inv, JobsTypeOK
  <2> QED BY <1>0, <1>2, <2>1 DEF Inv, JobsTypeOK
<1>4. Unbegun'
  BY <1>0, <1>1 DEF Inv, Unbegun
<1>5. Remote'
  BY <1>0, <1>1, <1>2 DEF Inv, Remote
<1>6. Truthful' /\ Proper'
  BY <1>0, <1>1, <1>2 DEF Inv, Truthful, Proper
<1>7. Manned'
  <2>1. CASE Crash
    <3>1. faults' # {}
      BY <2>1 DEF Crash, Fault
    <3> QED BY <3>1 DEF Manned
  <2>2. CASE Exit
    <3>1. faults' = faults /\ app = "background" /\ (late \/ \A j \in Jobs : ~Accepted(j))
      BY <2>2 DEF Exit, Inv, Closing
    <3>2. faults = {} => ~late /\ \A j \in Jobs : Local(j) /\ ~Cron(j) => row[j] # "running"
      BY <3>1 DEF Inv, Manned
    <3> QED BY <1>0, <1>2, <3>1, <3>2 DEF Manned
  <2> QED BY <2>1, <2>2
<1>8. Closing'
  BY <1>0, <1>1 DEF Inv, Closing, Accepted
<1> QED BY <1>3, <1>4, <1>5, <1>6, <1>7, <1>8 DEF Inv

(* The next start closes what nobody works on.                              *)
LEMMA StartInv ==
  ASSUME Inv, StartUp
  PROVE  Inv'
<1>0. /\ UNCHANGED <<record, object, copied, kind, source, job, applied, command, agent, handler, faults>>
      /\ app = "down" /\ app' = "up" /\ ~cancelled' /\ ~stopping' /\ ~drained' /\ ~late'
      /\ cancelled' \in BOOLEAN /\ stopping' \in BOOLEAN /\ drained' \in BOOLEAN /\ late' \in BOOLEAN
      /\ \A j \in Jobs : row'[j] \in {row[j], "failed"} /\ (row[j] # "running" => row'[j] = row[j])
  BY DEF StartUp, data, what, remote
<1>1. \A j \in Jobs : /\ Chain(j)' = Chain(j) /\ (Whole(j)' <=> Whole(j)) /\ (Accepted(j)' <=> Accepted(j))
                      /\ (Local(j)' <=> Local(j)) /\ (Cron(j)' <=> Cron(j))
  BY <1>0 DEF Chain, Needs, Local, Whole, Accepted, Cron
<1>2. JobsTypeOK'
  <2>1. row' \in [Jobs -> {"none", "running"} \cup Terminal]
    BY DEF StartUp, Inv, JobsTypeOK, Terminal
  <2> QED BY <1>0, <1>1, <2>1 DEF Inv, JobsTypeOK
<1>3. Unbegun'
  BY <1>0 DEF Inv, Unbegun
<1>4. Remote' /\ Truthful'
  BY <1>0, <1>1 DEF Inv, Remote, Truthful
<1>5. Proper'
  BY <1>0, <1>1 DEF Inv, Proper
<1>6. Manned'
  BY <1>0, <1>1 DEF Inv, Manned
<1>7. Closing'
  BY <1>0 DEF Closing
<1> QED BY <1>2, <1>3, <1>4, <1>5, <1>6, <1>7 DEF Inv

-----------------------------------------------------------------------------
LEMMA JobsStep ==
  ASSUME Inv, [JobsNext]_jobVars
  PROVE  Inv'
<1>1. ASSUME NEW j \in Jobs, StartRestore(j) \/ StartVerification(j) \/ StartByTask(j) \/ StartReplication(j)
      PROVE  Inv'
  <2>1. PICK k \in Kinds, r \in Sources : Begin(j, k, r) /\ app \in {"up", "cron"}
    BY <1>1 DEF StartRestore, StartVerification, StartByTask, StartReplication, Serving, Kinds
  <2> QED BY <2>1, BeginInv
<1>2. ASSUME NEW j \in Jobs,
             MasterStep(j) \/ AgentStep(j) \/ GoFails(j) \/ WorkFails(j) \/ FinalizeFails(j)
             \/ DispatchFails(j) \/ ClaimLost(j) \/ AgentFails(j) \/ RequestLost(j) \/ ReportDropped(j)
             \/ AgentDies(j) \/ AgentStarts(j) \/ CutOff(j) \/ ExpireFails(j)
      PROVE  Inv'
  BY <1>2, JobInv, WorkInv, DispatchInv, RemoteInv DEF MasterStep, AgentStep
<1>3. ASSUME BeginShutdown \/ Shutdown \/ Expired \/ Crash PROVE Inv'
  <2>1. Expired => app # "down"
    BY DEF Expired
  <2> QED BY <1>3, <2>1, ShutdownInv, DownInv, StartInv DEF Shutdown
<1>4. CASE UNCHANGED jobVars
  BY <1>4 DEF jobVars, Inv, JobsTypeOK, Unbegun, Remote, Truthful, Manned, Closing, Proper,
              Whole, Chain, Needs, Accepted, Local, Cron
<1> QED BY <1>1, <1>2, <1>3, <1>4, DeleteInv DEF JobsNext

THEOREM JobsInv == JobsSpec => []Inv
<1> QED BY InvInit, JobsStep, PTL DEF JobsSpec

(* Types, and that what a job has worked on is a beginning of its chain:    *)
(* nothing, its first artifact, or all of it (the order of performRestore). *)
THEOREM JobsTyped == JobsSpec => []JobsTypeOK
<1>1. Inv => JobsTypeOK
  BY DEF Inv
<1> QED BY <1>1, JobsInv, PTL

(* Once Supervisor.Shutdown has returned nothing it accepted runs: Go and   *)
(* the beginning of the wait exclude each other, whatever else happens.     *)
THEOREM DrainedHolds == JobsSpec => []Drained
<1>1. Inv => Drained
  BY DEF Inv, Closing, Drained
<1> QED BY <1>1, JobsInv, PTL

(* A shutdown without faults leaves no running row of a local job.          *)
THEOREM CleanExitHolds == JobsSpec => []CleanExit
<1>1. Inv => CleanExit
  BY DEF Inv, Manned, CleanExit
<1> QED BY <1>1, JobsInv, PTL

(* The row of a restore, a verification or a replication is successful only *)
(* when what the backup needs was worked on as a whole, through deletions,  *)
(* cancellations, lost, late and dropped reports, dying Agents and crashes  *)
(* of the Master; an increment restored on another node, when it was.       *)
THEOREM HonestHolds == JobsSpec => []Honest
<1>1. ASSUME Inv PROVE Honest
  <2>1. ASSUME NEW j \in Jobs, row[j] = "success"
        PROVE  /\ applied[j] = IF Increment(j) THEN <<source[j]>> ELSE Needs(j)
               /\ kind[j] = "copy" => source[j] \in copied
    <3>1. Whole(j)
      BY <1>1, <2>1 DEF Inv, Proper
    <3>2. Chain(j) = IF Increment(j) THEN <<source[j]>> ELSE Needs(j)
      BY DEF Chain, Needs, Local, Increment
    <3> QED BY <3>1, <3>2 DEF Whole
  <2> QED BY <2>1 DEF Honest
<1> QED BY <1>1, JobsInv, PTL

=============================================================================
