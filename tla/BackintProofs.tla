----------------------------- MODULE BackintProofs -----------------------------
(* What backint tells HANA is true, for any number of processes, requests   *)
(* and failures.  An object is named once and written once, so that what a  *)
(* key of the catalog leads to is a whole backup, encoded as the key says   *)
(* (Good), and is there until HANA asks to delete it (Listed); what a call  *)
(* carries from one step to the next stays as good (CallOK).                *)
EXTENDS Backint, SequenceTheorems, TLAPS

USE BackintAssumption

Prefixes == {c.prefix : c \in Configs}
Keys == [ebid : EBIDs, prefix : Prefixes, gz : BOOLEAN]
Items == EBIDs \cup {All, "source"}
Calls == [fn : {"backup", "restore", "inquire", "delete"}, cfg : Configs, todo : Seq(Items),
          step : {"next", "put", "answer", "found", "entry"}, ebid : EBIDs \cup {Missing},
          key : Keys \cup {Missing}]
Lines == [word : {"saved", "backup", "notfound", "restored", "deleted"}, ebid : EBIDs,
          content : {"whole", "part", "garbled"}]
Stored == [key : Keys, encoded : BOOLEAN, content : {"whole", "part"}]

Typed ==
    /\ call \in [Processes -> Calls \cup {Missing}]
    /\ catalog \in [EBIDs -> Keys \cup {Missing}]
    /\ objects \subseteq Stored
    /\ lastEBID \in 0 .. MaxEBID
    /\ answers \subseteq Lines

(* What has this key is a backup, and readable as the key says.             *)
Good(k) ==
    /\ k \in Keys /\ k.ebid <= lastEBID
    /\ \A o \in objects : o.key = k => o.content = "whole" /\ o.encoded = k.gz
There(k) == \E o \in objects : o.key = k

Listed ==
    /\ \A o \in objects : o.key.ebid <= lastEBID
    /\ \A e \in EBIDs : catalog[e] # Missing =>
         /\ Good(catalog[e]) /\ catalog[e].ebid = e
         /\ e \notin released => There(catalog[e])

(* Nobody has heard of an id before it is in the catalog.                   *)
Told ==
    /\ \A l \in answers :
         /\ l.ebid <= lastEBID
         /\ catalog[l.ebid] # Missing \/ l.ebid \in released
         /\ l.word = "notfound" => l.ebid \in released
         /\ l.word = "restored" => l.content = "whole"
         /\ l.word = "deleted" => catalog[l.ebid] = Missing
    /\ released \subseteq Known

Putting(c) == c.fn = "backup" /\ c.step = "put"

CallOK(c) ==
    /\ \A i \in 1 .. Len(c.todo) :
         /\ c.fn \in {"restore", "delete"} => c.todo[i] \in Known
         /\ c.fn = "inquire" => c.todo[i] \in Known \cup {All}
         /\ c.fn = "delete" => c.todo[i] \in released
    /\ c.step # "next" => c.todo # <<>>
    /\ Putting(c) =>
         /\ c.ebid \in EBIDs /\ Good(c.key) /\ c.key.ebid = c.ebid /\ There(c.key)
         /\ catalog[c.ebid] = Missing /\ c.ebid \notin Known
    /\ c.fn = "backup" /\ c.step = "answer" =>
         /\ c.ebid \in EBIDs /\ c.ebid <= lastEBID
         /\ catalog[c.ebid] # Missing \/ c.ebid \in released
    /\ c.fn = "restore" /\ c.step = "found" => c.ebid \in Known /\ Good(c.key)
    /\ c.fn = "delete" /\ c.step \in {"found", "entry"} =>
         c.ebid \in released /\ c.key \in Keys /\ c.key.ebid = c.ebid

Working ==
    /\ \A p \in Processes : call[p] # Missing => CallOK(call[p])
    /\ \A p, q \in Processes :
         call[p] # Missing /\ call[q] # Missing /\ Putting(call[p]) /\ Putting(call[q])
           /\ call[p].ebid = call[q].ebid => p = q

Inv == Typed /\ Listed /\ Told /\ Working

-----------------------------------------------------------------------------
LEMMA InvInit == BackintInit => Inv
<1> SUFFICES ASSUME BackintInit PROVE Inv
  OBVIOUS
<1>1. Typed
  BY DEF BackintInit, Typed
<1>2. Listed /\ Told /\ Working
  BY DEF BackintInit, Listed, Told, Working, Known
<1> QED BY <1>1, <1>2 DEF Inv

LEMMA KnownType == Typed => Known \subseteq EBIDs
BY DEF Typed, Known, Lines

-----------------------------------------------------------------------------
(* The other calls are not disturbed.                                       *)
LEMMA WorkingKept ==
  ASSUME Inv, NEW p \in Processes, NEW c \in Calls \cup {Missing}, call' = [call EXCEPT ![p] = c],
         \A d \in Calls : CallOK(d) /\ (\E q \in Processes : q # p /\ call[q] # Missing /\ call[q] = d) => CallOK(d)',
         c # Missing => CallOK(c)',
         c # Missing /\ Putting(c) => \A q \in Processes :
           q # p /\ call[q] # Missing /\ Putting(call[q]) => call[q].ebid # c.ebid
  PROVE  Working'
<1>1. call'[p] = c /\ \A q \in Processes : q # p => call'[q] = call[q]
  BY DEF Inv, Typed
<1>2. \A q \in Processes : call'[q] # Missing => CallOK(call[q])'
  <2>1. ASSUME NEW q \in Processes, q # p, call'[q] # Missing PROVE CallOK(call[q])'
    <3>1. call'[q] = call[q] /\ call[q] \in Calls /\ CallOK(call[q])
      BY <1>1, <2>1 DEF Inv, Typed, Working
    <3>2. PICK d \in Calls : d = call[q]
      BY <3>1
    <3>3. CallOK(d)'
      BY <2>1, <3>1, <3>2
    <3> QED BY <3>1, <3>2, <3>3 DEF CallOK, Putting
  <2>2. c # Missing => CallOK(call[p])'
    BY <1>1 DEF CallOK, Putting
  <2> QED BY <1>1, <2>1, <2>2
<1>3. \A q, r \in Processes :
        call'[q] # Missing /\ call'[r] # Missing /\ Putting(call[q])' /\ Putting(call[r])'
          /\ call'[q].ebid = call'[r].ebid => q = r
  <2>1. \A q, r \in Processes :
          q # p /\ r # p /\ call'[q] # Missing /\ call'[r] # Missing /\ Putting(call[q])' /\ Putting(call[r])'
            /\ call'[q].ebid = call'[r].ebid => q = r
    BY <1>1 DEF Inv, Working, Putting
  <2>2. \A q \in Processes :
          q # p /\ call'[q] # Missing /\ call'[p] # Missing /\ Putting(call[q])' /\ Putting(call[p])'
            => call'[q].ebid # call'[p].ebid
    BY <1>1 DEF Putting
  <2> QED BY <2>1, <2>2
<1> QED BY <1>2, <1>3 DEF Working

Fair(lines) ==
    \A l \in lines :
      /\ l.ebid <= lastEBID
      /\ catalog[l.ebid] # Missing \/ l.ebid \in released
      /\ l.word = "notfound" => l.ebid \in released
      /\ l.word = "restored" => l.content = "whole"
      /\ l.word # "deleted"

(* A step of one call that leaves the catalog and the storage alone: what   *)
(* it adds to the answers is about an entry of the catalog or one that HANA *)
(* has released.                                                            *)
Calm(p, c, lines) ==
    /\ call' = [call EXCEPT ![p] = c]
    /\ UNCHANGED <<catalog, objects, lastEBID>>
    /\ answers' = answers \cup lines
    /\ Fair(lines)
    /\ released \subseteq released' /\ released' \subseteq released \cup Known
    /\ c # Missing => ~Putting(c) /\ CallOK(c)'

LEMMA CalmInv ==
  ASSUME Inv, NEW p \in Processes, NEW c \in Calls \cup {Missing}, NEW lines \in SUBSET Lines,
         Calm(p, c, lines)
  PROVE  Inv'
<1>1. Typed'
  BY DEF Calm, Inv, Typed
<1>2. Known' = Known \cup {l.ebid : l \in lines}
  BY DEF Calm, Known
<1>3. \A k : (Good(k)' <=> Good(k)) /\ (There(k)' <=> There(k))
  BY DEF Calm, Good, There
<1>4. Listed'
  BY <1>3 DEF Calm, Inv, Listed
<1>5. Told'
  BY <1>2 DEF Calm, Inv, Told, Fair
<1>6. ASSUME NEW d \in Calls, CallOK(d) PROVE CallOK(d)'
  <2>1. ASSUME Putting(d) PROVE d.ebid \notin Known'
    <3>1. d.ebid \in EBIDs /\ catalog[d.ebid] = Missing /\ d.ebid \notin Known
      BY <1>6, <2>1 DEF CallOK
    <3>2. d.ebid \notin released
      BY <3>1 DEF Inv, Told
    <3> QED BY <1>2, <3>1, <3>2 DEF Calm, Fair
  <2>2. Known \subseteq Known' /\ released \subseteq released'
    BY <1>2 DEF Calm
  <2> QED BY <1>3, <1>6, <2>1, <2>2 DEF Calm, CallOK, Putting
<1>7. Working'
  <2>1. \A d \in Calls : CallOK(d) /\ (\E q \in Processes : q # p /\ call[q] # Missing /\ call[q] = d) => CallOK(d)'
    BY <1>6
  <2>2. call' = [call EXCEPT ![p] = c] /\ (c # Missing => ~Putting(c) /\ CallOK(c)')
    BY DEF Calm
  <2> QED BY <2>1, <2>2, WorkingKept
<1> QED BY <1>1, <1>4, <1>5, <1>7 DEF Inv

-----------------------------------------------------------------------------
(* A request is over, and the call looks at the next one.                   *)
Nexted(c) == [c EXCEPT !.step = "next", !.todo = Tail(c.todo), !.ebid = Missing, !.key = Missing]

LEMMA NextCall ==
  ASSUME NEW c \in Calls, c.todo # <<>>
  PROVE  /\ Nexted(c) \in Calls /\ Nexted(c).step = "next" /\ Nexted(c).fn = c.fn
         /\ Nexted(c).todo = Tail(c.todo)
         /\ \A i \in 1 .. Len(Tail(c.todo)) : i + 1 \in 1 .. Len(c.todo) /\ Tail(c.todo)[i] = c.todo[i + 1]
<1>1. c.todo \in Seq(Items)
  BY DEF Calls
<1>2. Tail(c.todo) \in Seq(Items)
  BY <1>1
<1>3. \A i \in 1 .. Len(Tail(c.todo)) : i + 1 \in 1 .. Len(c.todo) /\ Tail(c.todo)[i] = c.todo[i + 1]
  BY <1>1
<1> DEFINE t == Tail(c.todo)
<1> HIDE DEF t
<1>4. [c EXCEPT !.step = "next", !.todo = t, !.ebid = Missing, !.key = Missing] \in Calls
  BY <1>2 DEF Calls, t
<1>5. LET d == [c EXCEPT !.step = "next", !.todo = t, !.ebid = Missing, !.key = Missing] IN
      d.step = "next" /\ d.fn = c.fn /\ d.todo = t
  BY DEF Calls
<1> QED BY <1>3, <1>4, <1>5 DEF Nexted, t

LEMMA NextOK ==
  ASSUME NEW c \in Calls, CallOK(c), c.todo # <<>>, Known \subseteq Known', released \subseteq released'
  PROVE  ~Putting(Nexted(c)) /\ CallOK(Nexted(c))'
<1> DEFINE d == Nexted(c)
<1>1. /\ d.step = "next" /\ d.fn = c.fn /\ d.todo = Tail(c.todo)
      /\ \A i \in 1 .. Len(Tail(c.todo)) : i + 1 \in 1 .. Len(c.todo) /\ Tail(c.todo)[i] = c.todo[i + 1]
  BY NextCall
<1> HIDE DEF d
<1>2. \A i \in 1 .. Len(d.todo) :
        /\ d.fn \in {"restore", "delete"} => d.todo[i] \in Known'
        /\ d.fn = "inquire" => d.todo[i] \in Known' \cup {All}
        /\ d.fn = "delete" => d.todo[i] \in released'
  BY <1>1 DEF CallOK
<1>3. ~Putting(d) /\ CallOK(d)'
  BY <1>1, <1>2 DEF CallOK, Putting
<1> QED BY <1>3 DEF d

(* The step that ends a request is calm, if its lines are.                  *)
LEMMA NextInv ==
  ASSUME Inv, NEW p \in Processes, NEW lines \in SUBSET Lines,
         call[p] # Missing, call[p].todo # <<>>, NextRequest(p),
         UNCHANGED <<catalog, objects, lastEBID>>, answers' = answers \cup lines, Fair(lines)
  PROVE  Inv'
<1>1. PICK c \in Calls : c = call[p] /\ CallOK(c)
  BY DEF Inv, Typed, Working
<1>2. call' = [call EXCEPT ![p] = Nexted(c)] /\ UNCHANGED released /\ Known \subseteq Known'
  BY <1>1 DEF NextRequest, Nexted, Known
<1>3. Nexted(c) \in Calls /\ ~Putting(Nexted(c)) /\ CallOK(Nexted(c))'
  BY <1>1, <1>2, NextCall, NextOK
<1>4. Calm(p, Nexted(c), lines)
  BY <1>2, <1>3 DEF Calm
<1> QED BY <1>3, <1>4, CalmInv

-----------------------------------------------------------------------------
(* A call begins or is over.                                                *)
LEMMA StartInv ==
  ASSUME Inv, NEW p \in Processes, NEW fn \in {"backup", "restore", "inquire", "delete"},
         NEW batch \in Seq(Items), NEW cfg \in Configs, StartCall(p, fn, batch, cfg),
         \A i \in 1 .. Len(batch) :
           /\ fn \in {"restore", "delete"} => batch[i] \in Known
           /\ fn = "inquire" => batch[i] \in Known \cup {All}
  PROVE  Inv'
<1> DEFINE c == [fn |-> fn, cfg |-> cfg, todo |-> batch, step |-> "next", ebid |-> Missing, key |-> Missing]
<1>1. c \in Calls /\ c.fn = fn /\ c.step = "next" /\ c.todo = batch
  BY DEF Calls
<1>2. /\ call' = [call EXCEPT ![p] = c] /\ UNCHANGED <<catalog, objects, lastEBID, answers>>
      /\ released' = IF fn = "delete" THEN released \cup {batch[i] : i \in 1 .. Len(batch)} ELSE released
  <2>1. DOMAIN batch = 1 .. Len(batch)
    OBVIOUS
  <2> QED BY <2>1 DEF StartCall
<1> HIDE DEF c
<1>3. Known' = Known
  BY <1>2 DEF Known
<1>4. released \subseteq released' /\ released' \subseteq released \cup Known
  BY <1>2
<1>5. \A i \in 1 .. Len(batch) : fn = "delete" => batch[i] \in released'
  BY <1>2
<1>6. ~Putting(c) /\ CallOK(c)'
  <2>1. PICK f \in Calls : f = c
    BY <1>1
  <2>2. \A i \in 1 .. Len(f.todo) :
          /\ f.fn \in {"restore", "delete"} => f.todo[i] \in Known'
          /\ f.fn = "inquire" => f.todo[i] \in Known' \cup {All}
          /\ f.fn = "delete" => f.todo[i] \in released'
    BY <1>1, <1>3, <1>5, <2>1
  <2>3. ~Putting(f) /\ CallOK(f)'
    BY <1>1, <2>1, <2>2 DEF CallOK, Putting
  <2>4. c' = c
    BY DEF c
  <2> QED BY <2>1, <2>3, <2>4 DEF CallOK, Putting
<1>7. Calm(p, c, {})
  BY <1>2, <1>4, <1>6 DEF Calm, Fair
<1> QED BY <1>1, <1>7, CalmInv

LEMMA EndInv ==
  ASSUME Inv, NEW p \in Processes, EndCall(p) \/ Die(p)
  PROVE  Inv'
<1>1. Calm(p, Missing, {})
  BY DEF EndCall, Die, Calm, Fair
<1> QED BY <1>1, CalmInv

(* A request that ends without a change of the storage.                     *)
LEMMA AnswerInv ==
  ASSUME Inv, NEW p \in Processes, FailRequest(p) \/ AnswerSaved(p) \/ Inquire(p) \/ Restore(p)
  PROVE  Inv'
<1> DEFINE c == call[p]
<1>0. c \in Calls /\ CallOK(c) /\ c # Missing /\ UNCHANGED <<catalog, objects, lastEBID>> /\ NextRequest(p)
  BY DEF FailRequest, AnswerSaved, Inquire, Restore, Errored, Answered, At, InRequest, Inv, Typed, Working
<1>1. c.todo # <<>>
  BY <1>0 DEF FailRequest, AnswerSaved, Inquire, Restore, At, InRequest, CallOK
<1>2. CASE UNCHANGED answers
  <2>1. answers' = answers \cup {} /\ Fair({}) /\ {} \in SUBSET Lines
    BY <1>2 DEF Fair
  <2> QED BY <1>0, <1>1, <2>1, NextInv
<1>3. CASE AnswerSaved(p)
  <2> DEFINE l == Line("saved", c.ebid, "whole")
  <2>1. c.fn = "backup" /\ c.step = "answer" /\ answers' = answers \cup {l}
    BY <1>3 DEF AnswerSaved, At, Answered
  <2>2. c.ebid \in EBIDs /\ c.ebid <= lastEBID /\ (catalog[c.ebid] # Missing \/ c.ebid \in released)
    BY <1>0, <2>1 DEF CallOK
  <2>3. l \in Lines /\ l.word = "saved" /\ l.ebid = c.ebid
    BY <2>2 DEF Line, Lines
  <2> HIDE DEF l
  <2>4. Fair({l}) /\ {l} \in SUBSET Lines
    BY <2>2, <2>3 DEF Fair
  <2> QED BY <1>0, <1>1, <2>1, <2>4, NextInv
<1>4. CASE Inquire(p)
  <2> DEFINE e == Head(c.todo)
  <2>1. e \in Known \cup {All} /\ c.fn = "inquire"
    <3>1. c.fn = "inquire" /\ c.todo \in Seq(Items)
      BY <1>0, <1>4 DEF Inquire, InRequest, At, Calls
    <3>2. 1 \in 1 .. Len(c.todo) /\ Head(c.todo) = c.todo[1]
      BY <1>1, <3>1
    <3> QED BY <1>0, <3>1, <3>2 DEF CallOK
  <2>2. CASE e = All
    <3> DEFINE lines == {Line("backup", d, "whole") : d \in {d \in EBIDs : catalog[d] # Missing}}
    <3>1. answers' = answers \cup lines
      BY <1>4, <2>2 DEF Inquire
    <3>2. \A l \in lines : l \in Lines /\ l.word = "backup" /\ l.ebid \in EBIDs /\ catalog[l.ebid] # Missing
      BY DEF Line, Lines
    <3>3. \A d \in EBIDs : catalog[d] # Missing => d <= lastEBID
      BY DEF Inv, Listed, Good
    <3> HIDE DEF lines
    <3>4. lines \in SUBSET Lines
      BY <3>2
    <3>5. Fair(lines)
      BY <3>2, <3>3 DEF Fair
    <3> QED BY <1>0, <1>1, <3>1, <3>4, <3>5, NextInv
  <2>3. CASE e # All
    <3> DEFINE w == IF catalog[e] = Missing THEN "notfound" ELSE "backup"
               l == Line(w, e, "whole")
    <3>1. answers' = answers \cup {l}
      BY <1>4, <2>3 DEF Inquire, Answered
    <3>2. e \in EBIDs /\ e <= lastEBID /\ (catalog[e] # Missing \/ e \in released)
      BY <2>1, <2>3, KnownType DEF Inv, Told, Known
    <3>3. l \in Lines /\ l.word = w /\ l.ebid = e
      BY <3>2 DEF Line, Lines
    <3>4. (w = "notfound" => e \in released) /\ w \in {"notfound", "backup"}
      BY <3>2
    <3> HIDE DEF l, w, e
    <3>5. Fair({l}) /\ {l} \in SUBSET Lines
      BY <3>2, <3>3, <3>4 DEF Fair
    <3> QED BY <1>0, <1>1, <3>1, <3>5, NextInv
  <2> QED BY <2>2, <2>3
<1>5. CASE Restore(p) /\ answers' # answers
  <2>1. PICK o \in objects : o.key = c.key /\ answers' = answers \cup {Line("restored", c.ebid, Content(o))}
    BY <1>5 DEF Restore, Answered, Errored
  <2>2. c.ebid \in Known /\ Good(c.key)
    BY <1>0, <1>5 DEF Restore, At, CallOK
  <2>3. Content(o) = "whole"
    BY <2>1, <2>2 DEF Good, Content
  <2> DEFINE l == Line("restored", c.ebid, "whole")
  <2>4. c.ebid \in EBIDs /\ c.ebid <= lastEBID /\ (catalog[c.ebid] # Missing \/ c.ebid \in released)
    BY <2>2, KnownType DEF Inv, Told, Known
  <2>5. l \in Lines /\ l.word = "restored" /\ l.ebid = c.ebid /\ l.content = "whole"
    BY <2>4 DEF Line, Lines
  <2>6. answers' = answers \cup {l}
    BY <2>1, <2>3
  <2> HIDE DEF l
  <2>7. Fair({l}) /\ {l} \in SUBSET Lines
    BY <2>4, <2>5 DEF Fair
  <2> QED BY <1>0, <1>1, <2>6, <2>7, NextInv
<1> QED BY <1>2, <1>3, <1>4, <1>5 DEF FailRequest, Errored

-----------------------------------------------------------------------------
(* A request goes on to its next step.                                      *)
Stepped(c, step, e, key) == [c EXCEPT !.step = step, !.ebid = e, !.key = key]

LEMMA StepCall ==
  ASSUME NEW c \in Calls, NEW step \in {"put", "answer", "found", "entry"}, NEW e \in EBIDs, NEW k \in Keys
  PROVE  LET d == Stepped(c, step, e, k) IN
         /\ d \in Calls /\ d.step = step /\ d.fn = c.fn /\ d.todo = c.todo /\ d.ebid = e /\ d.key = k
BY DEF Calls, Stepped

LEMMA LookupInv ==
  ASSUME Inv, NEW p \in Processes, Lookup(p)
  PROVE  Inv'
<1>1. PICK c \in Calls : c = call[p] /\ CallOK(c)
  BY DEF Lookup, InRequest, At, Inv, Typed, Working
<1>2. /\ call[p] # Missing /\ c.fn \in {"restore", "delete"} /\ c.todo # <<>>
      /\ UNCHANGED <<catalog, objects, lastEBID, answers, released>>
  BY <1>1 DEF Lookup, InRequest, At, Errored, NextRequest, Step
<1> DEFINE e == Head(c.todo)
<1>3. /\ e \in Known /\ e \in EBIDs /\ (c.fn = "delete" => e \in released)
  <2>1. c.todo \in Seq(Items)
    BY DEF Calls
  <2>2. 1 \in 1 .. Len(c.todo) /\ Head(c.todo) = c.todo[1]
    BY <1>2, <2>1
  <2> QED BY <1>1, <1>2, <2>2, KnownType DEF CallOK, Inv
<1> HIDE DEF e
<1>4. CASE catalog[e] = Missing
  <2>1. NextRequest(p)
    BY <1>1, <1>4 DEF Lookup, Errored, e
  <2>2. answers' = answers \cup {} /\ Fair({}) /\ {} \in SUBSET Lines
    BY <1>2 DEF Fair
  <2> QED BY <1>1, <1>2, <2>1, <2>2, NextInv
<1>5. CASE catalog[e] # Missing
  <2>1. PICK k \in Keys : k = catalog[e] /\ Good(k) /\ k.ebid = e
    BY <1>3, <1>5 DEF Inv, Typed, Listed
  <2> DEFINE d == Stepped(c, "found", e, k)
  <2>2. call' = [call EXCEPT ![p] = d]
    BY <1>1, <1>5, <2>1 DEF Lookup, Step, Stepped, e
  <2>3. d \in Calls /\ d.step = "found" /\ d.fn = c.fn /\ d.todo = c.todo /\ d.ebid = e /\ d.key = k
    BY <1>3, StepCall
  <2> HIDE DEF d
  <2>4. PICK f \in Calls : f = d
    BY <2>3
  <2>5. Known' = Known /\ (Good(k)' <=> Good(k))
    BY <1>2 DEF Known, Good
  <2>6. ~Putting(f) /\ CallOK(f)'
    BY <1>1, <1>2, <1>3, <2>1, <2>3, <2>4, <2>5 DEF CallOK, Putting
  <2>7. Calm(p, f, {})
    BY <1>2, <2>2, <2>4, <2>6 DEF Calm, Fair
  <2> QED BY <2>7, CalmInv
<1> QED BY <1>4, <1>5

-----------------------------------------------------------------------------
(* An upload: nobody knows the id or has its key.                           *)
Uploads(o) ==
    /\ o \in Stored /\ o.key.ebid = lastEBID + 1
    /\ lastEBID < MaxEBID /\ lastEBID' = lastEBID + 1
    /\ objects' \in {objects, objects \cup {o}}
    /\ UNCHANGED <<catalog, answers, released>>

LEMMA UploadKeeps ==
  ASSUME Inv, NEW o, Uploads(o)
  PROVE  /\ Listed' /\ Told' /\ Known' = Known
         /\ lastEBID \in Nat /\ lastEBID' \in 0 .. MaxEBID /\ objects' \subseteq Stored
         /\ \A c \in Calls : CallOK(c) => CallOK(c)'
         /\ catalog[lastEBID + 1] = Missing /\ lastEBID + 1 \notin Known /\ lastEBID + 1 \in EBIDs
<1>1. /\ lastEBID \in Nat /\ lastEBID' \in 0 .. MaxEBID /\ objects' \subseteq Stored
      /\ Known' = Known /\ lastEBID + 1 \in EBIDs
  BY DEF Uploads, Inv, Typed, Known, EBIDs
<1>2. \A k \in Keys : (Good(k) => Good(k)') /\ (There(k) => There(k)')
  BY <1>1 DEF Uploads, Good, There, Keys, EBIDs
<1>3. \A e \in EBIDs : catalog[e] # Missing => catalog[e] \in Keys
  BY DEF Inv, Typed
<1>4. Listed'
  <2>1. \A x \in objects' : x.key.ebid <= lastEBID'
    BY <1>1 DEF Uploads, Inv, Listed, Typed, Stored, Keys, EBIDs
  <2>2. \A e \in EBIDs : catalog'[e] # Missing =>
          /\ Good(catalog[e])' /\ catalog'[e].ebid = e
          /\ e \notin released' => There(catalog[e])'
    <3>1. ASSUME NEW e \in EBIDs, catalog[e] # Missing
          PROVE  /\ Good(catalog[e])' /\ catalog[e].ebid = e /\ (e \notin released => There(catalog[e])')
      <4>1. PICK k \in Keys : k = catalog[e] /\ k = catalog'[e]
        BY <1>3, <3>1 DEF Uploads
      <4>2. Good(k)' /\ k.ebid = e /\ (e \notin released => There(k)')
        BY <1>2, <3>1, <4>1 DEF Inv, Listed
      <4> QED BY <4>1, <4>2 DEF Good, There
    <3> QED BY <3>1 DEF Uploads
  <2> QED BY <2>1, <2>2 DEF Listed
<1>5. Told'
  <2>1. \A l \in answers : l.ebid <= lastEBID'
    BY <1>1 DEF Uploads, Inv, Told, Typed, Lines, EBIDs
  <2> QED BY <1>1, <2>1 DEF Uploads, Inv, Told
<1>6. ASSUME NEW c \in Calls, CallOK(c) PROVE CallOK(c)'
  <2>1. Putting(c) => Good(c.key)' /\ There(c.key)'
    BY <1>2, <1>6 DEF CallOK, Good
  <2>2. c.fn = "restore" /\ c.step = "found" => Good(c.key)'
    BY <1>2, <1>6 DEF CallOK, Good
  <2>3. c.ebid \in EBIDs /\ c.ebid <= lastEBID => c.ebid <= lastEBID'
    BY <1>1 DEF Uploads, EBIDs
  <2> QED BY <1>1, <1>6, <2>1, <2>2, <2>3 DEF Uploads, CallOK, Putting
<1>7. catalog[lastEBID + 1] = Missing /\ lastEBID + 1 \notin Known
  BY <1>1 DEF Inv, Listed, Told, Good, Known
<1> QED BY <1>1, <1>4, <1>5, <1>6, <1>7

LEMMA UploadInv ==
  ASSUME Inv, NEW p \in Processes, Upload(p) \/ FailUpload(p)
  PROVE  Inv'
<1>1. PICK c \in Calls : c = call[p] /\ CallOK(c)
  BY DEF Upload, FailUpload, Uploading, InRequest, At, Inv, Typed, Working
<1>2. /\ call[p] # Missing /\ c.fn = "backup" /\ c.todo # <<>>
  BY <1>1 DEF Upload, FailUpload, Uploading, InRequest, At
<1>3. PICK k \in Keys : /\ k = UploadKey(p) /\ k.ebid = lastEBID + 1
                        /\ k.gz = c.cfg.compress /\ c.cfg.compress \in BOOLEAN
  <2>1. c.cfg \in Configs /\ c.cfg.prefix \in Prefixes /\ c.cfg.compress \in BOOLEAN
    BY DEF Calls, Prefixes
  <2>2. lastEBID + 1 \in EBIDs
    BY DEF Upload, FailUpload, Uploading, Inv, Typed, EBIDs
  <2> DEFINE x == UploadKey(p)
  <2>3. x \in Keys /\ x.ebid = lastEBID + 1 /\ x.gz = c.cfg.compress
    BY <1>1, <2>1, <2>2 DEF UploadKey, objectKeyFor, Keys
  <2> HIDE DEF x
  <2> QED BY <2>1, <2>3 DEF x
<1>4. PICK o \in Stored :
        /\ o.key = k /\ o.encoded = k.gz /\ Uploads(o)
        /\ Upload(p) => o.content = "whole" /\ objects' = objects \cup {o}
  <2>1. \A x \in {"whole", "part"} : LET o == Object(k, c.cfg.compress, x) IN
          o \in Stored /\ o.key = k /\ o.encoded = k.gz /\ o.content = x
    BY <1>3 DEF Object, Stored
  <2>2. CASE Upload(p)
    BY <1>1, <1>3, <2>1, <2>2 DEF Upload, Uploading, Step, Uploads
  <2>3. CASE FailUpload(p) /\ ~Upload(p)
    BY <1>1, <1>3, <2>1, <2>3 DEF FailUpload, Uploading, Errored, NextRequest, Uploads
  <2> QED BY <2>2, <2>3
<1>5. /\ Listed' /\ Told' /\ Known' = Known
      /\ lastEBID \in Nat /\ lastEBID' \in 0 .. MaxEBID /\ objects' \subseteq Stored
      /\ \A d \in Calls : CallOK(d) => CallOK(d)'
      /\ catalog[lastEBID + 1] = Missing /\ lastEBID + 1 \notin Known /\ lastEBID + 1 \in EBIDs
  BY <1>4, UploadKeeps
<1>6. lastEBID' = lastEBID + 1 /\ UNCHANGED <<catalog, answers, released>>
  BY <1>4 DEF Uploads
<1>7. PICK f \in Calls : /\ call' = [call EXCEPT ![p] = f] /\ CallOK(f)'
                         /\ Putting(f) => f.ebid = lastEBID + 1
  <2>1. CASE Upload(p)
    <3> DEFINE d == Stepped(c, "put", lastEBID + 1, k)
    <3>1. call' = [call EXCEPT ![p] = d]
      BY <1>1, <1>3, <2>1 DEF Upload, Step, Stepped
    <3>2. d \in Calls /\ d.step = "put" /\ d.fn = "backup" /\ d.todo = c.todo /\ d.ebid = lastEBID + 1 /\ d.key = k
      BY <1>2, <1>5, StepCall
    <3> HIDE DEF d
    <3>3. PICK f \in Calls : f = d
      BY <3>2
    <3>4. Good(k)' /\ There(k)'
      <4>1. objects' = objects \cup {o} /\ o.content = "whole"
        BY <1>4, <2>1
      <4>2. \A y \in objects : y.key # k
        BY <1>3, <1>5 DEF Inv, Listed
      <4>3. \A y \in objects' : y.key = k => y = o
        BY <4>1, <4>2
      <4>4. Good(k)'
        BY <1>3, <1>4, <1>5, <1>6, <4>1, <4>3 DEF Good
      <4>5. There(k)'
        BY <1>4, <4>1 DEF There
      <4> QED BY <4>4, <4>5
    <3>5. CallOK(f)'
      BY <1>2, <1>3, <1>5, <1>6, <3>2, <3>3, <3>4 DEF CallOK, Putting
    <3> QED BY <3>1, <3>2, <3>3, <3>5
  <2>2. CASE FailUpload(p)
    <3>1. call' = [call EXCEPT ![p] = Nexted(c)]
      BY <1>1, <2>2 DEF FailUpload, Errored, NextRequest, Nexted
    <3>2. Nexted(c) \in Calls /\ ~Putting(Nexted(c)) /\ CallOK(Nexted(c))'
      BY <1>1, <1>2, <1>5, <1>6, NextCall, NextOK
    <3> QED BY <3>1, <3>2
  <2> QED BY <2>1, <2>2
<1>8. Typed'
  BY <1>5, <1>6, <1>7 DEF Inv, Typed
<1>9. Working'
  <2>1. Putting(f) => \A q \in Processes : q # p /\ call[q] # Missing /\ Putting(call[q]) => call[q].ebid # f.ebid
    <3>1. \A q \in Processes : call[q] # Missing /\ Putting(call[q]) => call[q].ebid <= lastEBID
      BY DEF Inv, Working, CallOK, Good
    <3> QED BY <1>5, <1>7, <3>1
  <2> QED BY <1>5, <1>7, <2>1, WorkingKept
<1> QED BY <1>5, <1>8, <1>9 DEF Inv

-----------------------------------------------------------------------------
(* The entry of an uploaded backup is put into the catalog.                 *)
LEMMA PutInv ==
  ASSUME Inv, NEW p \in Processes, PutEntry(p)
  PROVE  Inv'
<1>1. PICK c \in Calls : c = call[p] /\ CallOK(c)
  BY DEF PutEntry, At, Inv, Typed, Working
<1>2. /\ call[p] # Missing /\ Putting(c) /\ c.fn = "backup" /\ c.step = "put"
      /\ UNCHANGED <<objects, lastEBID, answers, released>>
      /\ catalog' = [catalog EXCEPT ![c.ebid] = c.key]
  BY <1>1 DEF PutEntry, At, Putting, Step
<1>3. PICK e \in EBIDs, k \in Keys :
        /\ e = c.ebid /\ k = c.key /\ Good(k) /\ k.ebid = e /\ There(k) /\ catalog[e] = Missing /\ e \notin Known
  BY <1>1, <1>2 DEF CallOK, Good
<1>4. /\ catalog' \in [EBIDs -> Keys \cup {Missing}] /\ catalog'[e] = k
      /\ \A d \in EBIDs : d # e => catalog'[d] = catalog[d]
  BY <1>2, <1>3 DEF Inv, Typed
<1>5. Known' = Known /\ \A x : (Good(x)' <=> Good(x)) /\ (There(x)' <=> There(x))
  BY <1>2 DEF Known, Good, There
<1>6. k # Missing /\ e <= lastEBID
  BY <1>3 DEF Keys, Prefixes, EBIDs, Good
<1>7. PICK f \in Calls : call' = [call EXCEPT ![p] = f] /\ f.step = "answer" /\ f.fn = "backup" /\ f.todo = c.todo /\ f.ebid = e
  <2> DEFINE d == Stepped(c, "answer", e, k)
  <2>1. call' = [call EXCEPT ![p] = d]
    BY <1>1, <1>2, <1>3 DEF PutEntry, Step, Stepped
  <2>2. d \in Calls /\ d.step = "answer" /\ d.fn = c.fn /\ d.todo = c.todo /\ d.ebid = e
    BY StepCall
  <2> HIDE DEF d
  <2> QED BY <1>2, <2>1, <2>2
<1>8. Typed'
  BY <1>2, <1>4, <1>7 DEF Inv, Typed
<1>9. Listed'
  BY <1>2, <1>3, <1>4, <1>5 DEF Inv, Listed
<1>10. Told'
  <2>1. \A l \in answers : l.ebid \in EBIDs /\ l.ebid # e
    BY <1>3 DEF Inv, Typed, Lines, Known
  <2> QED BY <1>2, <1>4, <1>5, <2>1 DEF Inv, Told
<1>11. Working'
  <2>1. ASSUME NEW d \in Calls, CallOK(d), \E q \in Processes : q # p /\ call[q] # Missing /\ call[q] = d PROVE CallOK(d)'
    <3>1. Putting(d) => d.ebid # e
      BY <1>1, <1>2, <1>3, <2>1 DEF Inv, Working
    <3>2. d.fn = "backup" /\ d.step = "answer" => catalog'[d.ebid] # Missing \/ d.ebid \in released
      BY <1>4, <1>6, <2>1 DEF CallOK
    <3> QED BY <1>2, <1>4, <1>5, <2>1, <3>1, <3>2 DEF CallOK, Putting
  <2>2. CallOK(f)' /\ ~Putting(f)
    BY <1>1, <1>2, <1>3, <1>4, <1>5, <1>6, <1>7 DEF CallOK, Putting
  <2> QED BY <1>7, <2>1, <2>2, WorkingKept
<1> QED BY <1>8, <1>9, <1>10, <1>11 DEF Inv

-----------------------------------------------------------------------------
(* A backup that HANA has released is deleted: first its object.            *)
LEMMA DeleteObjectInv ==
  ASSUME Inv, NEW p \in Processes, DeleteObject(p)
  PROVE  Inv'
<1>1. PICK c \in Calls : c = call[p] /\ CallOK(c)
  BY DEF DeleteObject, At, Inv, Typed, Working
<1>2. /\ call[p] # Missing /\ c.fn = "delete" /\ c.step = "found"
      /\ UNCHANGED <<catalog, lastEBID, answers, released>>
      /\ objects' = objects \/ objects' = {o \in objects : o.key # c.key}
  BY <1>1 DEF DeleteObject, At, Step
<1>3. PICK e \in EBIDs, k \in Keys : e = c.ebid /\ k = c.key /\ k.ebid = e /\ e \in released
  BY <1>1, <1>2, KnownType DEF CallOK, Inv, Told
<1>4. Known' = Known /\ objects' \subseteq objects /\ (\A o \in objects : o.key.ebid # e => o \in objects')
  BY <1>2, <1>3 DEF Known
<1>5. \A x : Good(x) => Good(x)'
  BY <1>2, <1>4 DEF Good
<1>6. \A x : There(x) /\ x.ebid # e => There(x)'
  BY <1>4 DEF There
<1>7. PICK f \in Calls : call' = [call EXCEPT ![p] = f] /\ f.step = "entry" /\ f.fn = "delete" /\ f.todo = c.todo
                         /\ f.ebid = e /\ f.key = k
  <2> DEFINE d == Stepped(c, "entry", e, k)
  <2>1. call' = [call EXCEPT ![p] = d]
    BY <1>1, <1>3 DEF DeleteObject, Step, Stepped
  <2>2. d \in Calls /\ d.step = "entry" /\ d.fn = c.fn /\ d.todo = c.todo /\ d.ebid = e /\ d.key = k
    BY StepCall
  <2> HIDE DEF d
  <2> QED BY <1>2, <2>1, <2>2
<1>8. Typed'
  BY <1>2, <1>4, <1>7 DEF Inv, Typed
<1>9. Listed'
  <2>1. \A x \in objects' : x.key.ebid <= lastEBID
    BY <1>4 DEF Inv, Listed
  <2>2. \A d \in EBIDs : catalog[d] # Missing =>
          /\ Good(catalog[d])' /\ catalog[d].ebid = d /\ (d \notin released => There(catalog[d])')
    <3>1. ASSUME NEW d \in EBIDs, catalog[d] # Missing
          PROVE  /\ Good(catalog[d])' /\ catalog[d].ebid = d /\ (d \notin released => There(catalog[d])')
      <4>1. PICK x \in Keys : x = catalog[d] /\ x = catalog'[d]
        BY <1>2, <3>1 DEF Inv, Typed
      <4>2. Good(x)' /\ x.ebid = d
        BY <1>5, <3>1, <4>1 DEF Inv, Listed
      <4>3. d \notin released => There(x)'
        BY <1>3, <1>6, <3>1, <4>1, <4>2 DEF Inv, Listed
      <4> QED BY <4>1, <4>2, <4>3 DEF Good, There
    <3> QED BY <3>1
  <2> QED BY <1>2, <2>1, <2>2 DEF Listed
<1>10. Told'
  BY <1>2, <1>4 DEF Inv, Told
<1>11. Working'
  <2>1. ASSUME NEW d \in Calls, CallOK(d) PROVE CallOK(d)'
    <3>1. Putting(d) => d.key.ebid # e
      BY <1>3, <2>1 DEF CallOK, Inv, Told
    <3>2. Putting(d) => Good(d.key)' /\ There(d.key)'
      BY <1>5, <1>6, <2>1, <3>1 DEF CallOK
    <3>3. d.fn = "restore" /\ d.step = "found" => Good(d.key)'
      BY <1>5, <2>1 DEF CallOK
    <3> QED BY <1>2, <1>4, <2>1, <3>2, <3>3 DEF CallOK, Putting
  <2>2. CallOK(f)' /\ ~Putting(f)
    BY <1>1, <1>2, <1>3, <1>4, <1>7 DEF CallOK, Putting
  <2> QED BY <1>7, <2>1, <2>2, WorkingKept
<1> QED BY <1>8, <1>9, <1>10, <1>11 DEF Inv

(* Then its entry, with the answer.                                         *)
LEMMA DeleteEntryInv ==
  ASSUME Inv, NEW p \in Processes, DeleteEntry(p)
  PROVE  Inv'
<1>1. PICK c \in Calls : c = call[p] /\ CallOK(c)
  BY DEF DeleteEntry, At, Inv, Typed, Working
<1>2. /\ call[p] # Missing /\ c.fn = "delete" /\ c.step = "entry" /\ c.todo # <<>>
      /\ UNCHANGED <<objects, lastEBID, released>>
      /\ catalog' = [catalog EXCEPT ![c.ebid] = Missing]
      /\ answers' = answers \cup {Line("deleted", c.ebid, "whole")}
  BY <1>1 DEF DeleteEntry, At, Answered, NextRequest, CallOK
<1>3. PICK e \in EBIDs : e = c.ebid /\ e \in released /\ e \in Known
  BY <1>1, <1>2, KnownType DEF CallOK, Inv, Told
<1>4. /\ catalog' \in [EBIDs -> Keys \cup {Missing}] /\ catalog'[e] = Missing
      /\ \A d \in EBIDs : d # e => catalog'[d] = catalog[d]
  BY <1>2, <1>3 DEF Inv, Typed
<1>5. PICK l \in Lines : l.word = "deleted" /\ l.ebid = e /\ answers' = answers \cup {l}
  BY <1>2, <1>3 DEF Line, Lines
<1>6. Known' = Known /\ \A x : (Good(x)' <=> Good(x)) /\ (There(x)' <=> There(x))
  BY <1>2, <1>3, <1>5 DEF Known, Good, There
<1>7. PICK f \in Calls : f = Nexted(c) /\ call' = [call EXCEPT ![p] = f] /\ ~Putting(f) /\ CallOK(f)'
  <2>1. call' = [call EXCEPT ![p] = Nexted(c)]
    BY <1>1 DEF DeleteEntry, Answered, NextRequest, Nexted
  <2>2. Nexted(c) \in Calls /\ ~Putting(Nexted(c)) /\ CallOK(Nexted(c))'
    BY <1>1, <1>2, <1>6, NextCall, NextOK
  <2> QED BY <2>1, <2>2
<1>8. Typed'
  BY <1>2, <1>4, <1>5, <1>7 DEF Inv, Typed
<1>9. Listed'
  BY <1>2, <1>4, <1>6 DEF Inv, Listed
<1>10. Told'
  <2>1. \A m \in answers' : m = l \/ m \in answers
    BY <1>5
  <2>2. e <= lastEBID
    BY <1>3 DEF Inv, Told, Known
  <2>3. \A m \in answers : m.ebid \in EBIDs
    BY DEF Inv, Typed, Lines
  <2> QED BY <1>2, <1>3, <1>4, <1>5, <1>6, <2>1, <2>2, <2>3 DEF Inv, Told
<1>11. Working'
  <2>1. ASSUME NEW d \in Calls, CallOK(d) PROVE CallOK(d)'
    <3>1. Putting(d) => catalog'[d.ebid] = Missing
      BY <1>4, <2>1 DEF CallOK
    <3>2. d.fn = "backup" /\ d.step = "answer" => catalog'[d.ebid] # Missing \/ d.ebid \in released
      BY <1>3, <1>4, <2>1 DEF CallOK
    <3> QED BY <1>2, <1>6, <2>1, <3>1, <3>2 DEF CallOK, Putting
  <2> QED BY <1>7, <2>1, WorkingKept
<1> QED BY <1>8, <1>9, <1>10, <1>11 DEF Inv

-----------------------------------------------------------------------------
LEMMA BackintStep ==
  ASSUME Inv, [BackintNext]_backintVars
  PROVE  Inv'
<1>1. ASSUME NEW p \in Processes, NEW cfg \in Configs, NEW n \in 1 .. MaxBatch,
             StartCall(p, "backup", [i \in 1 .. n |-> "source"], cfg)
      PROVE  Inv'
  <2>1. [i \in 1 .. n |-> "source"] \in Seq(Items)
    BY DEF Items
  <2> DEFINE batch == [i \in 1 .. n |-> "source"]
  <2> HIDE DEF batch
  <2>2. batch \in Seq(Items) /\ StartCall(p, "backup", batch, cfg)
    BY <1>1, <2>1 DEF batch
  <2> QED BY <2>2, StartInv
<1>2. ASSUME NEW p \in Processes, NEW cfg \in Configs, NEW fn \in {"restore", "delete", "inquire"},
             NEW S \in {Known, Known \cup {All}}, fn # "inquire" => S = Known,
             NEW batch \in Batches(S), StartCall(p, fn, batch, cfg)
      PROVE  Inv'
  <2>1. PICK n \in 1 .. MaxBatch : batch \in [1 .. n -> S]
    BY <1>2 DEF Batches
  <2>2. S \subseteq Items
    BY KnownType DEF Inv, Items
  <2>3. batch \in Seq(Items) /\ Len(batch) = n /\ \A i \in 1 .. Len(batch) : batch[i] \in S
    BY <2>1, <2>2
  <2> QED BY <1>2, <2>3, StartInv
<1>3. ASSUME NEW p \in Processes,
             \/ EndCall(p) \/ Die(p) \/ FailRequest(p)
             \/ Upload(p) \/ FailUpload(p) \/ PutEntry(p) \/ AnswerSaved(p)
             \/ Lookup(p) \/ Inquire(p) \/ Restore(p) \/ DeleteObject(p) \/ DeleteEntry(p)
      PROVE  Inv'
  BY <1>3, EndInv, AnswerInv, UploadInv, PutInv, LookupInv, DeleteObjectInv, DeleteEntryInv
<1>4. CASE UNCHANGED backintVars
  BY <1>4 DEF backintVars, Inv, Typed, Listed, Told, Working, CallOK, Putting, Good, There, Known
<1>5. CASE BackintNext
  <2>1. ASSUME NEW p \in Processes, NEW cfg \in Configs, NEW fn \in {"restore", "delete"},
               NEW batch \in Batches(Known), StartCall(p, fn, batch, cfg)
        PROVE  Inv'
    BY <1>2, <2>1
  <2>2. ASSUME NEW p \in Processes, NEW cfg \in Configs, NEW batch \in Batches(Known \cup {All}),
               StartCall(p, "inquire", batch, cfg)
        PROVE  Inv'
    BY <1>2, <2>2
  <2> QED BY <1>1, <1>3, <1>5, <2>1, <2>2 DEF BackintNext
<1> QED BY <1>4, <1>5

THEOREM BackintInv == BackintSpec => []Inv
<1> QED BY InvInit, BackintStep, PTL DEF BackintSpec

(* What HANA is told is true, for any number of calls at once, of failures  *)
(* and of edits of the parameter file: SAVED stays restorable and found     *)
(* until it is released, RESTORED is the whole backup, DELETED is final.    *)
THEOREM KeepsWordHolds == BackintSpec => []BackintKeepsWord
<1>1. Inv => BackintKeepsWord
  <2> SUFFICES ASSUME Inv PROVE BackintKeepsWord
    OBVIOUS
  <2>1. ASSUME NEW e \in EBIDs, Saved(e), e \notin released
        PROVE  /\ \E o \in objects : o.key = catalog[e] /\ Readable(o) /\ Content(o) = "whole"
               /\ Line("notfound", e, "whole") \notin answers
    <3>1. \A w \in {"saved", "notfound"} : Line(w, e, "whole").ebid = e /\ Line(w, e, "whole").word = w
      BY DEF Line
    <3>2. catalog[e] # Missing
      BY <2>1, <3>1 DEF Saved, Inv, Told
    <3>3. Good(catalog[e]) /\ There(catalog[e])
      BY <2>1, <3>2 DEF Inv, Listed
    <3>4. PICK o \in objects : o.key = catalog[e] /\ o.content = "whole" /\ o.encoded = o.key.gz
      BY <3>3 DEF Good, There
    <3>5. o.key.gz \in BOOLEAN
      BY DEF Inv, Typed, Stored, Keys
    <3>6. Readable(o) /\ Content(o) = "whole"
      BY <3>4, <3>5 DEF Readable, Content
    <3>7. Line("notfound", e, "whole") \notin answers
      BY <2>1, <3>1 DEF Inv, Told
    <3> QED BY <3>4, <3>6, <3>7
  <2> QED BY <2>1 DEF BackintKeepsWord, Inv, Told
<1> QED BY <1>1, BackintInv, PTL
=============================================================================
