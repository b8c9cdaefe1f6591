------------------------------ MODULE Backint -------------------------------
(* The backint processes SAP HANA starts: each call is a batch of requests  *)
(* of one function, answered line by line in an output file.  Calls run in  *)
(* parallel; they share the storage and a catalog that leads from the id of *)
(* a backup (EBID) to its object.  A process may die between two steps, and *)
(* the parameter file may be edited between two calls.                      *)
EXTENDS Integers, Sequences, FiniteSets

CONSTANTS
    Missing,
    Processes,       \* backint processes at one time
    Configs,         \* what the parameter file may say: [compress, prefix]
    MaxAsks,         \* bound: requests of a behaviour
    MaxBatch,        \* bound: requests of a call
    MaxEBID,         \* bound: ids generated
    MaxCallFaults    \* bound: failures of a source, the storage, the catalog or a process

ASSUME BackintAssumption ==
    /\ MaxAsks \in Nat /\ MaxBatch \in Nat /\ MaxEBID \in Nat /\ MaxCallFaults \in Nat
    /\ Configs \subseteq [compress : BOOLEAN, prefix : {c.prefix : c \in Configs}]
    /\ Missing \notin [ebid : 1 .. MaxEBID, prefix : {c.prefix : c \in Configs}, gz : BOOLEAN]

VARIABLES
    call,        \* [Processes -> the call at work, or Missing]
    catalog,     \* [EBIDs -> the key of the object, or Missing]
    objects,     \* what the storage holds
    lastEBID,
    answers,     \* the lines of all output files
    released,    \* the EBIDs HANA has asked to delete
    asks, callFaults

backintVars == <<call, catalog, objects, lastEBID, answers, released, asks, callFaults>>

EBIDs == 1 .. MaxEBID
All == 0     \* the #NULL of an inquiry
Line(word, e, content) == [word |-> word, ebid |-> e, content |-> content]
Saved(e) == Line("saved", e, "whole") \in answers

CallFault ==
    /\ callFaults < MaxCallFaults
    /\ callFaults' = callFaults + 1

NoCallFault == UNCHANGED callFaults

-----------------------------------------------------------------------------
(* A call.                                                                  *)

(* The batch names ids, for a backup sources.  A batch with a line that     *)
(* cannot be parsed is refused before anything is done, and leaves nothing. *)
StartCall(p, fn, batch, cfg) ==
    /\ call[p] = Missing /\ asks + Len(batch) <= MaxAsks
    /\ asks' = asks + Len(batch)
    /\ call' = [call EXCEPT ![p] =
                  [fn |-> fn, cfg |-> cfg, todo |-> batch, step |-> "next", ebid |-> Missing,
                   key |-> Missing]]
    /\ released' = IF fn = "delete" THEN released \cup {batch[i] : i \in DOMAIN batch}
                   ELSE released
    /\ UNCHANGED <<catalog, objects, lastEBID, answers>> /\ NoCallFault

At(p, fn, step) == call[p] # Missing /\ call[p].fn = fn /\ call[p].step = step
InRequest(p, fn) == At(p, fn, "next") /\ call[p].todo # <<>>

Step(p, step, e, key) ==
    /\ call' = [call EXCEPT ![p].step = step, ![p].ebid = e, ![p].key = key]
    /\ UNCHANGED <<released, asks>>

(* The request is answered and the next one is looked at.                   *)
NextRequest(p) ==
    /\ call' = [call EXCEPT ![p].step = "next", ![p].todo = Tail(@), ![p].ebid = Missing,
                            ![p].key = Missing]
    /\ UNCHANGED <<released, asks>>

Answered(p, line) == NextRequest(p) /\ answers' = answers \cup {line}
Errored(p) == NextRequest(p) /\ UNCHANGED answers

EndCall(p) ==
    /\ call[p] # Missing
    /\ call[p].step = "next" /\ call[p].todo = <<>>
    /\ call' = [call EXCEPT ![p] = Missing]
    /\ UNCHANGED <<catalog, objects, lastEBID, answers, released, asks>> /\ NoCallFault

Die(p) ==
    /\ call[p] # Missing
    /\ call' = [call EXCEPT ![p] = Missing]
    /\ UNCHANGED <<catalog, objects, lastEBID, answers, released, asks>> /\ CallFault

(* An access fails, or the line of the answer cannot be written: what was   *)
(* done stays, and the batch goes on.                                       *)
FailRequest(p) ==
    /\ call[p] # Missing /\ call[p].todo # <<>>
    /\ Errored(p) /\ CallFault
    /\ UNCHANGED <<catalog, objects, lastEBID>>

-----------------------------------------------------------------------------
(* BACKUP.                                                                  *)

objectKeyFor(e, cfg) == [ebid |-> e, prefix |-> cfg.prefix, gz |-> FALSE]

Object(key, encoded, content) == [key |-> key, encoded |-> encoded, content |-> content]

UploadKey(p) ==
    [objectKeyFor(lastEBID + 1, call[p].cfg) EXCEPT !.gz = call[p].cfg.compress]

Uploading(p) ==
    /\ InRequest(p, "backup") /\ lastEBID < MaxEBID
    /\ lastEBID' = lastEBID + 1
    /\ UNCHANGED catalog

Upload(p) ==
    /\ Uploading(p)
    /\ objects' = objects \cup {Object(UploadKey(p), call[p].cfg.compress, "whole")}
    /\ Step(p, "put", lastEBID + 1, UploadKey(p))
    /\ UNCHANGED answers /\ NoCallFault

(* The source or the storage fails; some storages keep what had arrived.    *)
FailUpload(p) ==
    /\ Uploading(p) /\ CallFault
    /\ objects' \in {objects, objects \cup {Object(UploadKey(p), call[p].cfg.compress, "part")}}
    /\ Errored(p)

PutEntry(p) ==
    /\ At(p, "backup", "put")
    /\ catalog' = [catalog EXCEPT ![call[p].ebid] = call[p].key]
    /\ Step(p, "answer", call[p].ebid, call[p].key)
    /\ UNCHANGED <<objects, lastEBID, answers>> /\ NoCallFault

AnswerSaved(p) ==
    /\ At(p, "backup", "answer")
    /\ Answered(p, Line("saved", call[p].ebid, "whole"))
    /\ UNCHANGED <<catalog, objects, lastEBID>> /\ NoCallFault

-----------------------------------------------------------------------------
(* RESTORE, INQUIRE and DELETE begin with the entry of the catalog.         *)

Lookup(p) ==
    /\ InRequest(p, "restore") \/ InRequest(p, "delete")
    /\ LET e == Head(call[p].todo) IN
       IF catalog[e] = Missing THEN Errored(p)
       ELSE Step(p, "found", e, catalog[e]) /\ UNCHANGED answers
    /\ UNCHANGED <<catalog, objects, lastEBID>> /\ NoCallFault

Inquire(p) ==
    /\ InRequest(p, "inquire")
    /\ LET e == Head(call[p].todo) IN
       IF e = All
       THEN /\ NextRequest(p)
            /\ answers' = answers \cup {Line("backup", d, "whole") : d \in {d \in EBIDs : catalog[d] # Missing}}
       ELSE Answered(p, Line(IF catalog[e] = Missing THEN "notfound" ELSE "backup", e, "whole"))
    /\ UNCHANGED <<catalog, objects, lastEBID>> /\ NoCallFault

(* What a download of the object gives; gzip.NewReader refuses what is not  *)
(* compressed.                                                              *)
Readable(o) == o.key.gz => o.encoded
Content(o) == IF o.encoded /\ ~o.key.gz THEN "garbled" ELSE o.content

(* Mutant: the parameter file decides how an object is read.                *)
RestoreAsConfigured(p) ==
    /\ At(p, "restore", "found")
    /\ LET found == {o \in objects : o.key = call[p].key} IN
       IF found = {} THEN Errored(p)
       ELSE \E o \in found :
              IF call[p].cfg.compress /\ ~o.encoded THEN Errored(p)
              ELSE Answered(p, Line("restored", call[p].ebid,
                                    IF o.encoded /\ ~call[p].cfg.compress THEN "garbled"
                                    ELSE o.content))
    /\ UNCHANGED <<catalog, objects, lastEBID>> /\ NoCallFault

(* The suffix of the key tells whether the object is compressed.            *)
Restore(p) ==
    /\ At(p, "restore", "found")
    /\ LET found == {o \in objects : o.key = call[p].key} IN
       IF \E o \in found : Readable(o)
       THEN \E o \in found : Answered(p, Line("restored", call[p].ebid, Content(o)))
       ELSE Errored(p)
    /\ UNCHANGED <<catalog, objects, lastEBID>> /\ NoCallFault

(* A storage that cannot delete the object is passed over with a warning.   *)
DeleteObject(p) ==
    /\ At(p, "delete", "found")
    /\ \/ objects' = {o \in objects : o.key # call[p].key} /\ NoCallFault
       \/ UNCHANGED objects /\ CallFault
    /\ Step(p, "entry", call[p].ebid, call[p].key)
    /\ UNCHANGED <<catalog, lastEBID, answers>>

DeleteEntry(p) ==
    /\ At(p, "delete", "entry")
    /\ catalog' = [catalog EXCEPT ![call[p].ebid] = Missing]
    /\ Answered(p, Line("deleted", call[p].ebid, "whole"))
    /\ UNCHANGED <<objects, lastEBID>> /\ NoCallFault

-----------------------------------------------------------------------------
BackintInit ==
    /\ call = [p \in Processes |-> Missing]
    /\ catalog = [e \in EBIDs |-> Missing]
    /\ objects = {} /\ lastEBID = 0 /\ answers = {} /\ released = {}
    /\ asks = 0 /\ callFaults = 0

(* HANA asks for what an output file told it of.                            *)
Known == {line.ebid : line \in answers}
Batches(S) == UNION {[1 .. n -> S] : n \in 1 .. MaxBatch}

BackintNext ==
    \E p \in Processes :
      \/ \E cfg \in Configs :
           \/ \E n \in 1 .. MaxBatch : StartCall(p, "backup", [i \in 1 .. n |-> "source"], cfg)
           \/ \E fn \in {"restore", "delete"}, batch \in Batches(Known) :
                StartCall(p, fn, batch, cfg)
           \/ \E batch \in Batches(Known \cup {All}) : StartCall(p, "inquire", batch, cfg)
      \/ EndCall(p) \/ Die(p) \/ FailRequest(p)
      \/ Upload(p) \/ FailUpload(p) \/ PutEntry(p) \/ AnswerSaved(p)
      \/ Lookup(p) \/ Inquire(p) \/ Restore(p) \/ DeleteObject(p) \/ DeleteEntry(p)

BackintSpec == BackintInit /\ [][BackintNext]_backintVars

-----------------------------------------------------------------------------
(* What HANA is told is true: a backup that was answered with SAVED stays   *)
(* restorable and is found until HANA asks to delete it, a restore gives    *)
(* back what the backup was given, and what was answered with DELETED is    *)
(* not offered any more, for whatever fails, dies or is edited in between   *)
(* (runBackup to runDelete answer line by line and go on after an error).   *)
BackintKeepsWord ==
    /\ \A e \in EBIDs : Saved(e) /\ e \notin released =>
         /\ \E o \in objects : o.key = catalog[e] /\ Readable(o) /\ Content(o) = "whole"
         /\ Line("notfound", e, "whole") \notin answers
    /\ \A line \in answers :
         /\ line.word = "restored" => line.content = "whole"
         /\ line.word = "deleted" => catalog[line.ebid] = Missing
=============================================================================
