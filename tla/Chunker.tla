------------------------------ MODULE Chunker ------------------------------
(* Splitting a stream into chunks at points its content chooses             *)
(* (contentDefinedChunker).  The reader hands out the content in pieces of  *)
(* any size; a chunk is emitted as soon as its end is certain.              *)
EXTENDS Integers, Sequences, FiniteSetsExt

CONSTANTS
    Gear,               \* [bytes -> values of the rolling hash], the Gear table
    MaxLength,          \* bound: length of the content
    MaxRead,            \* length of readBuffer
    MinSize, AvgSize, MaxSize,
    SmallBits, LargeBits,\* bits of smallMask and of largeMask
    HashBits            \* width of the rolling hash, 64

ASSUME ChunkerAssumption ==
    /\ Gear \in [DOMAIN Gear -> Nat]
    /\ MaxLength \in Nat /\ MaxRead \in Nat \ {0}
    /\ {MinSize, AvgSize, MaxSize, SmallBits, LargeBits, HashBits} \subseteq Nat
    /\ 0 < MinSize /\ MinSize < AvgSize /\ AvgSize < MaxSize
    /\ 0 < LargeBits /\ LargeBits < SmallBits /\ SmallBits < HashBits

VARIABLES
    content,   \* what the reader holds
    consumed,  \* how much of it was read
    pending,   \* read and not emitted
    chunks,    \* emitted
    eof,       \* the reader has reported its end
    chunker    \* "reading", "cutting", "done" or "failed"

chunkerVars == <<content, consumed, pending, chunks, eof, chunker>>

PowerOfTwo[n \in 0 .. HashBits] == IF n = 0 THEN 1 ELSE 2 * PowerOfTwo[n - 1]

(* The rolling hash after data[MinSize + 1 .. i]: hash = hash << 1 + gear,  *)
(* in unsigned arithmetic of HashBits bits.                                 *)
Rolled(data) ==
    LET hash[i \in MinSize .. Len(data)] ==
          IF i = MinSize THEN 0 ELSE (2 * hash[i - 1] + Gear[data[i]]) % PowerOfTwo[HashBits]
    IN hash

Mask(i) == PowerOfTwo[IF i <= AvgSize THEN SmallBits ELSE LargeBits]

(* Mutant: what was read so far is taken for all there is. *)
CutOfRead(data, end) ==
    IF Len(data) < MinSize THEN (IF end THEN Len(data) ELSE 0)
    ELSE LET limit == IF Len(data) > MaxSize THEN MaxSize ELSE Len(data)
             cuts == {i \in MinSize + 1 .. limit : Rolled(data)[i] % Mask(i) = 0}
         IN IF cuts # {} THEN Min(cuts) ELSE limit

(* The length of the first chunk of data, or 0 when it is not certain yet.  *)
(* The loop's index is the position before the byte it looks at.            *)
findCutPoint(data, end) ==
    IF Len(data) < MinSize THEN (IF end THEN Len(data) ELSE 0)
    ELSE LET limit == IF Len(data) > MaxSize THEN MaxSize ELSE Len(data)
             cuts == {i \in MinSize + 1 .. limit : Rolled(data)[i] % Mask(i) = 0}
         IN IF cuts # {} THEN Min(cuts)
            ELSE IF Len(data) >= MaxSize THEN MaxSize
            ELSE IF end THEN Len(data) ELSE 0

Drop(s, n) == SubSeq(s, n + 1, Len(s))

-----------------------------------------------------------------------------
ChunkerInit ==
    /\ content \in UNION {[1 .. n -> DOMAIN Gear] : n \in 0 .. MaxLength}
    /\ consumed = 0
    /\ pending = <<>> /\ chunks = <<>>
    /\ eof = FALSE
    /\ chunker = "reading"

(* Read returns n bytes, none of them perhaps, and the end of the content   *)
(* together with the last byte or after it; another error ends the call.    *)
Read ==
    /\ chunker = "reading" /\ ~eof
    /\ \E n \in 0 .. MaxRead :
         /\ consumed + n <= Len(content)
         /\ consumed' = consumed + n
         /\ pending' = pending \o SubSeq(content, consumed + 1, consumed + n)
    /\ \/ eof' = FALSE /\ chunker' = IF consumed' = consumed THEN "reading" ELSE "cutting"
       \/ consumed' = Len(content) /\ eof' = TRUE /\ chunker' = "cutting"
       \/ eof' = FALSE /\ chunker' = "failed"
    /\ UNCHANGED <<content, chunks>>

(* The inner loop, while a chunk is certain; emit may fail or the context   *)
(* be cancelled.                                                            *)
Emit ==
    /\ chunker = "cutting" /\ pending # <<>>
    /\ LET cut == findCutPoint(pending, eof) IN
         /\ cut # 0
         /\ \/ /\ chunks' = Append(chunks, SubSeq(pending, 1, cut))
               /\ pending' = Drop(pending, cut)
               /\ UNCHANGED chunker
            \/ chunker' = "failed" /\ UNCHANGED <<chunks, pending>>
    /\ UNCHANGED <<content, consumed, eof>>

(* The loop ends: at the end of the content nothing may be left.            *)
CutAll ==
    /\ chunker = "cutting"
    /\ pending = <<>> \/ findCutPoint(pending, eof) = 0
    /\ chunker' = IF ~eof THEN "reading" ELSE IF pending = <<>> THEN "done" ELSE "failed"
    /\ UNCHANGED <<content, consumed, pending, chunks, eof>>

ChunkerNext == Read \/ Emit \/ CutAll

ChunkerSpec == ChunkerInit /\ [][ChunkerNext]_chunkerVars

-----------------------------------------------------------------------------
(* The reference: the hash at i is a sum over the last HashBits bytes, so   *)
(* that a byte further back has no say in it, and the first chunk of data   *)
(* ends at the first i whose hash the mask in force there clears.           *)
WindowHash(data, i) ==
    LET first == IF i - HashBits >= MinSize THEN i - HashBits + 1 ELSE MinSize + 1
    IN MapThenSumSet(LAMBDA j : PowerOfTwo[i - j] * Gear[data[j]], first .. i)

EndsAt(data, i) ==
    \/ i = MaxSize \/ i = Len(data)
    \/ i > MinSize /\ WindowHash(data, i) % Mask(i) = 0

FirstChunk(data) ==
    CHOOSE i \in 1 .. Len(data) : EndsAt(data, i) /\ \A j \in 1 .. i - 1 : ~EndsAt(data, j)

(* The chunks of data from each position on.                                *)
SplitFrom(data) ==
    LET from[k \in 0 .. Len(data)] ==
          IF k = Len(data) THEN <<>>
          ELSE LET n == FirstChunk(Drop(data, k)) IN <<SubSeq(data, k + 1, k + n)>> \o from[k + n]
    IN from

(* The chunks depend on the content alone, however it was cut up by the     *)
(* reader: they are a beginning of its split, and all of it in the end      *)
(* (repository_chunker.go, "chunk boundaries re-synchronize").              *)
SplitIsOfContent ==
    LET whole == SplitFrom(content)[0] IN
      /\ Len(chunks) <= Len(whole) /\ chunks = SubSeq(whole, 1, Len(chunks))
      /\ chunker = "done" => chunks = whole
=============================================================================
