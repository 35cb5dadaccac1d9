------------------------- MODULE RingBuffersProofs -------------------------
(***************************************************************************)
(* Proofs about RingBuffers: that no record is forgotten, and that samples *)
(* are dispatched in order.  What a record reads as is a recursive         *)
(* function of its words; the order of dispatch is proved from ReadsBack,  *)
(* which says what comes out of it, and from nothing else about records.   *)
(***************************************************************************)
EXTENDS RingBuffers, SequenceTheorems, FiniteSetTheorems, TLAPS

\* A sequence, whatever it is of.
List(s) == s \in Seq(Range(s))

-----------------------------------------------------------------------------
(* Sequences *)

LEMMA ListIs ==
  ASSUME NEW s, List(s)
  PROVE  /\ Len(s) \in Nat /\ DOMAIN s = 1..Len(s)
         /\ \A i \in DOMAIN s : s[i] \in Range(s)
BY LenProperties DEF List, Range

LEMMA SeqIsList ==
  ASSUME NEW S, NEW s \in Seq(S)
  PROVE  List(s) /\ Range(s) \subseteq S
BY SeqOfRange, RangeOfSeq DEF List

LEMMA EmptyList == List(<<>>) /\ Range(<<>>) = {} /\ Len(<<>>) = 0
BY EmptySeq DEF List, Range

\* A function on 1..n is a sequence.
LEMMA FunctionIsList ==
  ASSUME NEW n \in Nat, NEW f, f = [i \in 1..n |-> f[i]]
  PROVE  List(f) /\ Len(f) = n /\ DOMAIN f = 1..n
<1>1. f \in [1..n -> Range(f)]
  BY DEF Range
<1>2. f \in Seq(Range(f))
  BY <1>1, SeqDef
<1>. QED
  BY <1>1, <1>2, LenProperties DEF List

LEMMA Joined ==
  ASSUME NEW s, NEW t, List(s), List(t)
  PROVE  /\ List(s \o t) /\ Len(s \o t) = Len(s) + Len(t)
         /\ Range(s \o t) = Range(s) \cup Range(t)
         /\ \A i \in 1..(Len(s) + Len(t)) : (s \o t)[i] = IF i <= Len(s) THEN s[i] ELSE t[i - Len(s)]
<1>. DEFINE S == Range(s) \cup Range(t)
<1>1. s \in Seq(S) /\ t \in Seq(S)
  BY SeqMonotonic DEF List
<1>. HIDE DEF S
<1>2. /\ s \o t \in Seq(S) /\ Len(s \o t) = Len(s) + Len(t)
      /\ \A i \in 1..(Len(s) + Len(t)) : (s \o t)[i] = IF i <= Len(s) THEN s[i] ELSE t[i - Len(s)]
  BY <1>1, ConcatProperties
<1>3. Range(s \o t) = Range(s) \cup Range(t)
  BY <1>1, RangeConcatenation
<1>4. List(s \o t)
  BY <1>2, SeqIsList
<1>. QED
  BY <1>2, <1>3, <1>4

LEMMA Appended ==
  ASSUME NEW s, NEW x, List(s)
  PROVE  /\ List(Append(s, x)) /\ Len(Append(s, x)) = Len(s) + 1
         /\ Range(Append(s, x)) = Range(s) \cup {x}
         /\ \A i \in 1..Len(s) : Append(s, x)[i] = s[i]
         /\ Append(s, x)[Len(s) + 1] = x
<1>. DEFINE S == Range(s) \cup {x}
            t == Append(s, x)
<1>1. s \in Seq(S) /\ x \in S
  BY SeqMonotonic DEF List
<1>2. /\ t \in Seq(S) /\ Len(t) = Len(s) + 1
      /\ \A i \in 1..Len(s) : t[i] = s[i]
      /\ t[Len(s) + 1] = x
  BY <1>1, AppendProperties
<1>3. List(t) /\ Range(t) \subseteq S
  BY <1>2, SeqIsList
<1>4. Len(s) \in Nat /\ DOMAIN s = 1..Len(s) /\ DOMAIN t = 1..(Len(s) + 1)
  BY <1>2, <1>3, ListIs
<1>5. S \subseteq Range(t)
  <2>1. x \in Range(t)
    BY <1>2, <1>4 DEF Range
  <2>2. ASSUME NEW i \in DOMAIN s PROVE s[i] \in Range(t)
    <3>1. i \in DOMAIN t /\ t[i] = s[i]
      BY <1>2, <1>4
    <3>. QED
      BY <3>1 DEF Range
  <2>. QED
    BY <2>1, <2>2 DEF Range
<1>. QED
  BY <1>2, <1>3, <1>5

LEMMA FirstOf ==
  ASSUME NEW s, List(s), s # <<>>
  PROVE  /\ 1 \in DOMAIN s /\ Head(s) = s[1]
         /\ List(Tail(s)) /\ Len(Tail(s)) = Len(s) - 1
         /\ Range(Tail(s)) \subseteq Range(s)
         /\ \A i \in DOMAIN Tail(s) : i + 1 \in DOMAIN s /\ Tail(s)[i] = s[i + 1]
<1>1. s \in Seq(Range(s)) /\ Len(s) \in Nat \ {0}
  BY EmptySeq DEF List
<1>2. /\ Tail(s) \in Seq(Range(s)) /\ Len(Tail(s)) = Len(s) - 1
      /\ \A i \in 1 .. Len(Tail(s)) : Tail(s)[i] = s[i + 1]
  BY <1>1, HeadTailProperties
<1>3. 1 \in DOMAIN s /\ Head(s) = s[1] /\ DOMAIN s = 1..Len(s)
  BY <1>1, ListIs
<1>4. List(Tail(s)) /\ Range(Tail(s)) \subseteq Range(s) /\ DOMAIN Tail(s) = 1..Len(Tail(s))
  BY <1>2, SeqIsList, ListIs
<1>. QED
  BY <1>1, <1>2, <1>3, <1>4

LEMMA Part ==
  ASSUME NEW s, List(s), NEW m \in Nat \ {0}, NEW n \in Nat, n <= Len(s)
  PROVE  /\ List(SubSeq(s, m, n)) /\ Range(SubSeq(s, m, n)) \subseteq Range(s)
         /\ Len(SubSeq(s, m, n)) = IF m <= n THEN n - m + 1 ELSE 0
<1>1. \A i \in m..n : s[i] \in Range(s)
  BY ListIs
<1>2. /\ SubSeq(s, m, n) \in Seq(Range(s))
      /\ Len(SubSeq(s, m, n)) = IF m <= n THEN n - m + 1 ELSE 0
  BY <1>1, SubSeqProperties
<1>. QED
  BY <1>2, SeqIsList

LEMMA Removed ==
  ASSUME NEW s, List(s), NEW i \in DOMAIN s
  PROVE  List(RemoveAt(s, i)) /\ Range(RemoveAt(s, i)) \subseteq Range(s)
<1>1. Len(s) \in Nat /\ i \in Nat \ {0} /\ i <= Len(s) /\ i - 1 \in Nat /\ i + 1 \in Nat \ {0}
  BY ListIs
<1>2. List(SubSeq(s, 1, i - 1)) /\ Range(SubSeq(s, 1, i - 1)) \subseteq Range(s)
  BY <1>1, Part
<1>3. List(SubSeq(s, i + 1, Len(s))) /\ Range(SubSeq(s, i + 1, Len(s))) \subseteq Range(s)
  BY <1>1, Part
<1>. QED
  BY <1>2, <1>3, Joined DEF RemoveAt

LEMMA ReadAllIsList ==
  ASSUME NEW words, NEW attr, NEW formats, Len(words) \in Nat
  PROVE  List(ReadAll(words, attr, formats))
<1>. DEFINE from[i \in 1..Len(words)] ==
              IF i = 1 THEN 0
              ELSE LET last == from[i - 1]
                   IN IF last < Len(words) THEN Following(words, ReadSample(words, last, attr, formats))
                      ELSE Len(words)
            count == Cardinality({i \in 1..Len(words) : from[i] < Len(words)})
            read == [i \in 1..count |-> ReadSample(words, from[i], attr, formats)]
<1>1. ReadAll(words, attr, formats) = read
  BY DEF ReadAll
<1>. HIDE DEF from
<1>. DEFINE begun == {i \in 1..Len(words) : from[i] < Len(words)}
<1>2. count \in Nat
  <2>1. begun \in SUBSET (1..Len(words)) /\ count = Cardinality(begun)
    OBVIOUS
  <2>. HIDE DEF begun, count
  <2>2. IsFiniteSet(1..Len(words))
    BY FS_Interval
  <2>3. IsFiniteSet(begun)
    BY <2>1, <2>2, FS_Subset
  <2>. QED
    BY <2>1, <2>3, FS_CardinalityType
<1>. HIDE DEF count
<1>3. \A i \in 1..count : read[i] = ReadSample(words, from[i], attr, formats)
  OBVIOUS
<1>. QED
  BY <1>1, <1>2, FunctionIsList

LEMMA AvailableIsList ==
  ASSUME NEW r \in Rings, NEW from \in Nat, NEW to \in Nat
  PROVE  Len(Available(r, from, to)) \in Nat
<1>. DEFINE begin == from % Size
            end == to % Size
            upTo == [i \in 1..(end - begin) |-> data[r][begin + i - 1]]
            last == [i \in 1..(Size - begin) |-> data[r][begin + i - 1]]
            rest == [i \in 1..end |-> data[r][i - 1]]
<1>1. begin \in 0..(Size - 1) /\ end \in 0..(Size - 1) /\ Size \in Nat \ {0}
  BY SizeIsPositive
<1>2. Available(r, from, to) = IF end >= begin THEN upTo ELSE last \o rest
  BY DEF Available
<1>. HIDE DEF begin, end
<1>3. CASE end >= begin
  <2>1. end - begin \in Nat
    BY <1>1, <1>3
  <2>2. Len(upTo) = end - begin
    BY <2>1, FunctionIsList
  <2>. QED
    BY <1>2, <1>3, <2>1, <2>2
<1>4. CASE ~(end >= begin)
  <2>1. Size - begin \in Nat /\ end \in Nat
    BY <1>1
  <2>2. List(last) /\ List(rest) /\ Len(last) = Size - begin /\ Len(rest) = end
    BY <2>1, FunctionIsList
  <2>3. Len(last \o rest) \in Nat
    BY <2>1, <2>2, Joined
  <2>. QED
    BY <1>2, <1>4, <2>3
<1>. QED
  BY <1>3, <1>4

-----------------------------------------------------------------------------
(* The rings *)

\* The kernel never writes over what Run has not read.
PositionsOK ==
  /\ head \in [Rings -> Nat] /\ tail \in [Rings -> Nat] /\ lost \in [Rings -> Nat]
  /\ order \in [Rings -> Nat] /\ \A r, q \in Rings : r # q => order[r] # order[q]
  /\ ready \subseteq Rings /\ woken \subseteq Rings /\ dataHead \in Nat
  /\ loaded => ready # {}
  /\ now \in Nat
  /\ \A r \in Rings : tail[r] <= head[r] /\ head[r] - tail[r] < Size
  /\ \A r \in Rings : Turn(r) /\ loaded => tail[r] <= dataHead /\ dataHead <= head[r]

\* What has been read and not been dispatched, and what has.
ListsOK ==
  /\ List(samples) /\ List(pendingSamples)
  /\ List(dispatchChan) /\ \A n \in DOMAIN dispatchChan : List(dispatchChan[n])
  /\ List(batch) /\ List(dispatched)
  /\ DOMAIN got = Rings /\ \A r \in Rings : List(got[r])
  /\ first \in Nat /\ lastIndex \in Nat

\* A ring that is not empty will be read: poll() reports it, or Run is at it.
\* When Run finds it empty, what the kernel has written since has woken it.
WillBeRead ==
  /\ \A r \in Rings : tail[r] = head[r] \/ r \in woken \/ r \in ready
  /\ \A r \in Rings : Turn(r) /\ loaded /\ dataHead = tail[r] => tail[r] = head[r] \/ r \in woken

\* Samples are only set aside behind others.
HeldBehind == pendingSamples # <<>> => samples # <<>>

\* Stream ids are those of the events that were registered.
MapsOK ==
  DOMAIN formatMap \subseteq DOMAIN Streams /\ eventIDMap \subseteq DOMAIN Streams /\ snapshot \subseteq DOMAIN Streams

RingInv == PositionsOK /\ ListsOK /\ WillBeRead /\ HeldBehind /\ MapsOK

LEMMA OneTurn ==
  ASSUME PositionsOK, NEW r \in Rings, NEW q \in Rings, Turn(r), Turn(q)
  PROVE  r = q
BY DEF PositionsOK, Turn

LEMMA PositionsInit == Init => PositionsOK
<1>. SUFFICES ASSUME Init PROVE PositionsOK
  OBVIOUS
<1>1. Len(ReferenceRecord) \in Nat
  BY RecordsAreWords, LenProperties
<1>2. order \in [Rings -> Nat] /\ \A r, q \in Rings : r # q => order[r] # order[q]
  BY DEF Init, Injection, IsInjective
<1>3. /\ head \in [Rings -> Nat] /\ tail \in [Rings -> Nat] /\ lost \in [Rings -> Nat]
      /\ now \in Nat /\ dataHead \in Nat
      /\ \A r \in Rings : tail[r] <= head[r] /\ head[r] - tail[r] < Size
  <2>. DEFINE n == Len(ReferenceRecord)
  <2>1. /\ head = [r \in Rings |-> n] /\ tail = head /\ lost = [r \in Rings |-> 0]
        /\ now = 2 /\ dataHead = 0 /\ n \in Nat
    BY <1>1 DEF Init
  <2>. HIDE DEF n
  <2>. QED
    BY <2>1, SizeIsPositive
<1>4. ready = {} /\ woken = {} /\ loaded = FALSE
  BY DEF Init
<1>5. \A r \in Rings : ~Turn(r)
  BY <1>4 DEF Turn
<1>. QED
  BY <1>2, <1>3, <1>4, <1>5 DEF PositionsOK

LEMMA RingInit == Init => RingInv
<1>. SUFFICES ASSUME Init PROVE RingInv
  OBVIOUS
<1>1. ListsOK
  BY EmptyList DEF Init, ListsOK
<1>2. WillBeRead /\ HeldBehind
  BY DEF Init, WillBeRead, HeldBehind, Turn
<1>3. MapsOK
  BY DEF Init, MapsOK
<1>. QED
  BY PositionsInit, <1>1, <1>2, <1>3 DEF RingInv

-----------------------------------------------------------------------------
(* ... and a step of the kernel *)

LEMMA WordsAreWritten ==
  ASSUME RingInv, NEW s \in Sources, NEW r \in Rings, KernelWrite(r, s[2], s[3])
  PROVE  /\ now' = now + 2
         /\ \/ /\ UNCHANGED <<head, written, woken>>
               /\ lost' = [lost EXCEPT ![r] = @ + 1]
            \/ /\ \E n \in Nat : n <= Space(r) /\ head' = [head EXCEPT ![r] = @ + n]
               /\ lost' = [lost EXCEPT ![r] = 0]
               /\ woken' = woken \cup {r}
<1>. DEFINE time == now + 2
            report == IF lost[r] = 0 THEN <<>> ELSE RecordOf(s[2], "LOST", time)
            words == report \o RecordOf(s[2], s[3], time)
<1>1. time \in 0..(2 * MaxWrites + 3)
  <2>1. now \in Nat /\ MaxWrites \in Nat /\ now \div 2 - 1 < MaxWrites
    BY WritesAreNat DEF RingInv, PositionsOK, KernelWrite, Writes
  <2>. QED
    BY <2>1
<1>2. s[2] \in DOMAIN Streams
  BY DEF KernelWrite, RingInv, MapsOK
<1>3. RecordOf(s[2], "LOST", time) \in Seq(Nat) /\ RecordOf(s[2], s[3], time) \in Seq(Nat)
  <2>. HIDE DEF time
  <2>. QED
    BY <1>1, <1>2, RecordsAreWords
<1>4. Len(words) \in Nat
  <2>1. report \in Seq(Nat)
    BY <1>3, EmptySeq
  <2>. HIDE DEF report
  <2>. QED
    BY <1>3, <2>1, ConcatProperties, LenProperties
<1>5. \/ /\ UNCHANGED <<head, written, woken>>
         /\ lost' = [lost EXCEPT ![r] = @ + 1]
      \/ /\ Len(words) <= Space(r) /\ head' = [head EXCEPT ![r] = @ + Len(words)]
         /\ lost' = [lost EXCEPT ![r] = 0]
         /\ woken' = woken \cup {r}
  BY DEF KernelWrite
<1>. HIDE DEF words
<1>. QED
  BY <1>4, <1>5 DEF KernelWrite

\* The variables that the rings' invariant is about, but for the lists.
ringVars == <<head, tail, lost, order, ready, woken, loaded, dataHead, now>>

LEMMA RingsStay ==
  ASSUME RingInv, UNCHANGED ringVars
  PROVE  PositionsOK' /\ WillBeRead'
<1>1. PositionsOK'
  BY DEF RingInv, PositionsOK, Turn, ringVars
<1>2. WillBeRead'
  BY DEF RingInv, WillBeRead, Turn, ringVars
<1>. QED
  BY <1>1, <1>2

LEMMA WritePositions ==
  ASSUME RingInv, NEW s \in Sources, KernelWrite(s[1], s[2], s[3])
  PROVE  PositionsOK' /\ WillBeRead'
<1>. DEFINE r == s[1]
<1>0. r \in Rings
  BY SourcesHaveRings
<1>1. /\ now' = now + 2
      /\ UNCHANGED <<tail, order, ready, loaded, dataHead>>
  BY <1>0, WordsAreWritten DEF KernelWrite, runVars
<1>2. \A q \in Rings : Turn(q)' <=> Turn(q)
  BY <1>1 DEF Turn
<1>3. CASE UNCHANGED <<head, written, woken>> /\ lost' = [lost EXCEPT ![r] = @ + 1]
  <2>. HIDE DEF r
  <2>0. lost' \in [Rings -> Nat] /\ now' \in Nat
    BY <1>0, <1>1, <1>3 DEF RingInv, PositionsOK
  <2>1. PositionsOK'
    BY <1>1, <1>2, <1>3, <2>0 DEF RingInv, PositionsOK
  <2>2. WillBeRead'
    BY <1>1, <1>2, <1>3 DEF RingInv, WillBeRead
  <2>. QED
    BY <2>1, <2>2
<1>4. CASE \E n \in Nat : n <= Space(r) /\ head' = [head EXCEPT ![r] = @ + n]
           /\ lost' = [lost EXCEPT ![r] = 0]
           /\ woken' = woken \cup {r}
  <2>. HIDE DEF r
  <2>. PICK n \in Nat : n <= Space(r) /\ head' = [head EXCEPT ![r] = @ + n]
                        /\ lost' = [lost EXCEPT ![r] = 0]
                        /\ woken' = woken \cup {r}
    BY <1>4
  <2>1. PositionsOK'
    <3>1. \A q \in Rings : /\ head'[q] \in Nat /\ head[q] <= head'[q]
                           /\ tail[q] <= head'[q] /\ head'[q] - tail[q] < Size
      BY <1>0, SizeIsPositive DEF RingInv, PositionsOK, Space
    <3>2. /\ head' \in [Rings -> Nat] /\ lost' \in [Rings -> Nat] /\ woken' \subseteq Rings
          /\ now' \in Nat
      BY <1>0, <1>1, <3>1 DEF RingInv, PositionsOK
    <3>. QED
      BY <1>1, <1>2, <3>1, <3>2 DEF RingInv, PositionsOK
  <2>2. WillBeRead'
    BY <1>1, <1>2 DEF RingInv, PositionsOK, WillBeRead
  <2>. QED
    BY <2>1, <2>2
<1>. QED
  BY <1>0, <1>3, <1>4, WordsAreWritten

LEMMA PollPositions ==
  ASSUME RingInv, Poll
  PROVE  PositionsOK' /\ WillBeRead'
<1>1. /\ ready = {} /\ ready' = woken /\ woken' = {} /\ woken # {}
      /\ UNCHANGED <<head, tail, lost, order, loaded, dataHead, now>>
  BY DEF Poll, Polling, kernelVars
<1>2. ~loaded
  BY <1>1 DEF RingInv, PositionsOK
<1>3. PositionsOK'
  BY <1>1, <1>2 DEF RingInv, PositionsOK
<1>4. WillBeRead'
  BY <1>1, <1>2 DEF RingInv, WillBeRead
<1>. QED
  BY <1>3, <1>4

LEMMA LoadPositions ==
  ASSUME RingInv, NEW r \in Rings, LoadHead(r)
  PROVE  PositionsOK' /\ WillBeRead'
<1>1. /\ Turn(r) /\ loaded' /\ dataHead' = head[r] /\ ready # {}
      /\ UNCHANGED <<head, tail, lost, order, ready, woken, now>>
  BY DEF LoadHead, kernelVars, Turn
<1>2. \A q \in Rings : Turn(q)' <=> Turn(q)
  BY <1>1 DEF Turn
<1>3. \A q \in Rings : Turn(q)' => q = r
  BY <1>1, <1>2, OneTurn DEF RingInv
<1>4. PositionsOK'
  BY <1>1, <1>3 DEF RingInv, PositionsOK
<1>5. WillBeRead'
  BY <1>1, <1>3 DEF RingInv, WillBeRead, PositionsOK
<1>. QED
  BY <1>4, <1>5

LEMMA ReadPositions ==
  ASSUME RingInv, NEW r \in Rings, ReadRing(r)
  PROVE  PositionsOK' /\ WillBeRead'
<1>1. /\ Turn(r) /\ loaded /\ dataHead > tail[r] /\ tail' = [tail EXCEPT ![r] = dataHead] /\ ~loaded'
      /\ UNCHANGED <<head, lost, order, ready, woken, dataHead, now>>
  BY DEF ReadRing, kernelVars
<1>2. \A q \in Rings : tail'[q] \in Nat /\ tail'[q] <= head[q] /\ head[q] - tail'[q] < Size
  <2>1. /\ tail[r] <= dataHead /\ dataHead <= head[r] /\ dataHead \in Nat
        /\ head \in [Rings -> Nat] /\ tail \in [Rings -> Nat]
        /\ \A q \in Rings : tail[q] <= head[q] /\ head[q] - tail[q] < Size
    BY <1>1 DEF RingInv, PositionsOK
  <2>2. tail' = [tail EXCEPT ![r] = dataHead]
    BY <1>1
  <2>3. \A q \in Rings : tail'[q] = IF q = r THEN dataHead ELSE tail[q]
    BY <2>1, <2>2
  <2>. QED
    BY <2>1, <2>3, SizeIsPositive
<1>3. PositionsOK'
  BY <1>1, <1>2 DEF RingInv, PositionsOK
<1>4. r \in ready
  BY <1>1 DEF Turn
<1>5. WillBeRead'
  BY <1>1, <1>4 DEF RingInv, WillBeRead, PositionsOK
<1>. QED
  BY <1>3, <1>5

LEMMA DonePositions ==
  ASSUME RingInv, NEW r \in Rings, RingDone(r)
  PROVE  PositionsOK' /\ WillBeRead'
<1>1. /\ Turn(r) /\ loaded /\ dataHead = tail[r] /\ ready' = ready \ {r} /\ ~loaded'
      /\ UNCHANGED <<head, tail, lost, order, woken, dataHead, now>>
  BY DEF RingDone, kernelVars
<1>2. PositionsOK'
  BY <1>1 DEF RingInv, PositionsOK
<1>3. WillBeRead'
  BY <1>1 DEF RingInv, WillBeRead
<1>. QED
  BY <1>2, <1>3

-----------------------------------------------------------------------------
(* ... and the lists *)

\* What reading a ring adds.
LEMMA ReadAdds ==
  ASSUME RingInv, NEW r \in Rings, ReadRing(r)
  PROVE  \E read, new :
           /\ List(read) /\ got' = [got EXCEPT ![r] = @ \o read]
           /\ List(new) /\ samples' = samples \o new
           /\ Len(new) = Len(read)
           /\ \A i \in DOMAIN new : i \in 1..Len(read) /\ new[i] = Sample(r, read[i])
<1>. DEFINE words == Available(r, tail[r], dataHead)
            read == ReadAll(words, NoAttr, formatMap)
            new == [i \in DOMAIN read |-> Sample(r, read[i])]
<1>1. tail[r] \in Nat /\ dataHead \in Nat
  BY DEF RingInv, PositionsOK
<1>2. Len(words) \in Nat
  BY <1>1, AvailableIsList
<1>3. List(read)
  <2>. HIDE DEF words
  <2>. QED
    BY <1>2, ReadAllIsList
<1>4. got' = [got EXCEPT ![r] = @ \o read] /\ samples' = samples \o new
  BY DEF ReadRing
<1>. HIDE DEF read
<1>5. Len(read) \in Nat /\ DOMAIN read = 1..Len(read)
  BY <1>3, ListIs
<1>6. List(new) /\ Len(new) = Len(read) /\ DOMAIN new = 1..Len(read)
  BY <1>5, FunctionIsList
<1>7. \A i \in DOMAIN new : i \in 1..Len(read) /\ new[i] = Sample(r, read[i])
  BY <1>5
<1>. QED
  BY <1>3, <1>4, <1>6, <1>7

\* How many samples are kept when a ring is done: one at least, if there are any.
LEMMA Kept1 ==
  ASSUME NEW n \in Nat, NEW l \in Nat, NEW L \in SUBSET ((l + 2)..n)
  PROVE  /\ Cardinality(L) \in Nat /\ Cardinality(L) <= n
         /\ n > 0 => Cardinality(L) < n
<1>1. /\ IsFiniteSet((l + 2)..n)
      /\ Cardinality((l + 2)..n) = IF l + 2 > n THEN 0 ELSE n - (l + 2) + 1
  BY FS_Interval
<1>2. Cardinality(L) <= Cardinality((l + 2)..n) /\ Cardinality(L) \in Nat
  BY <1>1, FS_Subset, FS_CardinalityType
<1>. QED
  BY <1>1, <1>2

\* The samples when a ring is done.
LEMMA DoneSplits ==
  ASSUME RingInv, NEW r \in Rings, RingDone(r)
  PROVE  \E timed : \E keep \in Nat :
           /\ List(timed) /\ Len(timed) = Len(samples)
           /\ \A i \in DOMAIN timed :
                /\ i \in DOMAIN samples
                /\ timed[i] = samples[i] \/ timed[i] = [samples[i] EXCEPT !.time = Normalized(r, @)]
           /\ keep <= Len(samples) /\ (samples # <<>> => keep > 0)
           /\ first' = keep /\ lastIndex' = keep
           /\ samples' = SubSeq(timed, 1, keep)
           /\ pendingSamples' = pendingSamples \o SubSeq(timed, keep + 1, Len(samples))
<1>. DEFINE n == Len(samples)
            timed == [i \in DOMAIN samples |->
                        IF i > first THEN [samples[i] EXCEPT !.time = Normalized(r, @)] ELSE samples[i]]
            later == {i \in (lastIndex + 2)..n : timed[i].time > lastTimestamp}
            keep == IF first = 0 THEN n ELSE n - Cardinality(later)
<1>1. n \in Nat /\ DOMAIN samples = 1..n /\ lastIndex \in Nat /\ (samples # <<>> => n > 0)
  BY ListIs, EmptySeq DEF RingInv, ListsOK, List
<1>2. /\ first' = keep /\ lastIndex' = keep
      /\ samples' = SubSeq(timed, 1, keep)
      /\ pendingSamples' = pendingSamples \o SubSeq(timed, keep + 1, n)
  BY DEF RingDone
<1>3. \A i \in DOMAIN timed :
         /\ i \in DOMAIN samples
         /\ timed[i] = samples[i] \/ timed[i] = [samples[i] EXCEPT !.time = Normalized(r, @)]
  OBVIOUS
<1>4. List(timed) /\ Len(timed) = n
  BY <1>1, FunctionIsList
<1>5. later \in SUBSET ((lastIndex + 2)..n)
  OBVIOUS
<1>. HIDE DEF later, timed, n
<1>6. keep \in Nat /\ keep <= n /\ (samples # <<>> => keep > 0)
  BY <1>1, <1>5, Kept1
<1>. HIDE DEF keep
<1>. QED
  BY <1>2, <1>3, <1>4, <1>6 DEF n

listVars == <<samples, pendingSamples, dispatchChan, batch, dispatched, got, first, lastIndex>>

LEMMA ListsStay ==
  ASSUME RingInv, UNCHANGED listVars
  PROVE  ListsOK' /\ HeldBehind'
BY DEF RingInv, ListsOK, HeldBehind, listVars

LEMMA ReadLists ==
  ASSUME RingInv, NEW r \in Rings, ReadRing(r)
  PROVE  ListsOK' /\ HeldBehind'
<1>1. PICK read, new :
        /\ List(read) /\ got' = [got EXCEPT ![r] = @ \o read]
        /\ List(new) /\ samples' = samples \o new
  BY ReadAdds
<1>2. List(samples) /\ List(got[r])
  BY DEF RingInv, ListsOK
<1>3. List(samples \o new) /\ Len(samples \o new) = Len(samples) + Len(new) /\ List(got[r] \o read)
  BY <1>1, <1>2, Joined
<1>4. UNCHANGED <<pendingSamples, dispatchChan, batch, dispatched, first, lastIndex>>
  BY DEF ReadRing, dispatchVars
<1>5. \A q \in Rings : List(got'[q])
  <2>. TAKE q \in Rings
  <2>1. got'[q] = got[q] \/ got'[q] = got[r] \o read
    BY <1>1
  <2>. QED
    BY <1>3, <2>1 DEF RingInv, ListsOK
<1>6. ListsOK'
  BY <1>1, <1>3, <1>4, <1>5 DEF RingInv, ListsOK
<1>7. HeldBehind'
  <2>1. samples # <<>> => samples' # <<>>
    BY <1>1, <1>2, <1>3, ListIs, EmptySeq DEF List
  <2>. QED
    BY <1>4, <2>1 DEF RingInv, HeldBehind
<1>. QED
  BY <1>6, <1>7

LEMMA PanicAdds ==
  ASSUME RingInv, NEW r \in Rings, ReadPanics(r)
  PROVE  /\ \E read : List(read) /\ got' = [got EXCEPT ![r] = @ \o read]
         /\ \A q \in Rings : List(got'[q]) /\ Len(got[q]) <= Len(got'[q])
<1>. DEFINE read == ReadAll(Available(r, tail[r], dataHead), NoAttr, formatMap)
<1>1. tail[r] \in Nat /\ dataHead \in Nat
  BY DEF RingInv, PositionsOK
<1>2. List(read)
  BY <1>1, AvailableIsList, ReadAllIsList
<1>3. got' = [got EXCEPT ![r] = @ \o read]
  BY DEF ReadPanics
<1>. HIDE DEF read
<1>4. DOMAIN got = Rings /\ \A q \in Rings : List(got[q]) /\ Len(got[q]) \in Nat
  BY ListIs DEF RingInv, ListsOK
<1>5. List(got[r] \o read) /\ Len(got[r]) <= Len(got[r] \o read)
  BY <1>2, <1>4, Joined, ListIs
<1>6. ASSUME NEW q \in Rings PROVE List(got'[q]) /\ Len(got[q]) <= Len(got'[q])
  <2>1. got'[q] = IF q = r THEN got[r] \o read ELSE got[q]
    BY <1>3, <1>4
  <2>. QED
    BY <1>4, <1>5, <2>1
<1>. QED
  BY <1>2, <1>3, <1>6

LEMMA PanicLists ==
  ASSUME RingInv, NEW r \in Rings, ReadPanics(r)
  PROVE  ListsOK' /\ HeldBehind'
<1>1. /\ UNCHANGED <<samples, pendingSamples, dispatchChan, batch, dispatched, first, lastIndex>>
      /\ DOMAIN got' = Rings
  BY DEF ReadPanics, dispatchVars, RingInv, ListsOK
<1>. QED
  BY <1>1, PanicAdds DEF RingInv, ListsOK, HeldBehind

LEMMA DoneLists ==
  ASSUME RingInv, NEW r \in Rings, RingDone(r)
  PROVE  ListsOK' /\ HeldBehind'
<1>1. PICK timed : \E keep \in Nat :
        /\ List(timed) /\ Len(timed) = Len(samples)
        /\ keep <= Len(samples) /\ (samples # <<>> => keep > 0)
        /\ first' = keep /\ lastIndex' = keep
        /\ samples' = SubSeq(timed, 1, keep)
        /\ pendingSamples' = pendingSamples \o SubSeq(timed, keep + 1, Len(samples))
  BY DoneSplits
<1>2. PICK keep \in Nat :
        /\ keep <= Len(samples) /\ (samples # <<>> => keep > 0)
        /\ first' = keep /\ lastIndex' = keep
        /\ samples' = SubSeq(timed, 1, keep)
        /\ pendingSamples' = pendingSamples \o SubSeq(timed, keep + 1, Len(samples))
  BY <1>1
<1>3. List(samples) /\ List(pendingSamples) /\ List(timed) /\ Len(timed) = Len(samples) /\ Len(samples) \in Nat
  BY <1>1, ListIs DEF RingInv, ListsOK
<1>4. List(samples') /\ Len(samples') = keep
  BY <1>2, <1>3, Part
<1>. DEFINE rest == SubSeq(timed, keep + 1, Len(samples))
<1>5. List(rest) /\ Len(rest) = Len(samples) - keep
  BY <1>2, <1>3, Part
<1>6. List(pendingSamples') /\ Len(pendingSamples') = Len(pendingSamples) + Len(rest)
  BY <1>2, <1>3, <1>5, Joined
<1>7. UNCHANGED <<dispatchChan, batch, dispatched, got>>
  BY DEF RingDone, dispatchVars
<1>8. ListsOK'
  BY <1>2, <1>4, <1>6, <1>7 DEF RingInv, ListsOK
<1>9. HeldBehind'
  <2>1. CASE samples # <<>>
    <3>1. Len(samples') # 0
      BY <1>2, <1>4, <2>1
    <3>2. samples' # <<>>
      BY <3>1, EmptyList
    <3>. QED
      BY <3>2 DEF HeldBehind
  <2>2. CASE samples = <<>>
    <3>1. pendingSamples = <<>> /\ Len(samples) = 0
      BY <2>2, EmptyList DEF RingInv, HeldBehind
    <3>2. Len(pendingSamples') = 0
      BY <1>2, <1>5, <1>6, <3>1, EmptyList
    <3>3. pendingSamples' = <<>>
      BY <1>6, <3>2, EmptySeq DEF List
    <3>. QED
      BY <3>3 DEF HeldBehind
  <2>. QED
    BY <2>1, <2>2
<1>. QED
  BY <1>8, <1>9

LEMMA SendLists ==
  ASSUME RingInv, SendSamples
  PROVE  ListsOK' /\ HeldBehind'
<1>. DEFINE list == samples \o pendingSamples
<1>1. /\ dispatchChan' = Append(dispatchChan, list)
      /\ samples' = <<>> /\ pendingSamples' = <<>>
      /\ UNCHANGED <<batch, dispatched, got, first, lastIndex>>
  BY DEF SendSamples, dispatchVars
<1>2. List(list) /\ List(dispatchChan)
  BY Joined DEF RingInv, ListsOK
<1>. HIDE DEF list
<1>3. List(dispatchChan') /\ DOMAIN dispatchChan' = 1..(Len(dispatchChan) + 1)
      /\ \A n \in DOMAIN dispatchChan' : dispatchChan'[n] = IF n = Len(dispatchChan) + 1 THEN list ELSE dispatchChan[n]
  BY <1>1, <1>2, Appended, ListIs
<1>4. \A n \in DOMAIN dispatchChan' : List(dispatchChan'[n])
  <2>. TAKE n \in DOMAIN dispatchChan'
  <2>1. CASE n = Len(dispatchChan) + 1
    BY <1>2, <1>3, <2>1
  <2>2. CASE n # Len(dispatchChan) + 1
    <3>1. n \in DOMAIN dispatchChan
      BY <1>2, <1>3, <2>2, ListIs
    <3>. QED
      BY <1>3, <2>2, <3>1 DEF RingInv, ListsOK
  <2>. QED
    BY <2>1, <2>2
<1>5. ListsOK'
  BY <1>1, <1>3, <1>4, EmptyList DEF RingInv, ListsOK
<1>. QED
  BY <1>1, <1>5 DEF HeldBehind

LEMMA ReceiveLists ==
  ASSUME RingInv, Receive
  PROVE  ListsOK' /\ HeldBehind'
<1>1. /\ dispatchChan # <<>> /\ batch' = Head(dispatchChan) /\ dispatchChan' = Tail(dispatchChan)
      /\ UNCHANGED <<samples, pendingSamples, dispatched, got, first, lastIndex>>
  BY DEF Receive, runVars
<1>2. List(dispatchChan) /\ \A n \in DOMAIN dispatchChan : List(dispatchChan[n])
  BY DEF RingInv, ListsOK
<1>3. List(batch')
  BY <1>1, <1>2, FirstOf
<1>4. List(dispatchChan') /\ \A n \in DOMAIN dispatchChan' : List(dispatchChan'[n])
  BY <1>1, <1>2, FirstOf
<1>5. ListsOK'
  BY <1>1, <1>3, <1>4 DEF RingInv, ListsOK
<1>. QED
  BY <1>1, <1>5 DEF RingInv, HeldBehind

LEMMA DispatchLists ==
  ASSUME RingInv, Dispatch
  PROVE  ListsOK' /\ HeldBehind'
<1>1. PICK i \in DOMAIN batch :
        /\ batch' = RemoveAt(batch, i)
        /\ dispatched' = Append(dispatched, batch[i]) \/ dispatched' = dispatched
  BY DEF Dispatch, Earliest
<1>2. UNCHANGED <<samples, pendingSamples, dispatchChan, got, first, lastIndex>>
  BY DEF Dispatch, runVars
<1>3. List(batch') /\ List(dispatched')
  <2>1. List(batch) /\ List(dispatched)
    BY DEF RingInv, ListsOK
  <2>2. List(RemoveAt(batch, i))
    BY <2>1, Removed
  <2>3. List(Append(dispatched, batch[i]))
    BY <2>1, Appended
  <2>. QED
    BY <1>1, <2>1, <2>2, <2>3
<1>4. ListsOK'
  BY <1>2, <1>3 DEF RingInv, ListsOK
<1>. QED
  BY <1>2, <1>4 DEF RingInv, HeldBehind

LEMMA MapsStep ==
  ASSUME RingInv, [Next]_vars
  PROVE  MapsOK'
<1>1. CASE \E id \in Removable : RemoveAttrs(id) \/ RemoveIDs(id)
  <2>1. /\ DOMAIN formatMap' \subseteq DOMAIN formatMap
        /\ eventIDMap' \subseteq eventIDMap /\ snapshot' = snapshot
    BY <1>1 DEF RemoveAttrs, RemoveIDs, dispatchVars, Restrict
  <2>. QED
    BY <2>1 DEF RingInv, MapsOK
<1>2. CASE DispatchStep
  <2>1. formatMap' = formatMap /\ eventIDMap' = eventIDMap /\ (snapshot' = eventIDMap \/ snapshot' = snapshot)
    BY <1>2 DEF DispatchStep, Receive, Dispatch
  <2>. QED
    BY <2>1 DEF RingInv, MapsOK
<1>3. CASE RunStep \/ (\E s \in Sources : KernelWrite(s[1], s[2], s[3])) \/ UNCHANGED vars
  <2>1. UNCHANGED <<formatMap, eventIDMap, snapshot>>
    BY <1>3 DEF RunStep, Poll, SendSamples, LoadHead, ReadRing, ReadPanics, RingDone, KernelWrite, vars,
                   dispatchVars
  <2>. QED
    BY <2>1 DEF RingInv, MapsOK
<1>. QED
  BY <1>1, <1>2, <1>3 DEF Next

LEMMA RingStep ==
  ASSUME RingInv, [Next]_vars
  PROVE  RingInv'
<1>1. ASSUME NEW r \in Rings, LoadHead(r) PROVE RingInv'
  <2>1. UNCHANGED listVars
    BY <1>1 DEF LoadHead, dispatchVars, listVars
  <2>. QED
    BY <1>1, <2>1, LoadPositions, ListsStay, MapsStep DEF RingInv, Next, RunStep
<1>2. ASSUME NEW r \in Rings, ReadRing(r) PROVE RingInv'
  BY <1>2, ReadPositions, ReadLists, MapsStep DEF RingInv, Next, RunStep
<1>3. ASSUME NEW r \in Rings, RingDone(r) PROVE RingInv'
  BY <1>3, DonePositions, DoneLists, MapsStep DEF RingInv, Next, RunStep
<1>4. ASSUME Poll PROVE RingInv'
  <2>1. List(samples') /\ List(pendingSamples') /\ UNCHANGED <<samples, pendingSamples, dispatchChan, batch, dispatched, got>>
        /\ first' = 0 /\ lastIndex' = 0
    BY <1>4 DEF Poll, dispatchVars, RingInv, ListsOK
  <2>2. ListsOK' /\ HeldBehind'
    BY <2>1 DEF RingInv, ListsOK, HeldBehind
  <2>. QED
    BY <1>4, <2>2, PollPositions, MapsStep DEF RingInv, Next, RunStep
<1>5. ASSUME SendSamples PROVE RingInv'
  <2>1. UNCHANGED ringVars
    BY <1>5 DEF SendSamples, kernelVars, ringVars
  <2>. QED
    BY <1>5, <2>1, RingsStay, SendLists, MapsStep DEF RingInv, Next, RunStep
<1>6. ASSUME Receive PROVE RingInv'
  <2>1. UNCHANGED ringVars
    BY <1>6 DEF Receive, kernelVars, runVars, ringVars
  <2>. QED
    BY <1>6, <2>1, RingsStay, ReceiveLists, MapsStep DEF RingInv, Next, DispatchStep
<1>7. ASSUME Dispatch PROVE RingInv'
  <2>1. UNCHANGED ringVars
    BY <1>7 DEF Dispatch, kernelVars, runVars, ringVars
  <2>. QED
    BY <1>7, <2>1, RingsStay, DispatchLists, MapsStep DEF RingInv, Next, DispatchStep
<1>8. ASSUME NEW s \in Sources, KernelWrite(s[1], s[2], s[3]) PROVE RingInv'
  <2>1. UNCHANGED listVars
    BY <1>8 DEF KernelWrite, runVars, dispatchVars, listVars
  <2>. QED
    BY <1>8, <2>1, WritePositions, ListsStay, MapsStep DEF RingInv, Next
<1>9. ASSUME NEW id \in Removable, RemoveAttrs(id) \/ RemoveIDs(id) PROVE RingInv'
  <2>1. UNCHANGED ringVars /\ UNCHANGED listVars
    BY <1>9 DEF RemoveAttrs, RemoveIDs, kernelVars, runVars, dispatchVars, ringVars, listVars
  <2>. QED
    BY <1>9, <2>1, RingsStay, ListsStay, MapsStep DEF RingInv, Next
<1>10. ASSUME NEW r \in Rings, ReadPanics(r) PROVE RingInv'
  <2>1. UNCHANGED ringVars
    BY <1>10 DEF ReadPanics, kernelVars, ringVars
  <2>2. MapsOK'
    BY <1>10 DEF ReadPanics, dispatchVars, RingInv, MapsOK
  <2>. QED
    BY <1>10, <2>1, <2>2, RingsStay, PanicLists DEF RingInv
<1>11. ASSUME UNCHANGED vars PROVE RingInv'
  <2>1. UNCHANGED ringVars /\ UNCHANGED listVars
    BY <1>11 DEF vars, kernelVars, runVars, dispatchVars, ringVars, listVars
  <2>. QED
    BY <1>11, <2>1, RingsStay, ListsStay, MapsStep DEF RingInv
<1>. QED
  BY <1>1, <1>2, <1>3, <1>4, <1>5, <1>6, <1>7, <1>8, <1>9, <1>10, <1>11 DEF Next, RunStep, DispatchStep

\* The kernel never overwrites what has not been read, and Run never sleeps on
\* a ring that is not empty.
THEOREM RingInvariant == Spec => []RingInv
BY RingInit, RingStep, PTL DEF Spec

\* No record is left in a ring and no sample is set aside while Run has nothing to
\* wake up for (ringBuffer.read, readRingBuffers, Run).
THEOREM NothingForgotten == Spec => []NothingIsForgotten
<1>1. RingInv => NothingIsForgotten
  BY DEF RingInv, WillBeRead, HeldBehind, NothingIsForgotten, Polling
<1>. QED
  BY <1>1, RingInvariant, PTL

-----------------------------------------------------------------------------
(* The order of dispatch *)

Named(x) == StreamOf(x.read) # 0

\* y was written after the poll of the round in which x was read.
After(x, y) == Named(y) => TimeOf(y.read) > x.round

\* y may be dispatched after x.
MayFollow(x, y) == Named(x) /\ Named(y) => x.time <= y.time \/ TimeOf(y.read) > x.round

\* A sample that was read.
IsRead(x) ==
  /\ x = [read |-> x.read, time |-> x.time, ring |-> x.ring, round |-> x.round]
  /\ x.round \in Nat /\ x.round <= now
  /\ Named(x) => x.time \in Int

\* The records of a ring that have not been read.
Unread(r) == {written[r][k] : k \in (Len(got[r]) + 1)..Len(written[r])}

\* The samples of the round, and those of earlier ones.
Collected == Range(samples) \cup Range(pendingSamples)
Queued    == UNION {Range(dispatchChan[n]) : n \in DOMAIN dispatchChan}
Sent      == Range(dispatched) \cup Range(batch) \cup Queued

TimesOK ==
  /\ now \in Nat /\ round \in Nat /\ round <= now
  /\ DOMAIN written = Rings
  /\ \A r \in Rings : List(written[r]) /\ \A w \in Range(written[r]) : w.time \in Nat /\ w.time <= now

SamplesOK ==
  /\ \A x \in Collected \cup Sent : IsRead(x)
  /\ \A x \in Collected : x.round = round
  /\ \A x \in Range(dispatched) : Named(x)

\* What has not been read is late: in the rings that are done with, later than
\* the poll, and in all of them later than the polls of those that were sent.
UnreadIsLate ==
  /\ \A r \in Rings \ ready : \A w \in Unread(r) : w.time > round
  /\ \A r \in Rings : Turn(r) /\ loaded /\ dataHead = tail[r] => \A w \in Unread(r) : w.time > round
  /\ \A x \in Sent, r \in Rings : \A w \in Unread(r) : w.time > x.round

\* What is sent later may be dispatched later.
QueueInOrder ==
  /\ \A x \in Sent, y \in Collected : After(x, y)
  /\ \A m, n \in DOMAIN dispatchChan :
        m < n => \A x \in Range(dispatchChan[m]), y \in Range(dispatchChan[n]) : After(x, y)
  /\ \A x \in Range(dispatched) \cup Range(batch), y \in Queued : After(x, y)
  /\ \A x \in Range(dispatched), y \in Range(batch) : MayFollow(x, y)
  /\ \A i, j \in DOMAIN dispatched : i < j => MayFollow(dispatched[i], dispatched[j])

OrderInv == TimesOK /\ SamplesOK /\ UnreadIsLate /\ QueueInOrder

LEMMA OrderInit == Init => OrderInv
<1>. SUFFICES ASSUME Init PROVE OrderInv
  OBVIOUS
<1>1. /\ samples = <<>> /\ pendingSamples = <<>> /\ dispatchChan = <<>> /\ batch = <<>> /\ dispatched = <<>>
      /\ round = 0 /\ now = 2 /\ written = [r \in Rings |-> <<>>]
      /\ ready = {} /\ DOMAIN dispatchChan = {} /\ DOMAIN dispatched = {}
  BY DEF Init
<1>2. Collected = {} /\ Sent = {} /\ Queued = {} /\ Range(dispatched) = {}
  BY <1>1, EmptyList DEF Collected, Sent, Queued
<1>3. \A r \in Rings : List(written[r]) /\ Range(written[r]) = {} /\ Unread(r) = {}
  <2>. TAKE r \in Rings
  <2>1. written[r] = <<>> /\ got[r] = <<>>
    BY <1>1 DEF Init
  <2>. QED
    BY <2>1, EmptyList DEF Unread
<1>4. TimesOK
  BY <1>1, <1>3 DEF TimesOK
<1>5. SamplesOK /\ UnreadIsLate
  BY <1>2, <1>3 DEF SamplesOK, UnreadIsLate
<1>6. QueueInOrder
  BY <1>1, <1>2 DEF QueueInOrder
<1>. QED
  BY <1>4, <1>5, <1>6 DEF OrderInv

\* The samples stay where they are.
LEMMA SamplesStay ==
  ASSUME OrderInv, UNCHANGED <<samples, pendingSamples, dispatchChan, batch, dispatched, round>>,
         now' \in Nat, now <= now'
  PROVE  /\ Sent' = Sent /\ Collected' = Collected
         /\ SamplesOK' /\ QueueInOrder'
<1>1. Sent' = Sent /\ Collected' = Collected /\ Queued' = Queued
  BY DEF Sent, Collected, Queued
<1>2. round \in Nat /\ now \in Nat
  BY DEF OrderInv, TimesOK
<1>3. SamplesOK'
  BY <1>1, <1>2 DEF OrderInv, TimesOK, SamplesOK, IsRead, Named
<1>4. QueueInOrder'
  BY <1>1 DEF OrderInv, QueueInOrder, After, MayFollow, Named
<1>. QED
  BY <1>1, <1>3, <1>4

LEMMA OrderStays ==
  ASSUME OrderInv,
         UNCHANGED <<written, got, samples, pendingSamples, dispatchChan, batch, dispatched, round, now,
                     tail, order, ready, loaded, dataHead>>
  PROVE  OrderInv'
<1>1. Sent' = Sent /\ SamplesOK' /\ QueueInOrder'
  BY SamplesStay DEF OrderInv, TimesOK
<1>2. \A r \in Rings : Unread(r)' = Unread(r) /\ (Turn(r)' <=> Turn(r))
  BY DEF Unread, Turn
<1>3. TimesOK' /\ UnreadIsLate'
  BY <1>1, <1>2 DEF OrderInv, TimesOK, UnreadIsLate
<1>. QED
  BY <1>1, <1>3 DEF OrderInv

LEMMA OneElement ==
  ASSUME NEW x
  PROVE  List(<<x>>) /\ Range(<<x>>) = {x}
<1>1. <<x>> \in Seq({x}) /\ Len(<<x>>) = 1 /\ <<x>>[1] = x
  OBVIOUS
<1>2. Range(<<x>>) = {x}
  BY <1>1, RangeOfSeq DEF Range
<1>. QED
  BY <1>1, <1>2, SeqIsList

\* List t begins with list s, and what is added has been written at a time.
Extends(t, s, time) ==
  /\ List(t) /\ Len(s) <= Len(t)
  /\ \A k \in 1..Len(t) : IF k <= Len(s) THEN t[k] = s[k] ELSE t[k].time = time

LEMMA JoinedExtends ==
  ASSUME NEW s, NEW t, NEW more, NEW time, List(s), List(more), Extends(t, s, time),
         \A w \in Range(more) : w.time = time
  PROVE  Extends(t \o more, s, time)
<1>1. /\ Len(s) \in Nat /\ Len(t) \in Nat /\ Len(more) \in Nat
      /\ \A k \in 1..Len(more) : more[k].time = time
  BY ListIs DEF Extends
<1>2. /\ List(t \o more) /\ Len(t \o more) = Len(t) + Len(more)
      /\ \A i \in 1..(Len(t) + Len(more)) : (t \o more)[i] = IF i <= Len(t) THEN t[i] ELSE more[i - Len(t)]
  BY Joined DEF Extends
<1>3. ASSUME NEW k \in 1..Len(t \o more)
      PROVE  IF k <= Len(s) THEN (t \o more)[k] = s[k] ELSE (t \o more)[k].time = time
  <2>1. CASE k <= Len(t)
    <3>1. (t \o more)[k] = t[k] /\ k \in 1..Len(t)
      BY <1>1, <1>2, <2>1
    <3>. QED
      BY <3>1 DEF Extends
  <2>2. CASE ~(k <= Len(t))
    <3>1. (t \o more)[k] = more[k - Len(t)] /\ k - Len(t) \in 1..Len(more) /\ ~(k <= Len(s))
      BY <1>1, <1>2, <2>2 DEF Extends
    <3>. QED
      BY <1>1, <3>1
  <2>. QED
    BY <2>1, <2>2
<1>. QED
  BY <1>1, <1>2, <1>3 DEF Extends

\* What the kernel writes.
LEMMA WriteAdds ==
  ASSUME OrderInv, NEW r \in Rings, NEW id, NEW type, KernelWrite(r, id, type)
  PROVE  /\ DOMAIN written' = Rings
         /\ \A q \in Rings : Extends(written'[q], written[q], now + 2)
<1>. DEFINE entry(t) == [type |-> t, id |-> id, time |-> now + 2]
            report == IF lost[r] = 0 THEN <<>> ELSE <<entry("LOST")>>
            record == <<entry(type)>>
<1>1. List(report) /\ \A w \in Range(report) : w.time = now + 2
  <2>1. List(<<entry("LOST")>>) /\ Range(<<entry("LOST")>>) = {entry("LOST")}
    BY OneElement
  <2>. QED
    BY <2>1, EmptyList
<1>2. List(record) /\ \A w \in Range(record) : w.time = now + 2
  BY OneElement
<1>3. /\ written' = [written EXCEPT ![r] = @ \o report \o record] \/ written' = written
      /\ DOMAIN written = Rings
  BY DEF KernelWrite, OrderInv, TimesOK
<1>. HIDE DEF report, record
<1>4. \A q \in Rings : List(written[q]) /\ Extends(written[q], written[q], now + 2)
  BY ListIs DEF OrderInv, TimesOK, Extends
<1>5. Extends(written[r] \o report, written[r], now + 2)
  BY <1>1, <1>4, JoinedExtends
<1>6. Extends(written[r] \o report \o record, written[r], now + 2)
  BY <1>2, <1>4, <1>5, JoinedExtends
<1>7. \A q \in Rings : written'[q] = written[q] \/ (q = r /\ written'[q] = written[r] \o report \o record)
  BY <1>3
<1>. QED
  BY <1>3, <1>4, <1>6, <1>7

LEMMA WriteOrder ==
  ASSUME RingInv, OrderInv, NEW s \in Sources, KernelWrite(s[1], s[2], s[3])
  PROVE  OrderInv'
<1>1. s[1] \in Rings
  BY SourcesHaveRings
<1>2. /\ now' = now + 2 /\ now \in Nat /\ round \in Nat /\ round <= now
      /\ UNCHANGED <<samples, pendingSamples, dispatchChan, batch, dispatched, round, got, tail, order, ready,
                     loaded, dataHead>>
  <2>1. UNCHANGED <<runVars, dispatchVars, order, dispatchChan>> /\ now' = now + 2
    BY DEF KernelWrite
  <2>. QED
    BY <2>1 DEF OrderInv, TimesOK, runVars, dispatchVars
<1>3. Sent' = Sent /\ SamplesOK' /\ QueueInOrder'
  BY <1>2, SamplesStay
<1>4. DOMAIN written' = Rings
  BY <1>1, WriteAdds
<1>5. ASSUME NEW q \in Rings
      PROVE  /\ List(written'[q]) /\ \A w \in Range(written'[q]) : w.time \in Nat /\ w.time <= now'
             /\ \A w \in Unread(q)' : w \in Unread(q) \/ w.time = now + 2
  <2>1. List(written[q]) /\ \A w \in Range(written[q]) : w.time \in Nat /\ w.time <= now
    BY DEF OrderInv, TimesOK
  <2>2. /\ List(written'[q]) /\ DOMAIN written'[q] = 1..Len(written'[q])
        /\ Len(written[q]) \in Nat /\ Len(written'[q]) \in Nat /\ Len(got[q]) \in Nat
        /\ \A k \in 1..Len(written'[q]) :
             \/ k \in DOMAIN written[q] /\ k <= Len(written[q]) /\ written'[q][k] = written[q][k]
             \/ written'[q][k].time = now + 2
    <3>1. Extends(written'[q], written[q], now + 2)
      BY <1>1, WriteAdds
    <3>2. List(written'[q])
      BY <3>1 DEF Extends
    <3>3. /\ DOMAIN written'[q] = 1..Len(written'[q]) /\ Len(written'[q]) \in Nat
          /\ DOMAIN written[q] = 1..Len(written[q]) /\ Len(written[q]) \in Nat
          /\ Len(got[q]) \in Nat
      BY <2>1, <3>2, ListIs DEF RingInv, ListsOK
    <3>. QED
      BY <3>1, <3>2, <3>3 DEF Extends
  <2>3. \A w \in Range(written'[q]) : w.time \in Nat /\ w.time <= now'
    <3>. SUFFICES ASSUME NEW k \in DOMAIN written'[q]
                  PROVE  written'[q][k].time \in Nat /\ written'[q][k].time <= now'
      BY DEF Range
    <3>1. CASE k \in DOMAIN written[q] /\ written'[q][k] = written[q][k]
      BY <1>2, <2>1, <3>1, ListIs
    <3>2. CASE written'[q][k].time = now + 2
      BY <1>2, <3>2
    <3>. QED
      BY <2>2, <3>1, <3>2
  <2>4. ASSUME NEW w \in Unread(q)' PROVE w \in Unread(q) \/ w.time = now + 2
    <3>1. PICK k \in (Len(got[q]) + 1)..Len(written'[q]) : w = written'[q][k]
      BY <1>2 DEF Unread
    <3>2. k \in 1..Len(written'[q])
      BY <2>2
    <3>3. CASE k <= Len(written[q]) /\ written'[q][k] = written[q][k]
      <4>1. k \in (Len(got[q]) + 1)..Len(written[q])
        BY <2>2, <3>3
      <4>. QED
        BY <3>1, <3>3, <4>1 DEF Unread
    <3>. QED
      BY <2>2, <3>1, <3>2, <3>3
  <2>. QED
    BY <2>2, <2>3, <2>4
<1>6. TimesOK'
  BY <1>2, <1>4, <1>5 DEF TimesOK
<1>7. \A q \in Rings : Turn(q)' <=> Turn(q)
  BY <1>2 DEF Turn
<1>8. \A x \in Sent : x.round \in Nat /\ x.round <= now
  BY DEF OrderInv, SamplesOK, IsRead
<1>9. UnreadIsLate'
  <2>1. \A q \in Rings \ ready' : \A w \in Unread(q)' : w.time > round'
    BY <1>2, <1>5 DEF OrderInv, UnreadIsLate
  <2>2. \A q \in Rings : Turn(q)' /\ loaded' /\ dataHead' = tail'[q] => \A w \in Unread(q)' : w.time > round'
    BY <1>2, <1>5, <1>7 DEF OrderInv, UnreadIsLate
  <2>3. \A x \in Sent', q \in Rings : \A w \in Unread(q)' : w.time > x.round
    BY <1>2, <1>3, <1>5, <1>8 DEF OrderInv, UnreadIsLate
  <2>. QED
    BY <2>1, <2>2, <2>3 DEF UnreadIsLate
<1>. QED
  BY <1>3, <1>6, <1>9 DEF OrderInv

\* A ring that has been read to its head has nothing unread.
LEMMA EmptyRing ==
  ASSUME RingInv, OrderInv, ReadsBack, NEW r \in Rings, tail[r] = head[r]
  PROVE  Unread(r) = {}
<1>1. Len(got[r]) = Len(written[r]) /\ Len(got[r]) \in Nat
  BY ListIs DEF RingInv, ListsOK, ReadsBack
<1>. QED
  BY <1>1 DEF Unread

LEMMA PollOrder ==
  ASSUME RingInv, OrderInv, ReadsBack, Poll
  PROVE  OrderInv'
<1>1. /\ ready = {} /\ samples = <<>> /\ ready' = woken /\ round' = now /\ pendingSamples = <<>>
      /\ UNCHANGED <<head, tail, written, got, now, loaded, samples, pendingSamples, dispatchChan, batch, dispatched>>
  BY DEF Poll, Polling, kernelVars, dispatchVars, RingInv, HeldBehind
<1>2. ~loaded'
  BY <1>1 DEF RingInv, PositionsOK
<1>3. Sent' = Sent /\ Queued' = Queued /\ Collected' = {}
  BY <1>1, EmptyList DEF Sent, Queued, Collected
<1>4. \A r \in Rings : Unread(r)' = Unread(r)
  BY <1>1 DEF Unread
<1>5. TimesOK'
  BY <1>1 DEF OrderInv, TimesOK
<1>6. SamplesOK'
  BY <1>1, <1>3 DEF OrderInv, SamplesOK, IsRead, Named
<1>7. UnreadIsLate'
  <2>1. ASSUME NEW r \in Rings \ ready' PROVE Unread(r)' = {}
    <3>1. tail[r] = head[r]
      BY <1>1 DEF RingInv, WillBeRead
    <3>. QED
      BY <1>4, <3>1, EmptyRing
  <2>. QED
    BY <1>2, <1>3, <1>4, <2>1 DEF OrderInv, UnreadIsLate
<1>8. QueueInOrder'
  BY <1>1, <1>3 DEF OrderInv, QueueInOrder, After, MayFollow, Named
<1>. QED
  BY <1>5, <1>6, <1>7, <1>8 DEF OrderInv

LEMMA LoadOrder ==
  ASSUME RingInv, OrderInv, ReadsBack, NEW r \in Rings, LoadHead(r)
  PROVE  OrderInv'
<1>1. /\ Turn(r) /\ dataHead' = head[r]
      /\ UNCHANGED <<written, got, samples, pendingSamples, dispatchChan, batch, dispatched, round, now,
                     tail, order, ready>>
  BY DEF LoadHead, kernelVars, dispatchVars
<1>2. Sent' = Sent /\ SamplesOK' /\ QueueInOrder'
  BY <1>1, SamplesStay DEF OrderInv, TimesOK
<1>3. \A q \in Rings : Unread(q)' = Unread(q) /\ (Turn(q)' <=> Turn(q))
  BY <1>1 DEF Unread, Turn
<1>4. ASSUME NEW q \in Rings, Turn(q)', dataHead' = tail'[q] PROVE Unread(q)' = {}
  <2>1. q = r
    BY <1>1, <1>3, <1>4, OneTurn DEF RingInv
  <2>2. tail[r] = head[r]
    BY <1>1, <1>4, <2>1
  <2>. QED
    BY <1>3, <2>1, <2>2, EmptyRing
<1>5. TimesOK'
  BY <1>1 DEF OrderInv, TimesOK
<1>6. UnreadIsLate'
  BY <1>1, <1>2, <1>3, <1>4 DEF OrderInv, UnreadIsLate
<1>. QED
  BY <1>2, <1>5, <1>6 DEF OrderInv

LEMMA ReadOrder ==
  ASSUME RingInv, OrderInv, RingInv', ReadsBack', NEW r \in Rings, ReadRing(r)
  PROVE  OrderInv'
<1>1. PICK read, new :
        /\ List(read) /\ got' = [got EXCEPT ![r] = @ \o read]
        /\ List(new) /\ samples' = samples \o new
        /\ Len(new) = Len(read)
        /\ \A i \in DOMAIN new : i \in 1..Len(read) /\ new[i] = Sample(r, read[i])
  BY ReadAdds
<1>2. /\ UNCHANGED <<written, now, ready, order, round, pendingSamples, dispatchChan, batch, dispatched>>
      /\ ~loaded'
  BY DEF ReadRing, kernelVars, dispatchVars
<1>3. /\ List(samples) /\ List(got[r]) /\ DOMAIN got = Rings /\ \A q \in Rings : List(got'[q])
      /\ Len(got[r]) \in Nat /\ Len(read) \in Nat
  BY <1>1, ListIs DEF RingInv, ListsOK
<1>4. /\ Collected' = Collected \cup Range(new) /\ Sent' = Sent /\ Queued' = Queued
  <2>1. Range(samples \o new) = Range(samples) \cup Range(new)
    BY <1>1, <1>3, Joined
  <2>. QED
    BY <1>1, <1>2, <2>1 DEF Collected, Sent, Queued
<1>5. /\ Len(got'[r]) = Len(got[r]) + Len(read) /\ \A q \in Rings : q = r \/ got'[q] = got[q]
      /\ \A i \in 1..Len(read) : got'[r][Len(got[r]) + i] = read[i]
  <2>1. got'[r] = got[r] \o read /\ \A q \in Rings : q = r \/ got'[q] = got[q]
    BY <1>1, <1>3
  <2>2. /\ Len(got[r] \o read) = Len(got[r]) + Len(read)
        /\ \A i \in 1..(Len(got[r]) + Len(read)) :
              (got[r] \o read)[i] = IF i <= Len(got[r]) THEN got[r][i] ELSE read[i - Len(got[r])]
    BY <1>1, <1>3, Joined
  <2>3. ASSUME NEW i \in 1..Len(read) PROVE got'[r][Len(got[r]) + i] = read[i]
    <3>1. /\ Len(got[r]) + i \in 1..(Len(got[r]) + Len(read)) /\ ~(Len(got[r]) + i <= Len(got[r]))
          /\ (Len(got[r]) + i) - Len(got[r]) = i
      BY <1>3
    <3>. QED
      BY <2>1, <2>2, <3>1
  <2>. QED
    BY <2>1, <2>2, <2>3
<1>6. \A q \in Rings : Unread(q)' \subseteq Unread(q)
  <2>. TAKE q \in Rings
  <2>1. CASE q = r
    <3>1. (Len(got'[r]) + 1)..Len(written[r]) \subseteq (Len(got[r]) + 1)..Len(written[r])
      BY <1>3, <1>5
    <3>. QED
      BY <1>2, <2>1, <3>1 DEF Unread
  <2>2. CASE q # r
    BY <1>2, <1>5, <2>2 DEF Unread
  <2>. QED
    BY <2>1, <2>2
<1>7. ASSUME NEW x \in Range(new)
      PROVE  /\ x = Sample(r, x.read) /\ x.round = round /\ x.time = TimeOf(x.read)
             /\ Named(x) => \E w \in Unread(r) : TimeOf(x.read) = w.time
  <2>1. PICK i \in 1..Len(read) : x = Sample(r, read[i])
    BY <1>1 DEF Range
  <2>2. x.read = read[i] /\ x = Sample(r, x.read) /\ x.round = round /\ x.time = TimeOf(x.read)
    BY <2>1 DEF Sample
  <2>3. /\ Len(got[r]) + i \in DOMAIN got'[r] /\ got'[r][Len(got[r]) + i] = read[i]
        /\ Len(got'[r]) <= Len(written'[r]) /\ Len(written'[r]) = Len(written[r])
    <3>1. DOMAIN got'[r] = 1..Len(got'[r])
      BY <1>3, ListIs
    <3>2. Len(got[r]) + i \in DOMAIN got'[r]
      BY <1>3, <1>5, <3>1
    <3>3. Len(got'[r]) <= Len(written'[r])
      BY DEF ReadsBack
    <3>4. written' = written
      BY <1>2
    <3>. QED
      BY <1>5, <3>2, <3>3, <3>4
  <2>4. Named(x) => TimeOf(x.read) = written[r][Len(got[r]) + i].time
    <3>1. StreamOf(got'[r][Len(got[r]) + i]) # 0
             => TimeOf(got'[r][Len(got[r]) + i]) = written'[r][Len(got[r]) + i].time
      BY <2>3 DEF ReadsBack
    <3>. QED
      BY <1>2, <2>2, <2>3, <3>1 DEF Named
  <2>5. written[r][Len(got[r]) + i] \in Unread(r)
    <3>1. Len(written[r]) \in Nat
      BY ListIs DEF OrderInv, TimesOK
    <3>2. Len(got[r]) + i \in (Len(got[r]) + 1)..Len(written[r])
      BY <1>3, <1>5, <2>3, <3>1
    <3>. QED
      BY <3>2 DEF Unread
  <2>. QED
    BY <2>2, <2>4, <2>5
<1>8. \A w \in Unread(r) : w.time \in Nat
  <2>. TAKE w \in Unread(r)
  <2>1. List(written[r]) /\ \A v \in Range(written[r]) : v.time \in Nat
    BY DEF OrderInv, TimesOK
  <2>2. PICK k \in (Len(got[r]) + 1)..Len(written[r]) : w = written[r][k]
    BY DEF Unread
  <2>3. k \in DOMAIN written[r]
    BY <1>3, <2>1, ListIs
  <2>. QED
    BY <2>1, <2>2, <2>3, ListIs
<1>9. TimesOK'
  BY <1>2 DEF OrderInv, TimesOK
<1>10. SamplesOK'
  <2>1. ASSUME NEW x \in Range(new) PROVE IsRead(x)'
    <3>1. x = [read |-> x.read, time |-> x.time, ring |-> x.ring, round |-> x.round]
      BY <1>7 DEF Sample
    <3>2. round \in Nat /\ round <= now
      BY DEF OrderInv, TimesOK
    <3>3. Named(x) => x.time \in Int
      BY <1>7, <1>8
    <3>. QED
      BY <1>2, <1>7, <3>1, <3>2, <3>3 DEF IsRead, Named
  <2>2. \A x \in Collected \cup Sent : IsRead(x)'
    BY <1>2 DEF OrderInv, SamplesOK, IsRead, Named
  <2>. QED
    BY <1>2, <1>4, <1>7, <2>1, <2>2 DEF OrderInv, SamplesOK, Named
<1>11. UnreadIsLate'
  BY <1>2, <1>4, <1>6 DEF OrderInv, UnreadIsLate
<1>12. QueueInOrder'
  <2>1. \A x \in Sent, y \in Range(new) : After(x, y)
    BY <1>7 DEF OrderInv, UnreadIsLate, After
  <2>. QED
    BY <1>2, <1>4, <2>1 DEF OrderInv, QueueInOrder, After, MayFollow, Named
<1>. QED
  BY <1>9, <1>10, <1>11, <1>12 DEF OrderInv

LEMMA PanicOrder ==
  ASSUME RingInv, OrderInv, NEW r \in Rings, ReadPanics(r)
  PROVE  OrderInv'
<1>1. UNCHANGED <<written, samples, pendingSamples, dispatchChan, batch, dispatched, round, now, tail, order,
                  ready, loaded, dataHead>>
  BY DEF ReadPanics, kernelVars, dispatchVars
<1>2. \A q \in Rings : Unread(q)' \subseteq Unread(q)
  <2>. TAKE q \in Rings
  <2>1. /\ Len(got[q]) \in Nat /\ Len(got'[q]) \in Nat /\ Len(got[q]) <= Len(got'[q])
        /\ Len(written[q]) \in Nat
    BY PanicAdds, ListIs DEF RingInv, ListsOK, OrderInv, TimesOK
  <2>2. (Len(got'[q]) + 1)..Len(written[q]) \subseteq (Len(got[q]) + 1)..Len(written[q])
    BY <2>1
  <2>. QED
    BY <1>1, <2>2 DEF Unread
<1>3. Sent' = Sent /\ SamplesOK' /\ QueueInOrder'
  BY <1>1, SamplesStay DEF OrderInv, TimesOK
<1>4. TimesOK'
  BY <1>1 DEF OrderInv, TimesOK
<1>5. UnreadIsLate'
  <2>1. \A q \in Rings : Turn(q)' <=> Turn(q)
    BY <1>1 DEF Turn
  <2>. QED
    BY <1>1, <1>2, <1>3, <2>1 DEF OrderInv, UnreadIsLate
<1>. QED
  BY <1>3, <1>4, <1>5 DEF OrderInv

LEMMA NormalizedIsTime ==
  ASSUME ReadsBack, NEW r \in Rings, NEW t \in Int
  PROVE  Normalized(r, t) \in Int
<1>1. /\ timeOffset[r] = (2 - RunningFor[r]) % TimeWidth
      /\ RunningFor[r] \in Nat /\ TimeBase[r] \in Nat /\ TimeWidth \in Nat \ {0}
  BY ClocksAreTimes DEF ReadsBack
<1>2. timeOffset[r] \in Int
  BY <1>1
<1>3. (t - timeOffset[r]) % TimeWidth \in Int
  BY <1>1, <1>2
<1>. QED
  BY <1>1, <1>3 DEF Normalized

LEMMA DoneOrder ==
  ASSUME RingInv, OrderInv, ReadsBack, NEW r \in Rings, RingDone(r)
  PROVE  OrderInv'
<1>1. PICK timed : \E keep \in Nat :
        /\ List(timed) /\ Len(timed) = Len(samples)
        /\ \A i \in DOMAIN timed :
             /\ i \in DOMAIN samples
             /\ timed[i] = samples[i] \/ timed[i] = [samples[i] EXCEPT !.time = Normalized(r, @)]
        /\ keep <= Len(samples)
        /\ samples' = SubSeq(timed, 1, keep)
        /\ pendingSamples' = pendingSamples \o SubSeq(timed, keep + 1, Len(samples))
  BY DoneSplits
<1>2. PICK keep \in Nat :
        /\ keep <= Len(samples)
        /\ samples' = SubSeq(timed, 1, keep)
        /\ pendingSamples' = pendingSamples \o SubSeq(timed, keep + 1, Len(samples))
  BY <1>1
<1>3. /\ Turn(r) /\ loaded /\ dataHead = tail[r] /\ ready' = ready \ {r} /\ ~loaded'
      /\ UNCHANGED <<written, got, now, order, round, dispatchChan, batch, dispatched>>
  BY DEF RingDone, kernelVars, dispatchVars
<1>4. Collected' \subseteq Collected \cup Range(timed)
  <2>1. List(samples) /\ List(pendingSamples) /\ Len(samples) \in Nat /\ List(timed) /\ Len(timed) = Len(samples)
    BY <1>1, ListIs DEF RingInv, ListsOK
  <2>2. Range(samples') \subseteq Range(timed)
    BY <1>2, <2>1, Part
  <2>. DEFINE rest == SubSeq(timed, keep + 1, Len(samples))
  <2>3. List(rest) /\ Range(rest) \subseteq Range(timed)
    BY <2>1, Part
  <2>4. Range(pendingSamples') = Range(pendingSamples) \cup Range(rest)
    <3>. HIDE DEF rest
    <3>1. Range(pendingSamples \o rest) = Range(pendingSamples) \cup Range(rest)
      BY <2>1, <2>3, Joined
    <3>. QED
      BY <1>2, <3>1 DEF rest
  <2>. QED
    BY <2>2, <2>3, <2>4 DEF Collected
<1>5. ASSUME NEW y \in Collected'
      PROVE  \E x \in Collected : y = x \/ y = [x EXCEPT !.time = Normalized(r, @)]
  <2>1. CASE y \in Range(timed)
    <3>1. PICK i \in DOMAIN timed : y = timed[i]
      BY <2>1 DEF Range
    <3>2. samples[i] \in Collected
      BY <1>1 DEF Collected, Range
    <3>. QED
      BY <1>1, <3>1, <3>2
  <2>. QED
    BY <1>4, <2>1
<1>6. ASSUME NEW y \in Collected'
      PROVE  IsRead(y) /\ y.round = round /\ \E x \in Collected : y.read = x.read
  <2>1. PICK x \in Collected : y = x \/ y = [x EXCEPT !.time = Normalized(r, @)]
    BY <1>5
  <2>2. IsRead(x) /\ x.round = round
    BY DEF OrderInv, SamplesOK
  <2>3. CASE y = [x EXCEPT !.time = Normalized(r, @)]
    <3>1. /\ y.read = x.read /\ y.round = x.round /\ y.ring = x.ring /\ y.time = Normalized(r, x.time)
          /\ y = [read |-> y.read, time |-> y.time, ring |-> y.ring, round |-> y.round]
      BY <2>2, <2>3 DEF IsRead
    <3>2. Named(y) => y.time \in Int
      BY <2>2, <3>1, NormalizedIsTime DEF IsRead, Named
    <3>. QED
      BY <2>2, <3>1, <3>2 DEF IsRead
  <2>. QED
    BY <2>1, <2>2, <2>3
<1>7. Sent' = Sent /\ Queued' = Queued /\ \A q \in Rings : Unread(q)' = Unread(q)
  BY <1>3 DEF Sent, Queued, Unread
<1>8. TimesOK'
  BY <1>3 DEF OrderInv, TimesOK
<1>9. SamplesOK'
  BY <1>3, <1>6, <1>7 DEF OrderInv, SamplesOK, IsRead, Named
<1>10. UnreadIsLate'
  BY <1>3, <1>7 DEF OrderInv, UnreadIsLate
<1>11. QueueInOrder'
  <2>1. \A x \in Sent, y \in Collected' : After(x, y)
    BY <1>6 DEF OrderInv, QueueInOrder, After, Named
  <2>. QED
    BY <1>3, <1>7, <2>1 DEF OrderInv, QueueInOrder, After, MayFollow, Named
<1>. QED
  BY <1>8, <1>9, <1>10, <1>11 DEF OrderInv

LEMMA SendOrder ==
  ASSUME RingInv, OrderInv, SendSamples
  PROVE  OrderInv'
<1>. DEFINE list == samples \o pendingSamples
            n == Len(dispatchChan)
<1>1. /\ dispatchChan' = Append(dispatchChan, list) /\ ready = {}
      /\ samples' = <<>> /\ pendingSamples' = <<>>
      /\ UNCHANGED <<written, got, now, ready, loaded, dataHead, tail, order, round, batch, dispatched>>
  BY DEF SendSamples, kernelVars, dispatchVars
<1>2. Range(list) = Collected /\ List(dispatchChan) /\ n \in Nat /\ DOMAIN dispatchChan = 1..n
  BY Joined, ListIs DEF RingInv, ListsOK, Collected
<1>. HIDE DEF list
<1>3. /\ DOMAIN dispatchChan' = 1..(n + 1)
      /\ \A k \in 1..n : dispatchChan'[k] = dispatchChan[k]
      /\ dispatchChan'[n + 1] = list
  BY <1>1, <1>2, Appended, ListIs
<1>. HIDE DEF n
<1>4. ASSUME NEW k \in DOMAIN dispatchChan'
      PROVE  \/ k \in DOMAIN dispatchChan /\ Range(dispatchChan'[k]) = Range(dispatchChan[k])
             \/ k = n + 1 /\ Range(dispatchChan'[k]) = Collected
  BY <1>2, <1>3
<1>5. Queued' = Queued \cup Collected
  <2>1. Queued' \subseteq Queued \cup Collected
    BY <1>4 DEF Queued
  <2>2. Queued \subseteq Queued'
    <3>1. \A k \in DOMAIN dispatchChan : k \in DOMAIN dispatchChan' /\ dispatchChan'[k] = dispatchChan[k]
      BY <1>2, <1>3
    <3>. QED
      BY <3>1 DEF Queued
  <2>3. Collected \subseteq Queued'
    <3>1. n + 1 \in DOMAIN dispatchChan' /\ Range(dispatchChan'[n + 1]) = Collected
      BY <1>2, <1>3
    <3>. QED
      BY <3>1 DEF Queued
  <2>. QED
    BY <2>1, <2>2, <2>3
<1>6. Sent' = Sent \cup Collected /\ Collected' = {} /\ \A r \in Rings : Unread(r)' = Unread(r)
  BY <1>1, <1>5, EmptyList DEF Sent, Collected, Unread
<1>7. TimesOK'
  BY <1>1 DEF OrderInv, TimesOK
<1>8. SamplesOK'
  BY <1>1, <1>6 DEF OrderInv, SamplesOK, IsRead, Named
<1>9. UnreadIsLate'
  <2>1. \A x \in Collected, r \in Rings : \A w \in Unread(r) : w.time > x.round
    BY <1>1 DEF OrderInv, SamplesOK, UnreadIsLate
  <2>2. \A r \in Rings : ~Turn(r)'
    BY <1>1 DEF Turn
  <2>. QED
    BY <1>1, <1>6, <2>1, <2>2 DEF OrderInv, UnreadIsLate
<1>10. QueueInOrder'
  <2>1. ASSUME NEW k \in DOMAIN dispatchChan', NEW m \in DOMAIN dispatchChan', k < m,
               NEW x \in Range(dispatchChan'[k]), NEW y \in Range(dispatchChan'[m])
        PROVE  After(x, y)
    <3>1. k \in DOMAIN dispatchChan /\ Range(dispatchChan'[k]) = Range(dispatchChan[k])
      BY <1>2, <1>3, <2>1
    <3>2. CASE m \in DOMAIN dispatchChan /\ Range(dispatchChan'[m]) = Range(dispatchChan[m])
      BY <2>1, <3>1, <3>2 DEF OrderInv, QueueInOrder
    <3>3. CASE Range(dispatchChan'[m]) = Collected
      <4>1. x \in Sent
        BY <3>1 DEF Sent, Queued
      <4>. QED
        BY <3>3, <4>1 DEF OrderInv, QueueInOrder
    <3>. QED
      BY <1>4, <3>2, <3>3
  <2>2. \A x \in Range(dispatched) \cup Range(batch), y \in Queued \cup Collected : After(x, y)
    BY DEF OrderInv, QueueInOrder, Sent
  <2>3. /\ \A x \in Range(dispatched), y \in Range(batch) : MayFollow(x, y)
        /\ \A i, j \in DOMAIN dispatched : i < j => MayFollow(dispatched[i], dispatched[j])
    BY DEF OrderInv, QueueInOrder
  <2>. QED
    BY <1>1, <1>5, <1>6, <2>1, <2>2, <2>3 DEF QueueInOrder, After, MayFollow, Named
<1>. QED
  BY <1>7, <1>8, <1>9, <1>10 DEF OrderInv

LEMMA ReceiveOrder ==
  ASSUME RingInv, OrderInv, Receive
  PROVE  OrderInv'
<1>1. /\ dispatchChan # <<>> /\ batch' = Head(dispatchChan) /\ dispatchChan' = Tail(dispatchChan) /\ batch = <<>>
      /\ UNCHANGED <<written, got, now, ready, loaded, dataHead, tail, order, round, samples, pendingSamples,
                     dispatched>>
  BY DEF Receive, kernelVars, runVars
<1>2. List(dispatchChan)
  BY DEF RingInv, ListsOK
<1>3. /\ 1 \in DOMAIN dispatchChan /\ batch' = dispatchChan[1]
      /\ \A k \in DOMAIN dispatchChan' :
           k \in Nat \ {0} /\ k + 1 \in DOMAIN dispatchChan /\ dispatchChan'[k] = dispatchChan[k + 1]
  <2>1. \A k \in DOMAIN Tail(dispatchChan) : k \in Nat \ {0}
    BY <1>1, <1>2, FirstOf, ListIs
  <2>. QED
    BY <1>1, <1>2, <2>1, FirstOf
<1>4. Range(batch') \subseteq Queued /\ Queued' \subseteq Queued
  <2>1. Range(dispatchChan[1]) \subseteq Queued
    BY <1>3 DEF Queued
  <2>2. \A k \in DOMAIN dispatchChan' : Range(dispatchChan'[k]) \subseteq Queued
    BY <1>3 DEF Queued
  <2>. QED
    BY <1>3, <2>1, <2>2 DEF Queued
<1>5. Sent' \subseteq Sent /\ Collected' = Collected /\ \A r \in Rings : Unread(r)' = Unread(r) /\ (Turn(r)' <=> Turn(r))
  BY <1>1, <1>4 DEF Sent, Collected, Unread, Turn
<1>6. TimesOK'
  BY <1>1 DEF OrderInv, TimesOK
<1>7. SamplesOK'
  BY <1>1, <1>5 DEF OrderInv, SamplesOK, IsRead, Named
<1>8. UnreadIsLate'
  BY <1>1, <1>5 DEF OrderInv, UnreadIsLate
<1>9. QueueInOrder'
  <2>1. ASSUME NEW k \in DOMAIN dispatchChan', NEW m \in DOMAIN dispatchChan', k < m,
               NEW x \in Range(dispatchChan'[k]), NEW y \in Range(dispatchChan'[m])
        PROVE  After(x, y)
    <3>1. k + 1 < m + 1
      BY <1>3, <2>1
    <3>. QED
      BY <1>3, <2>1, <3>1 DEF OrderInv, QueueInOrder
  <2>2. ASSUME NEW x \in Range(batch'), NEW y \in Queued' PROVE After(x, y)
    <3>1. PICK k \in DOMAIN dispatchChan' : y \in Range(dispatchChan'[k])
      BY <2>2 DEF Queued
    <3>2. 1 < k + 1
      BY <1>3
    <3>. QED
      BY <1>3, <2>2, <3>1, <3>2 DEF OrderInv, QueueInOrder
  <2>3. \A x \in Range(dispatched), y \in Queued : After(x, y) /\ MayFollow(x, y)
    BY DEF OrderInv, QueueInOrder, After, MayFollow
  <2>4. \A x \in Sent, y \in Collected : After(x, y)
    BY DEF OrderInv, QueueInOrder
  <2>5. \A i, j \in DOMAIN dispatched : i < j => MayFollow(dispatched[i], dispatched[j])
    BY DEF OrderInv, QueueInOrder
  <2>. QED
    BY <1>1, <1>4, <1>5, <2>1, <2>2, <2>3, <2>4, <2>5 DEF QueueInOrder, After, MayFollow, Named
<1>. QED
  BY <1>6, <1>7, <1>8, <1>9 DEF OrderInv

LEMMA DispatchOrder ==
  ASSUME RingInv, OrderInv, Dispatch
  PROVE  OrderInv'
<1>1. PICK i \in DOMAIN batch :
        /\ \A j \in DOMAIN batch : batch[i].time <= batch[j].time
        /\ batch' = RemoveAt(batch, i)
        /\ dispatched' = IF StreamOf(batch[i].read) \in snapshot \cup eventIDMap
                         THEN Append(dispatched, batch[i]) ELSE dispatched
  BY DEF Dispatch, Earliest
<1>2. UNCHANGED <<written, got, now, ready, loaded, dataHead, tail, order, round, samples, pendingSamples, dispatchChan>>
  BY DEF Dispatch, kernelVars, runVars
<1>. DEFINE b == batch[i]
            n == Len(dispatched)
<1>3. b \in Range(batch) /\ \A y \in Range(batch) : b.time <= y.time
  BY <1>1 DEF Range
<1>4. Range(batch') \subseteq Range(batch)
  BY <1>1, Removed DEF RingInv, ListsOK
<1>5. List(dispatched) /\ n \in Nat /\ DOMAIN dispatched = 1..n
  BY ListIs DEF RingInv, ListsOK
<1>6. \/ dispatched' = dispatched
      \/ /\ Named(b) /\ Range(dispatched') = Range(dispatched) \cup {b} /\ DOMAIN dispatched' = 1..(n + 1)
         /\ \A k \in 1..n : dispatched'[k] = dispatched[k]
         /\ dispatched'[n + 1] = b
  <2>1. CASE dispatched' = Append(dispatched, b) /\ StreamOf(b.read) \in snapshot \cup eventIDMap
    <3>1. Named(b)
      BY <2>1, StreamsHaveIDs DEF Named, RingInv, MapsOK
    <3>2. /\ List(dispatched') /\ Len(dispatched') = n + 1
          /\ Range(dispatched') = Range(dispatched) \cup {b}
          /\ \A k \in 1..n : dispatched'[k] = dispatched[k]
          /\ dispatched'[n + 1] = b
      BY <1>5, <2>1, Appended
    <3>3. DOMAIN dispatched' = 1..(n + 1)
      BY <3>2, ListIs
    <3>. QED
      BY <3>1, <3>2, <3>3
  <2>. QED
    BY <1>1, <2>1
<1>. HIDE DEF b, n
<1>7. /\ Range(dispatched') \subseteq Range(dispatched) \cup {b}
      /\ Sent' \subseteq Sent /\ Collected' = Collected /\ Queued' = Queued
      /\ \A r \in Rings : Unread(r)' = Unread(r) /\ (Turn(r)' <=> Turn(r))
  BY <1>2, <1>3, <1>4, <1>6 DEF Sent, Collected, Queued, Unread, Turn
<1>8. TimesOK'
  BY <1>2 DEF OrderInv, TimesOK
<1>9. SamplesOK'
  <2>1. \A x \in Range(dispatched') : Named(x)
    BY <1>6 DEF OrderInv, SamplesOK
  <2>2. /\ \A x \in Collected \cup Sent : IsRead(x)
        /\ \A x \in Collected : x.round = round
    BY DEF OrderInv, SamplesOK
  <2>. QED
    BY <1>2, <1>7, <2>1, <2>2 DEF SamplesOK, IsRead, Named
<1>10. UnreadIsLate'
  BY <1>2, <1>7 DEF OrderInv, UnreadIsLate
<1>11. QueueInOrder'
  <2>1. \A x \in Range(dispatched') \cup Range(batch'), y \in Queued : After(x, y)
    BY <1>3, <1>4, <1>7 DEF OrderInv, QueueInOrder
  <2>2. \A x \in Range(dispatched'), y \in Range(batch') : MayFollow(x, y)
    BY <1>3, <1>4, <1>7 DEF OrderInv, QueueInOrder, MayFollow
  <2>3. ASSUME NEW k \in DOMAIN dispatched', NEW j \in DOMAIN dispatched', k < j
        PROVE  MayFollow(dispatched'[k], dispatched'[j])
    <3>1. \A p, q \in DOMAIN dispatched : p < q => MayFollow(dispatched[p], dispatched[q])
      BY DEF OrderInv, QueueInOrder
    <3>2. CASE k \in DOMAIN dispatched /\ j \in DOMAIN dispatched
               /\ dispatched'[k] = dispatched[k] /\ dispatched'[j] = dispatched[j]
      BY <2>3, <3>1, <3>2
    <3>3. CASE k \in DOMAIN dispatched /\ dispatched'[k] = dispatched[k] /\ dispatched'[j] = b
      <4>1. dispatched[k] \in Range(dispatched)
        BY <3>3 DEF Range
      <4>. QED
        BY <1>3, <3>3, <4>1 DEF OrderInv, QueueInOrder
    <3>4. \/ /\ k \in DOMAIN dispatched /\ j \in DOMAIN dispatched
             /\ dispatched'[k] = dispatched[k] /\ dispatched'[j] = dispatched[j]
          \/ k \in DOMAIN dispatched /\ dispatched'[k] = dispatched[k] /\ dispatched'[j] = b
      <4>1. CASE dispatched' = dispatched
        BY <2>3, <4>1
      <4>2. CASE /\ DOMAIN dispatched' = 1..(n + 1)
                 /\ \A p \in 1..n : dispatched'[p] = dispatched[p]
                 /\ dispatched'[n + 1] = b
        <5>1. k \in 1..n /\ (j \in 1..n \/ j = n + 1)
          BY <1>5, <2>3, <4>2
        <5>. QED
          BY <1>5, <4>2, <5>1
      <4>. QED
        BY <1>6, <4>1, <4>2
    <3>. QED
      BY <3>2, <3>3, <3>4
  <2>4. /\ \A x \in Sent, y \in Collected : After(x, y)
        /\ \A k, m \in DOMAIN dispatchChan :
              k < m => \A x \in Range(dispatchChan[k]), y \in Range(dispatchChan[m]) : After(x, y)
    BY DEF OrderInv, QueueInOrder
  <2>. QED
    BY <1>2, <1>7, <2>1, <2>2, <2>3, <2>4 DEF QueueInOrder, After, MayFollow, Named
<1>. QED
  BY <1>8, <1>9, <1>10, <1>11 DEF OrderInv

LEMMA OrderStep ==
  ASSUME RingInv, OrderInv, ReadsBack, ReadsBack', [Next]_vars
  PROVE  OrderInv'
<1>0. RingInv'
  BY RingStep
<1>1. ASSUME NEW r \in Rings, LoadHead(r) \/ ReadRing(r) \/ ReadPanics(r) \/ RingDone(r) PROVE OrderInv'
  BY <1>0, <1>1, LoadOrder, ReadOrder, PanicOrder, DoneOrder
<1>2. CASE Poll \/ SendSamples
  BY <1>2, PollOrder, SendOrder
<1>3. CASE DispatchStep
  BY <1>3, ReceiveOrder, DispatchOrder DEF DispatchStep
<1>4. ASSUME NEW s \in Sources, KernelWrite(s[1], s[2], s[3]) PROVE OrderInv'
  BY <1>4, WriteOrder
<1>5. CASE (\E id \in Removable : RemoveAttrs(id) \/ RemoveIDs(id)) \/ UNCHANGED vars
  <2>1. UNCHANGED <<kernelVars, runVars, dispatchVars, order, dispatchChan>>
    BY <1>5 DEF RemoveAttrs, RemoveIDs, vars
  <2>. QED
    BY <2>1, OrderStays DEF kernelVars, runVars, dispatchVars
<1>. QED
  BY <1>1, <1>2, <1>3, <1>4, <1>5 DEF Next, RunStep

\* Provided that what comes out of the rings is what the kernel wrote, samples are
\* dispatched in the order of their times, across rings, batches and rounds
\* (readRingBuffers, dispatchSamples).
THEOREM DispatchInOrder == Spec /\ []ReadsBack => []DispatchedInOrder
<1>1. OrderInv => DispatchedInOrder
  <2>. SUFFICES ASSUME OrderInv, NEW i \in DOMAIN dispatched, NEW j \in DOMAIN dispatched,
                       i < j, dispatched[i].time > dispatched[j].time
                PROVE  TimeOf(dispatched[j].read) > dispatched[i].round
    BY DEF DispatchedInOrder
  <2>1. \A k \in DOMAIN dispatched : dispatched[k] \in Range(dispatched)
    BY DEF Range
  <2>2. \A k \in DOMAIN dispatched : Named(dispatched[k]) /\ dispatched[k].time \in Int
    BY <2>1 DEF OrderInv, SamplesOK, Sent, IsRead
  <2>3. MayFollow(dispatched[i], dispatched[j])
    BY DEF OrderInv, QueueInOrder
  <2>4. ~(dispatched[i].time <= dispatched[j].time)
    BY <2>2
  <2>. QED
    BY <2>2, <2>3, <2>4 DEF MayFollow
<1>2. RingInv /\ OrderInv /\ ReadsBack /\ ReadsBack' /\ [Next]_vars => RingInv' /\ OrderInv'
  BY RingStep, OrderStep
<1>. QED
  BY RingInit, OrderInit, <1>1, <1>2, PTL DEF Spec
=============================================================================
