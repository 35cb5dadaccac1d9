--------------------------- MODULE StreamsProofs ---------------------------
(***************************************************************************)
(* Theorems about the streams of pkg/stream.  A joiner with its callers    *)
(* and inputs, for any set of inputs, capacity of the channels and number  *)
(* of elements, implements Merge, and ends when its inputs are drained.  A *)
(* program of any stages, wired in any way its constructors can wire them, *)
(* waits only for stages that do not read, and ends when its streams are   *)
(* closed; it makes no element up and loses none, keeps them in order, and *)
(* delivers them all as long as nobody closes a stream or stops reading.   *)
(***************************************************************************)
EXTENDS JoinedStreams, Streams, SequenceTheorems, FiniteSetTheorems, WellFoundedInduction, TLAPS

-----------------------------------------------------------------------------
(* The inductive invariant. *)

\* The element of input i that the loop holds and has not sent yet.
Waiting(i) == IF joinPC = "send" /\ held[1] = i THEN 1 ELSE 0

Gone(i) == sent[i] + Waiting(i)

\* What an input has produced was sent, is held, or is in its channel, in this
\* order.
AccountedFor(i) ==
  /\ produced[i] = Gone(i) + Len(inData[i])
  /\ \A n \in DOMAIN inData[i] : inData[i][n] = <<i, Gone(i) + n>>

Accounted == \A i \in Inputs : AccountedFor(i)

HeldIsNext == joinPC = "send" => held = <<held[1], sent[held[1]] + 1>>

\* The loop goes on while its data channel is open, and has no input left when
\* it ends.
OpenUntilDone == /\ joinPC = "done" => ~outOpen
                 /\ joinPC # "done" => outOpen
EndsEmpty == joinPC = "done" /\ enable => in = <<>>

\* A stream that was added is still there, or was drained.
ThereOrDrained ==
  \A i \in joined : \/ \E n \in DOMAIN in : in[n] = i
                    \/ ~inOpen[i] /\ inData[i] = <<>>

JoinedInv ==
  TypeOK /\ Accounted /\ HeldIsNext /\ OpenUntilDone /\ EndsEmpty /\ ThereOrDrained

-----------------------------------------------------------------------------
(* Sequences. *)

LEMMA AppendAt ==
  ASSUME NEW S, NEW q \in Seq(S), NEW x \in S
  PROVE  /\ Append(q, x) \in Seq(S)
         /\ Len(Append(q, x)) = Len(q) + 1
         /\ \A n \in DOMAIN Append(q, x) : Append(q, x)[n] = IF n = Len(q) + 1 THEN x ELSE q[n]
OBVIOUS

LEMMA TailAt ==
  ASSUME NEW S, NEW q \in Seq(S), q # <<>>
  PROVE  /\ 1 \in DOMAIN q /\ Head(q) = q[1] /\ Head(q) \in S
         /\ Tail(q) \in Seq(S) /\ Len(Tail(q)) = Len(q) - 1
         /\ \A n \in DOMAIN Tail(q) : n + 1 \in DOMAIN q /\ Tail(q)[n] = q[n + 1]
OBVIOUS

\* What is left of a sequence without its n-th entry.
Cut(q, n) == SubSeq(q, 1, n - 1) \o SubSeq(q, n + 1, Len(q))

LEMMA Without ==
  ASSUME NEW S, NEW q \in Seq(S), NEW n \in DOMAIN q, NEW r, r = Cut(q, n)
  PROVE  /\ r \in Seq(S)
         /\ \A m \in DOMAIN q : m # n => \E k \in DOMAIN r : r[k] = q[m]
<1>. DEFINE s1 == SubSeq(q, 1, n - 1)
             s2 == SubSeq(q, n + 1, Len(q))
<1>1. /\ s1 \in Seq(S) /\ Len(s1) = n - 1
      /\ \A m \in 1 .. n - 1 : s1[m] = q[m]
  BY SubSeqProperties, \A m \in 1 .. n - 1 : q[m] \in S
<1>2. /\ s2 \in Seq(S) /\ Len(s2) = Len(q) - n
      /\ \A m \in 1 .. Len(q) - n : s2[m] = q[m + n]
  <2>1. n + 1 \in Int /\ Len(q) \in Int /\ \A m \in n + 1 .. Len(q) : q[m] \in S
    OBVIOUS
  <2>2. /\ s2 \in Seq(S)
        /\ Len(s2) = IF n + 1 <= Len(q) THEN Len(q) - (n + 1) + 1 ELSE 0
        /\ \A m \in 1 .. Len(q) - (n + 1) + 1 : s2[m] = q[n + 1 + m - 1]
    BY <2>1, SubSeqProperties
  <2>. HIDE DEF s2
  <2>3. n \in 1 .. Len(q) /\ Len(q) \in Nat
    OBVIOUS
  <2>4. Len(s2) = Len(q) - n
    BY <2>2, <2>3
  <2>5. ASSUME NEW m \in 1 .. Len(q) - n PROVE s2[m] = q[m + n]
    <3>1. n + 1 + m - 1 = m + n /\ m \in 1 .. Len(q) - (n + 1) + 1
      BY <2>3
    <3>. QED
      BY <2>2, <3>1
  <2>. QED
    BY <2>2, <2>4, <2>5
<1>. HIDE DEF s1, s2
<1>3. /\ r \in Seq(S) /\ Len(r) = Len(q) - 1
      /\ \A m \in 1 .. Len(q) - 1 : r[m] = IF m <= n - 1 THEN s1[m] ELSE s2[m - (n - 1)]
  <2>1. r = s1 \o s2
    BY DEF s1, s2, Cut
  <2>2. /\ r \in Seq(S) /\ Len(r) = Len(s1) + Len(s2)
        /\ \A m \in 1 .. Len(s1) + Len(s2) : r[m] = IF m <= Len(s1) THEN s1[m] ELSE s2[m - Len(s1)]
    <3>1. s1 \in Seq(S) /\ s2 \in Seq(S)
      BY <1>1, <1>2
    <3>2. /\ s1 \o s2 \in Seq(S) /\ Len(s1 \o s2) = Len(s1) + Len(s2)
          /\ \A m \in 1 .. Len(s1) + Len(s2) :
               (s1 \o s2)[m] = IF m <= Len(s1) THEN s1[m] ELSE s2[m - Len(s1)]
      BY ONLY <3>1, ConcatProperties, Zenon
    <3>. QED
      BY <2>1, <3>2, Zenon
  <2>3. Len(s1) + Len(s2) = Len(q) - 1
    BY <1>1, <1>2
  <2>. QED
    BY <1>1, <2>2, <2>3
<1>4. ASSUME NEW m \in DOMAIN q, m # n PROVE \E k \in DOMAIN r : r[k] = q[m]
  <2>1. CASE m < n
    <3>1. m \in 1 .. n - 1 /\ m \in 1 .. Len(q) - 1 /\ m <= n - 1
      BY <2>1
    <3>2. m \in DOMAIN r /\ r[m] = q[m]
      <4>1. r \in Seq(S) /\ Len(r) = Len(q) - 1
        BY <1>3
      <4>2. m \in DOMAIN r
        BY ONLY <3>1, <4>1
      <4>3. r[m] = s1[m]
        BY ONLY <1>3, <3>1, Zenon
      <4>4. s1[m] = q[m]
        BY ONLY <1>1, <3>1, Zenon
      <4>. QED
        BY ONLY <4>2, <4>3, <4>4, Zenon
    <3>. QED
      BY <3>2
  <2>2. CASE m > n
    <3>0. m \in Int /\ n \in Int /\ Len(q) \in Int /\ 1 <= n /\ m <= Len(q)
      OBVIOUS
    <3>. DEFINE k == m - 1
    <3>1. /\ k \in 1 .. Len(q) - 1 /\ ~(k <= n - 1) /\ k - (n - 1) = m - n
          /\ m - n \in 1 .. Len(q) - n /\ (m - n) + n = m
      BY ONLY <2>2, <3>0
    <3>. HIDE DEF k
    <3>2. k \in DOMAIN r /\ r[k] = s2[k - (n - 1)]
      <4>1. k \in DOMAIN r
        <5>1. r \in Seq(S) /\ Len(r) = Len(q) - 1
          BY <1>3
        <5>. QED
          BY ONLY <3>1, <5>1
      <4>2. r[k] = IF k <= n - 1 THEN s1[k] ELSE s2[k - (n - 1)]
        BY ONLY <1>3, <3>1, Zenon
      <4>. QED
        BY ONLY <3>1, <4>1, <4>2, Zenon
    <3>3. s2[m - n] = q[(m - n) + n]
      BY <1>2, <3>1
    <3>. QED
      BY <3>1, <3>2, <3>3
  <2>3. m < n \/ m > n
    BY <1>4
  <2>. QED
    BY <2>1, <2>2, <2>3
<1>. QED
  BY <1>3, <1>4

-----------------------------------------------------------------------------
(* TypeOK *)

LEMMA FlagTypeStep ==
  ASSUME FlagTypeOK, Next
  PROVE  FlagTypeOK'
<1>. USE DEF FlagTypeOK, inputVars, joinVars, loopVars, outVars
<1>1. ASSUME NEW i \in Inputs, EndInput(i) PROVE FlagTypeOK'
  BY <1>1 DEF EndInput
<1>2. ASSUME NEW on \in BOOLEAN, Switch(on) PROVE FlagTypeOK'
  BY <1>2 DEF Switch
<1>3. CASE LoopControlClosed
  <2>1. inCtrl' \in [Inputs -> BOOLEAN]
    <3>1. DOMAIN inCtrl = Inputs
      OBVIOUS
    <3>2. inCtrl' = [i \in Inputs |-> inCtrl[i] /\ \A n \in DOMAIN in : in[n] # i]
      BY <1>3, <3>1 DEF LoopControlClosed
    <3>. QED
      BY <3>2
  <2>. QED
    BY <1>3, <2>1 DEF LoopControlClosed
<1>4. CASE LoopDone
  BY <1>4 DEF LoopDone
<1>5. CASE UNCHANGED <<inOpen, inCtrl, enable, outOpen>>
  BY <1>5
<1>. QED
  BY <1>1, <1>2, <1>3, <1>4, <1>5 DEF Next, Produce, Callers, AddInput, RemoveInput, Add, RemoveStream, Close,
     JoinerStep, Loop, LoopReceive, LoopInputClosed, LoopSend, Consume, Take

LEMMA ElementTypeStep ==
  ASSUME ElementTypeOK, Next
  PROVE  ElementTypeOK'
<1>. USE DEF ElementTypeOK, inputVars, joinVars, loopVars, outVars, history
<1>1. ASSUME NEW i \in Inputs, Produce(i) PROVE ElementTypeOK'
  <2>1. /\ produced[i] < MaxElements
        /\ produced' = [produced EXCEPT ![i] = @ + 1]
        /\ inData' = [inData EXCEPT ![i] = Append(@, <<i, produced[i] + 1>>)]
        /\ UNCHANGED <<joinVars, emitted, sent, joined>>
    BY <1>1 DEF Produce
  <2>2. <<i, produced[i] + 1>> \in Element
    BY <2>1, MaxElementsIsNat DEF Element
  <2>3. inData' \in [Inputs -> Seq(Element)]
    BY <2>1, <2>2
  <2>4. produced' \in [Inputs -> 0 .. MaxElements]
    BY <2>1, MaxElementsIsNat
  <2>. QED
    BY <2>1, <2>3, <2>4
<1>2. ASSUME NEW i \in Inputs, AddInput(i) PROVE ElementTypeOK'
  BY <1>2 DEF AddInput, Add
<1>3. ASSUME NEW i \in Inputs, RemoveInput(i) PROVE ElementTypeOK'
  <2>1. in' \in Seq(Inputs)
    <3>1. PICK n \in DOMAIN in : in' = Cut(in, n)
      BY <1>3 DEF RemoveInput, RemoveStream, Cut
    <3>. QED
      BY <3>1, Without
  <2>. QED
    BY <1>3, <2>1 DEF RemoveInput, RemoveStream
<1>4. ASSUME NEW n \in DOMAIN in, LoopReceive(n), UNCHANGED history PROVE ElementTypeOK'
  <2>1. in[n] \in Inputs /\ inData[in[n]] \in Seq(Element) /\ inData[in[n]] # <<>>
    BY <1>4 DEF LoopReceive
  <2>2. Head(inData[in[n]]) \in Element /\ Tail(inData[in[n]]) \in Seq(Element)
    BY <2>1, TailAt
  <2>3. held' \in Element /\ inData' \in [Inputs -> Seq(Element)]
    BY <1>4, <2>1, <2>2 DEF LoopReceive
  <2>. QED
    BY <1>4, <2>3 DEF LoopReceive
<1>5. ASSUME NEW n \in DOMAIN in, LoopInputClosed(n), UNCHANGED history PROVE ElementTypeOK'
  <2>1. in' \in Seq(Inputs)
    <3>1. in' = Cut(in, n)
      BY <1>5 DEF LoopInputClosed, Cut
    <3>. QED
      BY <3>1, Without
  <2>. QED
    BY <1>5, <2>1 DEF LoopInputClosed
<1>6. CASE /\ LoopSend
           /\ emitted' = Append(emitted, held)
           /\ sent' = [sent EXCEPT ![held[1]] = @ + 1]
           /\ UNCHANGED <<produced, joined>>
  <2>1. held \in Element /\ held[1] \in Inputs
    BY <1>6 DEF LoopSend, Element
  <2>2. outData' \in Seq(Element) /\ Len(outData') <= JoinCap
    BY <1>6, <2>1, AppendAt, JoinCapIsPositive DEF LoopSend
  <2>3. emitted' \in Seq(Element)
    BY <1>6, <2>1, AppendAt
  <2>4. sent' \in [Inputs -> Nat]
    <3>1. sent' = [i \in Inputs |-> IF i = held[1] THEN sent[i] + 1 ELSE sent[i]]
      BY <1>6, <2>1
    <3>. QED
      BY <3>1
  <2>. QED
    BY <1>6, <2>2, <2>3, <2>4 DEF LoopSend
<1>7. CASE (LoopControlClosed \/ LoopDone) /\ UNCHANGED history
  BY <1>7 DEF LoopControlClosed, LoopDone
<1>8. CASE Consume
  <2>1. outData' \in Seq(Element) /\ Len(outData') <= JoinCap
    BY <1>8, TailAt, JoinCapIsPositive DEF Consume, Take
  <2>. QED
    BY <1>8, <2>1 DEF Consume, Take
<1>9. ASSUME NEW i \in Inputs, EndInput(i) PROVE ElementTypeOK'
  BY <1>9 DEF EndInput
<1>10. ASSUME NEW on \in BOOLEAN, Switch(on), UNCHANGED history PROVE ElementTypeOK'
  BY <1>10 DEF Switch
<1>11. CASE Close /\ UNCHANGED history
  BY <1>11 DEF Close
<1>. QED
  BY <1>1, <1>2, <1>3, <1>4, <1>5, <1>6, <1>7, <1>8, <1>9, <1>10, <1>11 DEF Next, Callers, JoinerStep, Loop

-----------------------------------------------------------------------------
(* What the inputs produce is accounted for.  *)

LEMMA NumbersType ==
  ASSUME ElementTypeOK, NEW i \in Inputs
  PROVE  /\ inData[i] \in Seq(Element) /\ Len(inData[i]) \in Nat
         /\ DOMAIN inData[i] = 1 .. Len(inData[i])
         /\ sent[i] \in Nat /\ produced[i] \in Nat /\ Gone(i) \in Nat
BY DEF ElementTypeOK, Waiting, Gone

LEMMA AccountedProduce ==
  ASSUME ElementTypeOK, Accounted, HeldIsNext, NEW i \in Inputs, Produce(i)
  PROVE  Accounted' /\ HeldIsNext'
<1>. DEFINE q == inData[i]
            e == <<i, produced[i] + 1>>
<1>1. /\ q \in Seq(Element) /\ produced[i] \in Nat /\ Gone(i) \in Nat
      /\ produced[i] = Gone(i) + Len(q)
      /\ \A n \in DOMAIN q : q[n] = <<i, Gone(i) + n>>
  BY NumbersType DEF Accounted, AccountedFor
<1>2. /\ produced' = [produced EXCEPT ![i] = produced[i] + 1]
      /\ inData' = [inData EXCEPT ![i] = Append(q, e)]
      /\ UNCHANGED <<joinPC, held, sent>>
  BY DEF Produce, joinVars, loopVars
<1>3. e \in Element
  BY <1>1, MaxElementsIsNat DEF Produce, Element
<1>4. /\ produced'[i] = produced[i] + 1 /\ inData'[i] = Append(q, e)
      /\ \A j \in Inputs \ {i} : produced'[j] = produced[j] /\ inData'[j] = inData[j]
  BY <1>2 DEF ElementTypeOK
<1>5. HeldIsNext' /\ \A j \in Inputs : Gone(j)' = Gone(j)
  BY <1>2 DEF HeldIsNext, Gone, Waiting
<1>. HIDE DEF q, e
<1>6. /\ Append(q, e) \in Seq(Element) /\ Len(Append(q, e)) = Len(q) + 1
      /\ \A n \in DOMAIN Append(q, e) : Append(q, e)[n] = IF n = Len(q) + 1 THEN e ELSE q[n]
  BY <1>1, <1>3, AppendAt
<1>7. ASSUME NEW n \in DOMAIN Append(q, e) PROVE Append(q, e)[n] = <<i, Gone(i) + n>>
  <2>1. CASE n = Len(q) + 1
    <3>1. Gone(i) + n = produced[i] + 1
      BY <1>1, <2>1
    <3>. QED
      BY <1>6, <2>1, <3>1 DEF e
  <2>2. CASE n # Len(q) + 1
    <3>1. n \in DOMAIN q
      BY <1>1, <1>6, <2>2
    <3>. QED
      BY <1>1, <1>6, <2>2, <3>1
  <2>. QED
    BY <2>1, <2>2
<1>8. AccountedFor(i)'
  BY <1>1, <1>4, <1>5, <1>6, <1>7 DEF AccountedFor
<1>9. \A j \in Inputs \ {i} : AccountedFor(j)'
  BY <1>4, <1>5 DEF Accounted, AccountedFor
<1>. QED
  BY <1>5, <1>8, <1>9 DEF Accounted

LEMMA AccountedReceive ==
  ASSUME ElementTypeOK, Accounted, HeldIsNext, NEW n \in DOMAIN in, LoopReceive(n), UNCHANGED history
  PROVE  Accounted' /\ HeldIsNext'
<1>0. PICK i \in Inputs : in[n] = i
  BY DEF ElementTypeOK
<1>. DEFINE q == inData[i]
<1>1. i \in Inputs /\ q # <<>>
  BY <1>0 DEF LoopReceive
<1>2. /\ joinPC = "select" /\ joinPC' = "send"
      /\ held' = Head(q) /\ inData' = [inData EXCEPT ![i] = Tail(q)]
      /\ UNCHANGED <<produced, sent>>
  BY <1>0 DEF LoopReceive, history
<1>3. /\ q \in Seq(Element) /\ produced[i] \in Nat /\ Gone(i) \in Nat
      /\ produced[i] = Gone(i) + Len(q)
      /\ \A m \in DOMAIN q : q[m] = <<i, Gone(i) + m>>
  BY <1>1, NumbersType DEF Accounted, AccountedFor
<1>4. inData'[i] = Tail(q) /\ \A j \in Inputs \ {i} : inData'[j] = inData[j]
  BY <1>1, <1>2 DEF ElementTypeOK
<1>. HIDE DEF q
<1>5. /\ 1 \in DOMAIN q /\ Head(q) = q[1]
      /\ Tail(q) \in Seq(Element) /\ Len(Tail(q)) = Len(q) - 1
      /\ \A m \in DOMAIN Tail(q) : m + 1 \in DOMAIN q /\ Tail(q)[m] = q[m + 1]
  BY <1>1, <1>3, TailAt
<1>6. held' = <<i, sent[i] + 1>> /\ held'[1] = i
  <2>1. Gone(i) = sent[i]
    BY <1>1, <1>2 DEF Gone, Waiting, ElementTypeOK
  <2>. QED
    BY <1>2, <1>3, <1>5, <2>1
<1>7. Gone(i)' = Gone(i) + 1 /\ \A j \in Inputs \ {i} : Gone(j)' = Gone(j)
  <2>1. \A j \in Inputs : Waiting(j) = 0
    BY <1>2 DEF Waiting
  <2>2. Waiting(i)' = 1 /\ \A j \in Inputs \ {i} : Waiting(j)' = 0
    BY <1>2, <1>6 DEF Waiting
  <2>3. \A j \in Inputs : sent[j] \in Nat /\ sent'[j] = sent[j]
    BY <1>2 DEF ElementTypeOK
  <2>. QED
    BY <1>1, <2>1, <2>2, <2>3 DEF Gone
<1>8. ASSUME NEW m \in DOMAIN Tail(q) PROVE Tail(q)[m] = <<i, Gone(i)' + m>>
  <2>0. DOMAIN Tail(q) = 1 .. Len(Tail(q)) /\ m \in Nat
    BY <1>5
  <2>1. Gone(i) + (m + 1) = Gone(i)' + m
    BY <2>0, <1>3, <1>7
  <2>2. Tail(q)[m] = <<i, Gone(i) + (m + 1)>>
    BY <1>3, <1>5
  <2>. QED
    BY <2>1, <2>2
<1>9. AccountedFor(i)'
  <2>1. produced'[i] = Gone(i)' + Len(Tail(q))
    BY <1>2, <1>3, <1>5, <1>7
  <2>2. produced'[i] = Gone(i)' + Len(inData'[i])
    BY <1>4, <2>1
  <2>3. \A m \in DOMAIN inData'[i] : inData'[i][m] = <<i, Gone(i)' + m>>
    BY <1>4, <1>8
  <2>. QED
    BY <2>2, <2>3 DEF AccountedFor
<1>10. ASSUME NEW j \in Inputs, j # i PROVE AccountedFor(j)'
  <2>1. AccountedFor(j)
    BY DEF Accounted
  <2>2. produced'[j] = produced[j] /\ inData'[j] = inData[j] /\ Gone(j)' = Gone(j)
    BY <1>2, <1>4, <1>7, <1>10
  <2>. QED
    BY <2>1, <2>2 DEF AccountedFor
<1>11. HeldIsNext'
  BY <1>2, <1>6 DEF HeldIsNext
<1>12. \A j \in Inputs : AccountedFor(j)'
  BY <1>9, <1>10
<1>. QED
  BY <1>11, <1>12 DEF Accounted

LEMMA AccountedSend ==
  ASSUME ElementTypeOK, Accounted, LoopSend, sent' = [sent EXCEPT ![held[1]] = @ + 1], produced' = produced
  PROVE  Accounted' /\ HeldIsNext'
<1>1. /\ held[1] \in Inputs /\ joinPC = "send" /\ joinPC' = "select"
      /\ inData' = inData
  BY DEF LoopSend, ElementTypeOK, Element, inputVars
<1>2. ASSUME NEW j \in Inputs PROVE Gone(j)' = Gone(j)
  <2>1. sent \in [Inputs -> Nat] /\ Gone(j)' = sent'[j]
    BY <1>1 DEF Gone, Waiting, ElementTypeOK
  <2>2. CASE j = held[1]
    BY <1>1, <2>1, <2>2 DEF Gone, Waiting
  <2>3. CASE j # held[1]
    BY <1>1, <2>1, <2>3 DEF Gone, Waiting
  <2>. QED
    BY <2>2, <2>3
<1>. QED
  BY <1>1, <1>2 DEF Accounted, AccountedFor, HeldIsNext

LEMMA AccountedStep ==
  ASSUME ElementTypeOK, Accounted, HeldIsNext, Next
  PROVE  Accounted' /\ HeldIsNext'
<1>1. CASE UNCHANGED <<inData, joinPC, held, produced, sent>>
  BY <1>1 DEF Accounted, AccountedFor, Gone, HeldIsNext, Waiting
<1>2. CASE LoopDone /\ UNCHANGED history
  BY <1>2 DEF LoopDone, Accounted, AccountedFor, Gone, HeldIsNext, Waiting, inputVars, history
<1>. QED
  BY <1>1, <1>2, AccountedProduce, AccountedReceive, AccountedSend
     DEF Next, EndInput, Callers, AddInput, RemoveInput, Add, RemoveStream, Switch, Close,
         JoinerStep, Loop, LoopControlClosed, LoopInputClosed, Consume, Take,
         inputVars, joinVars, loopVars, outVars, history

-----------------------------------------------------------------------------
(* The loop ends when its inputs are drained.  *)

LEMMA LoopEndStep ==
  ASSUME OpenUntilDone, EndsEmpty, Next
  PROVE  OpenUntilDone' /\ EndsEmpty'
<1>. USE DEF OpenUntilDone, EndsEmpty, joinVars, loopVars, outVars
<1>1. CASE UNCHANGED <<joinPC, outOpen, enable, in>>
  BY <1>1
<1>2. CASE joinPC # "done" /\ joinPC' # "done" /\ outOpen' = outOpen
  BY <1>2
<1>3. CASE LoopDone
  BY <1>3 DEF LoopDone
<1>. QED
  BY <1>1, <1>2, <1>3 DEF Next, Produce, EndInput, Callers, AddInput, RemoveInput, Add, RemoveStream, Listening,
     Switch, Close, JoinerStep, Loop, LoopControlClosed, LoopReceive, LoopInputClosed, LoopSend, Consume, Take

\* Input n is taken out of the list of inputs.
LEMMA TakenOut ==
  ASSUME ElementTypeOK, ThereOrDrained, NEW n \in DOMAIN in,
         in' = Cut(in, n), UNCHANGED inputVars, NEW i \in joined, in[n] # i
  PROVE  \/ \E m \in DOMAIN in' : in'[m] = i
         \/ ~inOpen'[i] /\ inData'[i] = <<>>
<1>1. in \in Seq(Inputs)
  BY DEF ElementTypeOK
<1>2. \A m \in DOMAIN in : m # n => \E k \in DOMAIN in' : in'[k] = in[m]
  BY <1>1, Without
<1>3. UNCHANGED <<inOpen, inData>>
  BY DEF inputVars
<1>4. CASE \E m \in DOMAIN in : in[m] = i
  BY <1>2, <1>4
<1>5. CASE ~inOpen[i] /\ inData[i] = <<>>
  BY <1>3, <1>5
<1>. QED
  BY <1>4, <1>5 DEF ThereOrDrained

LEMMA ThereOrDrainedStep ==
  ASSUME FlagTypeOK, ElementTypeOK, ThereOrDrained, Next
  PROVE  ThereOrDrained'
<1>. USE DEF ThereOrDrained, inputVars, joinVars, loopVars, outVars, history
<1>1. ASSUME NEW i \in Inputs, Produce(i) \/ EndInput(i) PROVE ThereOrDrained'
  <2>1. inOpen[i] /\ UNCHANGED <<in, joined>>
    BY <1>1 DEF Produce, EndInput
  <2>2. ASSUME NEW j \in joined, j # i
        PROVE  (inOpen'[j] <=> inOpen[j]) /\ inData'[j] = inData[j]
    <3>1. j \in Inputs
      BY DEF ElementTypeOK
    <3>2. CASE Produce(i)
      BY <2>2, <3>1, <3>2 DEF Produce, ElementTypeOK
    <3>3. CASE EndInput(i)
      BY <2>2, <3>1, <3>3, Zenon DEF EndInput, FlagTypeOK
    <3>. QED
      BY <1>1, <3>2, <3>3
  <2>. QED
    BY <2>1, <2>2
<1>2. ASSUME NEW i \in Inputs, AddInput(i) PROVE ThereOrDrained'
  <2>1. /\ in \in Seq(Inputs) /\ in' = Append(in, i) /\ joined' = joined \cup {i}
        /\ UNCHANGED <<inOpen, inData>>
    BY <1>2 DEF AddInput, Add, ElementTypeOK
  <2>2. /\ Len(in) + 1 \in DOMAIN in' /\ in'[Len(in) + 1] = i
        /\ \A n \in DOMAIN in : n \in DOMAIN in' /\ in'[n] = in[n]
    BY <2>1
  <2>. QED
    BY <2>1, <2>2
<1>3. ASSUME NEW i \in Inputs, RemoveInput(i) PROVE ThereOrDrained'
  <2>1. PICK n \in DOMAIN in :
          in[n] = i /\ in' = Cut(in, n)
    BY <1>3 DEF RemoveInput, RemoveStream, Cut
  <2>2. joined' = joined \ {i} /\ UNCHANGED inputVars
    BY <1>3 DEF RemoveInput, RemoveStream
  <2>. QED
    BY <2>1, <2>2, TakenOut
<1>4. ASSUME NEW n \in DOMAIN in, LoopInputClosed(n), UNCHANGED history PROVE ThereOrDrained'
  <2>1. /\ in' = Cut(in, n)
        /\ joined' = joined /\ UNCHANGED inputVars
        /\ ~inOpen'[in[n]] /\ inData'[in[n]] = <<>>
    BY <1>4 DEF LoopInputClosed, Cut
  <2>. QED
    BY <2>1, TakenOut
<1>5. ASSUME NEW n \in DOMAIN in, LoopReceive(n), UNCHANGED history PROVE ThereOrDrained'
  <2>1. \A j \in joined : j # in[n] => inData'[j] = inData[j]
    BY <1>5 DEF LoopReceive, ElementTypeOK
  <2>2. UNCHANGED <<in, joined, inOpen>>
    BY <1>5 DEF LoopReceive
  <2>. QED
    BY <2>1, <2>2
<1>6. CASE UNCHANGED <<in, joined, inOpen, inData>>
  BY <1>6
<1>. QED
  BY <1>1, <1>2, <1>3, <1>4, <1>5, <1>6 DEF Next, Callers, Switch, Close, JoinerStep, Loop, LoopControlClosed,
     LoopSend, LoopDone, Consume, Take

-----------------------------------------------------------------------------
LEMMA JoinedInvInit == Init => JoinedInv
<1>. SUFFICES ASSUME Init PROVE JoinedInv
  OBVIOUS
<1>. USE DEF Init, JoinInit
<1>1. FlagTypeOK
  BY DEF FlagTypeOK
<1>2. ElementTypeOK
  BY JoinCapIsPositive, MaxElementsIsNat DEF ElementTypeOK
<1>3. Accounted /\ HeldIsNext
  BY DEF Accounted, AccountedFor, Gone, Waiting, HeldIsNext
<1>4. OpenUntilDone /\ EndsEmpty /\ ThereOrDrained
  BY DEF OpenUntilDone, EndsEmpty, ThereOrDrained
<1>. QED
  BY <1>1, <1>2, <1>3, <1>4 DEF JoinedInv, TypeOK

LEMMA JoinedInvStep ==
  ASSUME JoinedInv, [Next]_vars
  PROVE  JoinedInv'
<1>1. CASE UNCHANGED vars
  <2>. USE <1>1 DEF vars, inputVars, joinVars, loopVars, outVars, history
  <2>1. FlagTypeOK' /\ ElementTypeOK'
    BY DEF JoinedInv, TypeOK, FlagTypeOK, ElementTypeOK
  <2>2. Accounted' /\ HeldIsNext'
    BY DEF JoinedInv, Accounted, AccountedFor, Gone, Waiting, HeldIsNext
  <2>3. OpenUntilDone' /\ EndsEmpty' /\ ThereOrDrained'
    BY DEF JoinedInv, OpenUntilDone, EndsEmpty, ThereOrDrained
  <2>. QED
    BY <2>1, <2>2, <2>3 DEF JoinedInv, TypeOK
<1>2. CASE Next
  BY <1>2, FlagTypeStep, ElementTypeStep, AccountedStep, LoopEndStep, ThereOrDrainedStep DEF JoinedInv, TypeOK
<1>. QED
  BY <1>1, <1>2

LEMMA JoinedInvariance == Spec => []JoinedInv
BY JoinedInvInit, JoinedInvStep, PTL DEF Spec

\* TypeOK: the state of the loop of pkg/stream/joiner.go, its inputs and what
\* it has sent.
THEOREM JoinedTypeInvariance == Spec => []TypeOK
<1>1. JoinedInv => TypeOK
  BY DEF JoinedInv
<1>. QED
  BY <1>1, JoinedInvariance, PTL

\* ClosedIsDrained: when a joiner that is on ends, every stream that was added
\* and not removed has ended, and all of its elements were sent.
THEOREM DrainedInvariance == Spec => []ClosedIsDrained
<1>1. JoinedInv => ClosedIsDrained
  <2>. SUFFICES ASSUME JoinedInv, ~outOpen, enable, NEW i \in joined
                PROVE  ~inOpen[i] /\ produced[i] = sent[i]
    BY DEF ClosedIsDrained
  <2>1. joinPC = "done" /\ in = <<>>
    BY DEF JoinedInv, OpenUntilDone, EndsEmpty
  <2>2. ~inOpen[i] /\ inData[i] = <<>>
    BY <2>1 DEF JoinedInv, ThereOrDrained
  <2>3. i \in Inputs /\ produced[i] \in Nat /\ sent[i] \in Nat
    BY DEF JoinedInv, TypeOK, ElementTypeOK
  <2>4. produced[i] = sent[i]
    BY <2>1, <2>2, <2>3 DEF JoinedInv, Accounted, AccountedFor, Gone, Waiting
  <2>. QED
    BY <2>2, <2>4
<1>. QED
  BY <1>1, JoinedInvariance, PTL

-----------------------------------------------------------------------------
(* The joiner implements Merge.  *)

LEMMA MergeStep ==
  ASSUME JoinedInv, Next
  PROVE  [Merged!MergeNext]_(Merged!mergeVars)
<1>. USE DEF Merged!mergeVars, joinVars, outVars, history
<1>1. CASE UNCHANGED <<emitted, sent, outOpen>>
  BY <1>1
<1>2. CASE LoopDone /\ UNCHANGED history
  <2>1. outOpen /\ ~outOpen' /\ UNCHANGED <<emitted, sent>>
    BY <1>2 DEF LoopDone, JoinedInv, OpenUntilDone
  <2>2. Merged!End
    BY <2>1 DEF Merged!End
  <2>. QED
    BY <2>2 DEF Merged!MergeNext
<1>3. CASE /\ LoopSend
           /\ emitted' = Append(emitted, held)
           /\ sent' = [sent EXCEPT ![held[1]] = @ + 1]
  <2>1. joinPC = "send" /\ held[1] \in Inputs /\ held = <<held[1], sent[held[1]] + 1>>
    BY <1>3 DEF LoopSend, JoinedInv, HeldIsNext, TypeOK, ElementTypeOK, Element
  <2>2. outOpen /\ outOpen' = outOpen
    BY <1>3, <2>1 DEF LoopSend, JoinedInv, OpenUntilDone
  <2>3. emitted' = Append(emitted, <<held[1], sent[held[1]] + 1>>)
    BY <1>3, <2>1
  <2>4. Merged!Emit(held[1])
    BY <1>3, <2>2, <2>3 DEF Merged!Emit
  <2>. QED
    BY <2>1, <2>4 DEF Merged!MergeNext
<1>. QED
  BY <1>1, <1>2, <1>3 DEF Next, Produce, EndInput, Callers, AddInput, RemoveInput, Add, RemoveStream,
     Switch, Close, JoinerStep, Loop, LoopControlClosed, LoopReceive, LoopInputClosed, Consume, Take

\* ImplementsMerge: the sequence a joiner sends is a merge of its inputs, each
\* in its order and without gaps, and ends once.
THEOREM MergeImplementation == Spec => ImplementsMerge
<1>1. Init => Merged!MergeInit
  BY DEF Init, JoinInit, Merged!MergeInit
<1>2. JoinedInv /\ [Next]_vars => [Merged!MergeNext]_(Merged!mergeVars)
  <2>1. CASE UNCHANGED vars
    BY <2>1 DEF vars, joinVars, outVars, history, Merged!mergeVars
  <2>. QED
    BY <2>1, MergeStep
<1>. QED
  BY <1>1, <1>2, JoinedInvariance, PTL DEF Spec, ImplementsMerge, Merged!MergeSpec

-----------------------------------------------------------------------------
(* The graph of a program. *)

Single == Sources \cup Operators \cup Terminators \cup {"repeater"}

\* The kinds of stages are disjoint, and there are no others.
LEMMA KindsDiffer ==
  /\ Generators \cap (Single \cup Mergers) = {} /\ Mergers \cap Single = {}
  /\ Sources \cap (Operators \cup Terminators \cup {"repeater"}) = {}
  /\ Operators \cap (Terminators \cup {"repeater"}) = {} /\ "repeater" \notin Terminators
  /\ Kinds = Generators \cup Single \cup Mergers
BY DEF Single, Kinds, Generators, Sources, Operators, Mergers, Terminators

\* A stage of a wired program has a number, a kind and channels that are
\* numbers.
LEMMA StageForm ==
  ASSUME Wired(graph), NEW s \in Stages
  PROVE  /\ s \in Nat /\ Kind(s) \in Kinds /\ graph[s].n \in Nat
         /\ graph[s].in \in Seq(Nat \ {0}) /\ graph[s].out \in Seq(Nat \ {0})
         /\ In(s) \subseteq Nat \ {0} /\ Out(s) \subseteq Nat \ {0}
<1>1. graph \in Seq(StageType)
  BY DEF Wired
<1>2. graph[s] \in StageType /\ s \in Nat
  BY <1>1 DEF Stages
<1>. QED
  BY <1>2 DEF StageType, Kind, In, Out, ToSet

\* Every channel has a stage that writes it and a later one that reads it, and
\* no two stages share an end.
LEMMA Wires ==
  ASSUME Wired(graph), NEW s \in Stages
  PROVE  /\ \A c \in In(s) : \E t \in Stages : t < s /\ c \in Out(t)
         /\ \A c \in Out(s) : \E t \in Stages : s < t /\ c \in In(t)
         /\ \A t \in Stages \ {s} : In(s) \cap In(t) = {} /\ Out(s) \cap Out(t) = {}
BY DEF Wired, Stages, In, Out

\* How many channels a stage reads and writes, by its kind.
LEMMA Shapes ==
  ASSUME Wired(graph), NEW s \in Stages
  PROVE  /\ Kind(s) \in Generators => In(s) = {}
         /\ Kind(s) \in Single => In(s) = {graph[s].in[1]}
         /\ Kind(s) = "join" => In(s) # {}
         /\ Kind(s) \in Terminators => Out(s) = {}
         /\ Kind(s) = "split" => Out(s) = {graph[s].out[1], graph[s].out[2]}
         /\ Kind(s) \in {"tee", "copy"} => graph[s].out[1] \in Out(s)
         /\ Kind(s) \notin Terminators \cup {"split", "tee", "copy", "repeater"} => Out(s) = {graph[s].out[1]}
         /\ Kind(s) \in Sources => \A t \in Stages : Out(t) \cap In(s) # {} => Kind(t) \in Generators
<1>. DEFINE g == graph[s]
<1>1. g.in \in Seq(Nat \ {0}) /\ g.out \in Seq(Nat \ {0})
  BY StageForm
<1>2. /\ g.kind \in Generators => g.in = <<>>
      /\ g.kind \in Single => Len(g.in) = 1
      /\ g.kind = "join" => g.in # <<>>
      /\ g.kind \in Terminators => g.out = <<>>
      /\ g.kind = "split" => Len(g.out) = 2
      /\ g.kind \in {"tee", "copy"} => g.out # <<>>
      /\ g.kind \notin Terminators \cup {"split", "tee", "copy", "repeater"} => Len(g.out) = 1
  BY DEF Wired, Stages, Single
<1>3. Kind(s) \in Sources => \A t \in Stages : Out(t) \cap In(s) # {} => Kind(t) \in Generators
  BY DEF Wired, Stages, In, Out, Kind
<1>. HIDE DEF g
<1>4. ASSUME NEW q \in Seq(Nat \ {0})
      PROVE  /\ q = <<>> => ToSet(q) = {}
             /\ Len(q) = 1 => ToSet(q) = {q[1]}
             /\ q # <<>> => q[1] \in ToSet(q)
             /\ Len(q) = 2 => ToSet(q) = {q[1], q[2]}
  <2>1. Len(q) = 1 => DOMAIN q = {1}
    OBVIOUS
  <2>2. Len(q) = 2 => DOMAIN q = {1, 2}
    OBVIOUS
  <2>3. q # <<>> => 1 \in DOMAIN q
    OBVIOUS
  <2>4. q = <<>> => DOMAIN q = {}
    OBVIOUS
  <2>. QED
    BY <2>1, <2>2, <2>3, <2>4 DEF ToSet
<1>5. Kind(s) = g.kind /\ In(s) = ToSet(g.in) /\ Out(s) = ToSet(g.out)
  BY DEF Kind, In, Out, g
<1>6. Single = Sources \cup Operators \cup Terminators \cup {"repeater"}
  BY DEF Single
<1>7. /\ g.kind \in Generators => ToSet(g.in) = {}
      /\ g.kind \in Single => ToSet(g.in) = {g.in[1]}
  BY <1>1, <1>2, <1>4
<1>8. g.kind = "join" => ToSet(g.in) # {}
  BY <1>1, <1>2, <1>4
<1>9. /\ g.kind \in Terminators => ToSet(g.out) = {}
      /\ g.kind = "split" => ToSet(g.out) = {g.out[1], g.out[2]}
      /\ g.kind \in {"tee", "copy"} => g.out[1] \in ToSet(g.out)
      /\ g.kind \notin Terminators \cup {"split", "tee", "copy", "repeater"} => ToSet(g.out) = {g.out[1]}
  BY <1>1, <1>2, <1>4
<1>10. g = graph[s]
  BY DEF g
<1>. QED
  BY <1>3, <1>5, <1>7, <1>8, <1>9, <1>10

\* A channel of a wired program leads from one stage to one later stage.
LEMMA Ends ==
  ASSUME Wired(graph), NEW c \in Channels
  PROVE  /\ Producer(c) \in Stages /\ c \in Out(Producer(c))
         /\ \A s \in Stages : c \in Out(s) => s = Producer(c)
         /\ Reader(c) \in Stages /\ c \in In(Reader(c))
         /\ \A s \in Stages : c \in In(s) => s = Reader(c)
         /\ Producer(c) < Reader(c)
         /\ Producer(c) \in Nat /\ Reader(c) \in Nat /\ c \in Nat \ {0}
         /\ Kind(Reader(c)) \in Sources => Kind(Producer(c)) \in Generators
<1>1. PICK p \in Stages : c \in Out(p)
  BY DEF Channels
<1>2. PICK r \in Stages : p < r /\ c \in In(r)
  BY <1>1, Wires
<1>3. \A s \in Stages : c \in Out(s) => s = p
  BY <1>1, Wires
<1>4. \A s \in Stages : c \in In(s) => s = r
  BY <1>2, Wires
<1>5. Producer(c) = p
  BY <1>1, <1>3 DEF Producer
<1>6. Reader(c) = r
  BY <1>2, <1>4 DEF Reader
<1>7. Kind(r) \in Sources => Kind(p) \in Generators
  BY <1>1, <1>2, Shapes
<1>8. p \in Nat /\ r \in Nat /\ c \in Nat \ {0}
  BY <1>1, <1>2, StageForm
<1>. QED
  BY <1>1, <1>2, <1>3, <1>4, <1>5, <1>6, <1>7, <1>8

\* The channels that a stage reads and writes are channels of the program that
\* it is the reader and the producer of.
LEMMA InAndOut ==
  ASSUME Wired(graph), NEW s \in Stages
  PROVE  /\ In(s) \subseteq Channels /\ \A c \in In(s) : Reader(c) = s
         /\ Out(s) \subseteq Channels /\ \A c \in Out(s) : Producer(c) = s
<1>1. Out(s) \subseteq Channels
  BY DEF Channels
<1>2. In(s) \subseteq Channels
  BY Wires DEF Channels
<1>. QED
  BY <1>1, <1>2, Ends

\* Nothing that is read off the graph changes while the graph does not.
LEMMA GraphStays ==
  ASSUME UNCHANGED graph
  PROVE  /\ Stages' = Stages /\ Channels' = Channels
         /\ \A s : Kind(s)' = Kind(s) /\ In(s)' = In(s) /\ Out(s)' = Out(s)
         /\ \A c : Reader(c)' = Reader(c) /\ Producer(c)' = Producer(c) /\ CtrlOf(c)' = CtrlOf(c)
<1>1. Stages' = Stages /\ Channels' = Channels
  BY DEF Stages, Channels, Out
<1>2. \A s : Kind(s)' = Kind(s) /\ In(s)' = In(s) /\ Out(s)' = Out(s)
  BY DEF Kind, In, Out
<1>3. \A c : Reader(c)' = Reader(c)
  BY DEF Reader, Stages, In
<1>4. \A c : Producer(c)' = Producer(c)
  BY DEF Producer, Stages, Out
<1>5. \A c : CtrlOf(c)' = CtrlOf(c)
  BY DEF CtrlOf, Producer, Stages, Out, Kind, Channels
<1>. QED
  BY <1>1, <1>2, <1>3, <1>4, <1>5

-----------------------------------------------------------------------------
(* What can be reached from an element of a set along a relation.  The      *)
(* recursive functions of the program are such sets, so they exist.         *)

Reached(S, R, x) ==
  {y \in S : \A X \in SUBSET S : x \in X /\ (\A p \in R : p[1] \in X => p[2] \in X) => y \in X}

\* What is reached from x is x and what is reached from where x leads.
LEMMA ReachedIs ==
  ASSUME NEW S, NEW R \in SUBSET (S \X S), NEW x \in S
  PROVE  Reached(S, R, x) = {x} \cup UNION {Reached(S, R, p[2]) : p \in {q \in R : q[1] = x}}
<1>. DEFINE Beyond == {Reached(S, R, p[2]) : p \in {q \in R : q[1] = x}}
            Y == {x} \cup UNION Beyond
            Closed(X) == \A p \in R : p[1] \in X => p[2] \in X
<1>1. \A z : Reached(S, R, z) = {y \in S : \A X \in SUBSET S : z \in X /\ Closed(X) => y \in X}
  BY DEF Reached
<1>2. \A z \in S : Reached(S, R, z) \subseteq S /\ z \in Reached(S, R, z)
  BY <1>1
<1>3. \A p \in R : p \in S \X S /\ p[1] \in S /\ p[2] \in S
  OBVIOUS
<1>4. \A z \in S : Closed(Reached(S, R, z))
  <2>1. SUFFICES ASSUME NEW z \in S, NEW p \in R, p[1] \in Reached(S, R, z)
                 PROVE  p[2] \in Reached(S, R, z)
    OBVIOUS
  <2>2. ASSUME NEW X \in SUBSET S, z \in X, Closed(X) PROVE p[2] \in X
    <3>1. p[1] \in X
      BY <1>1, <2>1, <2>2
    <3>. QED
      BY <2>2, <3>1
  <2>. QED
    BY <1>1, <1>3, <2>2
<1>5. Y \subseteq Reached(S, R, x)
  <2>1. ASSUME NEW p \in R, p[1] = x, NEW y \in Reached(S, R, p[2]) PROVE y \in Reached(S, R, x)
    <3>1. ASSUME NEW X \in SUBSET S, x \in X, Closed(X) PROVE y \in X
      <4>1. p[2] \in X
        BY <2>1, <3>1
      <4>. QED
        BY <1>1, <2>1, <3>1, <4>1
    <3>2. y \in S
      BY <1>2, <1>3, <2>1
    <3>. QED
      BY <1>1, <3>1, <3>2
  <2>2. x \in Reached(S, R, x)
    BY <1>2
  <2>. QED
    BY <2>1, <2>2
<1>6. Y \subseteq S /\ x \in Y
  BY <1>2, <1>3
<1>7. Closed(Y)
  <2>1. SUFFICES ASSUME NEW p \in R, p[1] \in Y PROVE p[2] \in Y
    OBVIOUS
  <2>2. CASE p[1] = x
    BY <1>2, <1>3, <2>2
  <2>3. CASE \E q \in R : q[1] = x /\ p[1] \in Reached(S, R, q[2])
    <3>1. PICK q \in R : q[1] = x /\ p[1] \in Reached(S, R, q[2])
      BY <2>3
    <3>2. p[2] \in Reached(S, R, q[2])
      BY <1>3, <1>4, <3>1
    <3>. QED
      BY <3>1, <3>2
  <2>. QED
    BY <2>1, <2>2, <2>3
<1>8. Reached(S, R, x) \subseteq Y
  <2>. HIDE DEF Y, Closed
  <2>. QED
    BY <1>1, <1>6, <1>7
<1>. QED
  BY <1>5, <1>8

\* A set of numbers that is not empty has a least one.
LEMMA LeastOf ==
  ASSUME NEW T, T \subseteq Nat, T # {}
  PROVE  \E x \in T : \A y \in T : x <= y
<1>. DEFINE R == OpToRel(<, Nat)
<1>1. IsWellFoundedOn(R, Nat)
  BY NatLessThanWellFounded
<1>2. \A x, y \in Nat : x < y => <<x, y>> \in R
  BY DEF OpToRel
<1>. HIDE DEF R
<1>3. PICK x \in T : \A y \in T : ~ (<<y, x>> \in R)
  BY <1>1, WFMin
<1>4. ASSUME NEW y \in T PROVE x <= y
  <2>1. x \in Nat /\ y \in Nat
    OBVIOUS
  <2>2. ~(y < x)
    BY <1>2, <1>3, <2>1, Zenon
  <2>. QED
    BY <2>1, <2>2
<1>. QED
  BY <1>4

\* Stages are numbered, from 1 to the last one.
LEMMA LastOf ==
  ASSUME Wired(graph), NEW T, T \subseteq Stages, T # {}
  PROVE  \E x \in T : \A y \in T : y <= x
<1>. DEFINE n == Len(graph)
            U == {n - x : x \in T}
<1>1. graph \in Seq(StageType) /\ n \in Nat /\ Stages = 1 .. n
  BY DEF Wired, Stages
<1>. HIDE DEF n
<1>2. U \subseteq Nat /\ U # {}
  <2>1. \A x \in T : n - x \in Nat
    BY <1>1
  <2>. QED
    BY <2>1
<1>3. PICK u \in U : \A v \in U : u <= v
  <2>. HIDE DEF U
  <2>. QED
    BY <1>2, LeastOf
<1>4. PICK x \in T : u = n - x
  OBVIOUS
<1>5. \A y \in T : n - x <= n - y
  BY <1>3, <1>4
<1>. QED
  BY <1>1, <1>5

\* ... and a first one.
LEMMA FirstOf ==
  ASSUME Wired(graph), NEW T, T \subseteq Stages, T # {}
  PROVE  \E x \in T : \A y \in T : x <= y
<1>1. T \subseteq Nat
  BY StageForm
<1>. QED
  BY <1>1, LeastOf

-----------------------------------------------------------------------------
(* Control channels. *)

Shares(c) == Kind(Producer(c)) \in Operators
Upstream(c) == graph[Producer(c)].in[1]

\* An operator has one input, which comes from an earlier stage.
LEMMA UpstreamIs ==
  ASSUME Wired(graph), NEW c \in Channels, Shares(c)
  PROVE  /\ Upstream(c) \in Channels /\ In(Producer(c)) = {Upstream(c)}
         /\ Reader(Upstream(c)) = Producer(c) /\ Producer(Upstream(c)) < Producer(c)
<1>1. Producer(c) \in Stages /\ Kind(Producer(c)) \in Single
  BY Ends DEF Shares, Single
<1>2. In(Producer(c)) = {Upstream(c)}
  BY <1>1, Shapes DEF Upstream
<1>3. Upstream(c) \in Channels /\ Reader(Upstream(c)) = Producer(c)
  BY <1>1, <1>2, InAndOut
<1>. QED
  BY <1>2, <1>3, Ends

\* The function that CtrlOf chooses exists.
LEMMA CtrlExists ==
  ASSUME Wired(graph)
  PROVE  \E ctrl : ctrl = [d \in Channels |-> IF Shares(d) THEN ctrl[Upstream(d)] ELSE d]
<1>. DEFINE R == {<<d, Upstream(d)>> : d \in {k \in Channels : Shares(k)}}
            C(d) == Reached(Channels, R, d)
            Own(d) == {k \in C(d) : ~Shares(k)}
            ctrl == [d \in Channels |-> CHOOSE k : k \in Own(d)]
<1>1. R \in SUBSET (Channels \X Channels)
  BY UpstreamIs
<1>2. \A d \in Channels : C(d) = {d} \cup UNION {C(p[2]) : p \in {q \in R : q[1] = d}}
  <2>. HIDE DEF R
  <2>. QED
    BY <1>1, ReachedIs
<1>3. ASSUME NEW d \in Channels, ~Shares(d) PROVE C(d) = {d}
  <2>1. {q \in R : q[1] = d} = {}
    BY <1>3
  <2>. HIDE DEF R
  <2>. QED
    BY <1>2, <2>1
<1>4. ASSUME NEW d \in Channels, Shares(d) PROVE C(d) = {d} \cup C(Upstream(d))
  <2>1. {q \in R : q[1] = d} = {<<d, Upstream(d)>>}
    BY <1>4
  <2>. HIDE DEF R
  <2>2. UNION {C(p[2]) : p \in {<<d, Upstream(d)>>}} = C(Upstream(d))
    OBVIOUS
  <2>. QED
    BY <1>2, <2>1, <2>2
<1>. HIDE DEF C
<1>5. ASSUME NEW d \in Channels, Shares(d) PROVE ctrl[d] = ctrl[Upstream(d)]
  <2>1. Own(d) = Own(Upstream(d))
    BY <1>4, <1>5
  <2>2. Upstream(d) \in Channels
    BY <1>5, UpstreamIs
  <2>. QED
    BY <2>1, <2>2
<1>6. ASSUME NEW d \in Channels, ~Shares(d) PROVE ctrl[d] = d
  <2>1. Own(d) = {d}
    BY <1>3, <1>6
  <2>. HIDE DEF Own
  <2>. QED
    BY <2>1
<1>. DEFINE G == [d \in Channels |-> IF Shares(d) THEN ctrl[Upstream(d)] ELSE d]
<1>7. ctrl = G
  <2>1. \A d \in Channels : ctrl[d] = G[d]
    BY <1>5, <1>6
  <2>2. ctrl = [d \in Channels |-> ctrl[d]] /\ G = [d \in Channels |-> G[d]]
    OBVIOUS
  <2>. HIDE DEF ctrl, G
  <2>. QED
    BY <2>1, <2>2, Zenon
<1>. HIDE DEF ctrl
<1>. QED
  BY <1>7

\* What CtrlOf computes: an operator shares the control channel of its input.
LEMMA CtrlIs ==
  ASSUME Wired(graph), NEW c \in Channels
  PROVE  CtrlOf(c) = IF Shares(c) THEN CtrlOf(Upstream(c)) ELSE c
<1>. DEFINE F(ctrl) == ctrl = [d \in Channels |-> IF Shares(d) THEN ctrl[Upstream(d)] ELSE d]
            ctrl == CHOOSE f : F(f)
<1>1. F(ctrl)
  <2>. HIDE DEF F
  <2>1. \E f : F(f)
    BY CtrlExists DEF F
  <2>. QED
    BY <2>1
<1>2. \A d : CtrlOf(d) = ctrl[d]
  BY DEF CtrlOf, Shares, Upstream
<1>. HIDE DEF ctrl
<1>3. Shares(c) => Upstream(c) \in Channels
  BY UpstreamIs
<1>. QED
  BY <1>1, <1>2, <1>3

\* A control channel is named like the data channel of a stage that is not an
\* operator.
LEMMA CtrlChannel ==
  ASSUME Wired(graph), NEW c \in Channels
  PROVE  CtrlOf(c) \in Channels /\ ~Shares(CtrlOf(c))
<1>. DEFINE Bad == {d \in Channels : ~(CtrlOf(d) \in Channels /\ ~Shares(CtrlOf(d)))}
            T == {Producer(d) : d \in Bad}
<1>1. SUFFICES ASSUME Bad # {} PROVE FALSE
  OBVIOUS
<1>2. T \subseteq Stages /\ T # {}
  BY <1>1, Ends
<1>3. PICK x \in T : \A y \in T : x <= y
  <2>. HIDE DEF T
  <2>. QED
    BY <1>2, FirstOf
<1>4. PICK d \in Bad : x = Producer(d)
  OBVIOUS
<1>5. Shares(d)
  BY <1>4, CtrlIs
<1>6. CtrlOf(d) = CtrlOf(Upstream(d)) /\ Upstream(d) \in Channels /\ Producer(Upstream(d)) < x
  BY <1>4, <1>5, CtrlIs, UpstreamIs
<1>7. Upstream(d) \in Bad
  BY <1>4, <1>6
<1>8. Producer(Upstream(d)) \in Nat /\ x \in Nat /\ x <= Producer(Upstream(d))
  BY <1>3, <1>4, <1>6, <1>7, Ends
<1>. QED
  BY <1>6, <1>8

-----------------------------------------------------------------------------
(* What a stage feeds. *)

There(t) == {d \in Out(t) : chan[d] # "new"}

\* The function that Downstream chooses exists.
LEMMA DownstreamExists ==
  ASSUME Wired(graph)
  PROVE  \E down : down = [t \in Stages |-> {t} \cup UNION {down[Reader(c)] : c \in There(t)}]
<1>. DEFINE R == {<<Producer(c), Reader(c)>> : c \in {d \in Channels : chan[d] # "new"}}
            D(t) == Reached(Stages, R, t)
            down == [t \in Stages |-> D(t)]
            G == [t \in Stages |-> {t} \cup UNION {down[Reader(c)] : c \in There(t)}]
<1>1. R \in SUBSET (Stages \X Stages)
  BY Ends
<1>2. ASSUME NEW t \in Stages PROVE down[t] = G[t]
  <2>1. D(t) = {t} \cup UNION {D(p[2]) : p \in {q \in R : q[1] = t}}
    <3>. HIDE DEF R
    <3>. QED
      BY <1>1, ReachedIs
  <2>2. \A c \in There(t) : c \in Channels /\ Reader(c) \in Stages /\ Producer(c) = t /\ <<t, Reader(c)>> \in R
    <3>1. There(t) \subseteq Channels /\ \A c \in There(t) : Producer(c) = t
      BY InAndOut DEF There
    <3>. QED
      BY <3>1, Ends DEF There
  <2>3. \A q \in R : q[1] = t => \E c \in There(t) : q[2] = Reader(c)
    BY Ends DEF There
  <2>. HIDE DEF R, D
  <2>4. UNION {D(p[2]) : p \in {q \in R : q[1] = t}} = UNION {down[Reader(c)] : c \in There(t)}
    BY <2>2, <2>3
  <2>. QED
    BY <2>1, <2>4
<1>3. down = G
  <2>1. down = [t \in Stages |-> down[t]] /\ G = [t \in Stages |-> G[t]]
    OBVIOUS
  <2>. HIDE DEF down, G
  <2>. QED
    BY <1>2, <2>1, Zenon
<1>. HIDE DEF down
<1>. QED
  BY <1>3

\* What Downstream computes: a stage, and what the readers of its channels feed.
LEMMA DownstreamIs ==
  ASSUME Wired(graph), NEW t \in Stages
  PROVE  Downstream(t) = {t} \cup UNION {Downstream(Reader(c)) : c \in There(t)}
<1>. DEFINE F(f) == f = [x \in Stages |-> {x} \cup UNION {f[Reader(c)] : c \in There(x)}]
            down == CHOOSE f : F(f)
<1>1. F(down)
  <2>. HIDE DEF F
  <2>1. \E f : F(f)
    BY DownstreamExists DEF F
  <2>. QED
    BY <2>1
<1>2. \A x : Downstream(x) = down[x]
  BY DEF Downstream, There
<1>. HIDE DEF down
<1>3. down[t] = {t} \cup UNION {down[Reader(c)] : c \in There(t)}
  BY <1>1
<1>4. {Downstream(Reader(c)) : c \in There(t)} = {down[Reader(c)] : c \in There(t)}
  BY <1>2
<1>. HIDE DEF F
<1>. QED
  BY <1>2, <1>3, <1>4

\* A stage that is fed feeds no stage which is not.
LEMMA DownstreamIsClosed ==
  ASSUME Wired(graph), NEW t \in Stages
  PROVE  Downstream(t) \subseteq Stages /\ \A u \in Downstream(t) : Downstream(u) \subseteq Downstream(t)
<1>. DEFINE P(x) == Downstream(x) \subseteq Stages /\ \A u \in Downstream(x) : Downstream(u) \subseteq Downstream(x)
            Bad == {x \in Stages : ~P(x)}
<1>1. SUFFICES ASSUME Bad # {} PROVE FALSE
  OBVIOUS
<1>2. PICK x \in Bad : \A y \in Bad : y <= x
  <2>. HIDE DEF P
  <2>. QED
    BY <1>1, LastOf
<1>3. x \in Stages /\ ~P(x)
  OBVIOUS
<1>4. ASSUME NEW c \in There(x) PROVE P(Reader(c))
  <2>1. c \in Channels /\ Producer(c) = x
    BY <1>3, InAndOut DEF There
  <2>2. Reader(c) \in Stages /\ x < Reader(c) /\ x \in Nat /\ Reader(c) \in Nat
    BY <2>1, Ends
  <2>3. ~(Reader(c) \in Bad)
    <3>. HIDE DEF Bad
    <3>. QED
      BY <1>2, <2>2
  <2>. HIDE DEF P
  <2>. QED
    BY <2>2, <2>3
<1>5. Downstream(x) = {x} \cup UNION {Downstream(Reader(c)) : c \in There(x)}
  BY <1>3, DownstreamIs
<1>6. P(x)
  BY <1>3, <1>4, <1>5
<1>. QED
  BY <1>3, <1>6

\* A stage feeds the reader of its channel, and all that one feeds.
LEMMA Feeds ==
  ASSUME Wired(graph), NEW c \in Channels, chan[c] # "new"
  PROVE  /\ Producer(c) \in Downstream(Producer(c)) /\ Reader(c) \in Downstream(Reader(c))
         /\ Reader(c) \in Downstream(Producer(c)) /\ Downstream(Reader(c)) \subseteq Downstream(Producer(c))
<1>1. c \in There(Producer(c)) /\ Producer(c) \in Stages /\ Reader(c) \in Stages
  BY Ends DEF There
<1>2. Reader(c) \in Downstream(Reader(c)) /\ Producer(c) \in Downstream(Producer(c))
  BY <1>1, DownstreamIs
<1>3. Downstream(Reader(c)) \subseteq Downstream(Producer(c))
  BY <1>1, DownstreamIs
<1>. QED
  BY <1>2, <1>3

\* A stage that is fed by one which does not exist yet does not exist either.
LEMMA MissingBelow ==
  ASSUME Wired(graph), NEW s \in Stages, Missing(s), NEW u \in Downstream(s)
  PROVE  Missing(u)
<1>1. PICK c \in Channels : chan[c] = "new" /\ s \in Downstream(Reader(c))
  BY DEF Missing
<1>2. u \in Downstream(Reader(c))
  BY <1>1, Ends, DownstreamIsClosed
<1>. QED
  BY <1>1, <1>2 DEF Missing

-----------------------------------------------------------------------------
(* The inductive invariant of a program. *)

Item == [gen : Nat, n : Int]
Todos == Seq(Nat \X Item)
StageState == [pc : {"run", "done", "left"}, todo : Todos, count : Nat, on : BOOLEAN,
               active : SUBSET Nat, ctrl : BOOLEAN]

ProgramTypeOK ==
  /\ graph \in Graphs
  /\ stage \in [Stages -> StageState]
  /\ buf \in [Channels -> Seq(Item)]
  /\ chan \in [Channels -> {"new", "open", "closed"}]
  /\ closedCtrl \subseteq Int
  /\ since \in [Channels -> Nat]
  /\ got \in [Stages -> Seq(Item)]

\* What a stage has to send it sends to streams that are open.
SendsToOpen(s) ==
  /\ \A i \in DOMAIN stage[s].todo : stage[s].todo[i][1] \in Children(s)
  /\ stage[s].pc # "run" => stage[s].todo = <<>>

\* A stage reads its inputs until they are closed.
ReadsOpen(s) ==
  /\ stage[s].active \subseteq In(s)
  /\ \A c \in In(s) \ stage[s].active : chan[c] = "closed"
  /\ Kind(s) \notin Mergers \cup {"repeater"} => stage[s].active = In(s)

\* A stage returns when its inputs are closed, or its limit is reached.
AtLimit(s) == Kind(s) = "limit" /\ stage[s].count >= graph[s].n
ReturnsAtEnd(s) ==
  /\ stage[s].pc = "left" => Kind(s) = "subscriber"
  /\ stage[s].pc = "done" /\ Kind(s) \in Mergers \cup {"repeater"} => stage[s].active = {}
  /\ stage[s].pc = "done" /\ Kind(s) \in Operators \cup Terminators /\ ~AtLimit(s) =>
       \A c \in In(s) : chan[c] = "closed"
  /\ stage[s].pc = "run" /\ Kind(s) \in Mergers /\ stage[s].active = {} =>
       Kind(s) = "joiner" /\ stage[s].ctrl

\* One that was told to stop has told its inputs.
TellsInputs(s) ==
  ~stage[s].ctrl => /\ Kind(s) \in Mergers \cup {"repeater"}
                    /\ \A c \in stage[s].active : CtrlOf(c) \in closedCtrl

StageOK(s) == SendsToOpen(s) /\ ReadsOpen(s) /\ ReturnsAtEnd(s) /\ TellsInputs(s)

\* A stream is open as long as its stage runs; only a repeater opens streams
\* later, and closes them before.
ChannelOK(c) ==
  /\ chan[c] = "new" => Kind(Producer(c)) = "repeater"
  /\ chan[c] = "open" => stage[Producer(c)].pc = "run"
  /\ chan[c] = "closed" => Kind(Producer(c)) = "repeater" \/ stage[Producer(c)].pc # "run"

ProgramInv ==
  /\ ProgramTypeOK
  /\ \A s \in Stages : StageOK(s)
  /\ \A c \in Channels : ChannelOK(c)

\* The program is one of those that can be built.
LEMMA GraphIsWired ==
  ASSUME ProgramTypeOK PROVE Wired(graph)
BY ProgramsAreWired DEF ProgramTypeOK

-----------------------------------------------------------------------------
(* What a stage does with an element. *)

\* SetToSeq lists the children of a repeater, which are finitely many.
LEMMA ChildrenInSequence ==
  ASSUME Wired(graph), NEW s \in Stages
  PROVE  SetToSeq(Children(s)) \in Seq(Children(s))
<1>. DEFINE q == graph[s].out
            S == Children(s)
            n == Cardinality(S)
<1>1. q \in Seq(Nat \ {0}) /\ Out(s) = ToSet(q)
  BY StageForm DEF Out
<1>2. IsFiniteSet(Out(s))
  <2>1. q \in Surjection(1 .. Len(q), ToSet(q)) /\ Len(q) \in Nat
    BY <1>1 DEF Surjection, ToSet
  <2>2. ExistsSurjection(1 .. Len(q), ToSet(q))
    BY <2>1 DEF ExistsSurjection
  <2>. QED
    BY <1>1, <2>1, <2>2, FS_NatSurjection
<1>3. IsFiniteSet(S)
  BY <1>2, FS_Subset DEF Children
<1>. HIDE DEF S
<1>4. n \in Nat /\ ExistsBijection(1 .. n, S)
  BY <1>3, FS_CardinalityType
<1>. HIDE DEF n
<1>5. PICK f : f \in Bijection(1 .. n, S)
  BY <1>4 DEF ExistsBijection
<1>6. f \in [1 .. n -> S] /\ IsInjective(f)
  BY <1>5 DEF Bijection, Injection, IsInjective
<1>7. SetToSeq(S) \in [1 .. n -> S]
  BY <1>6 DEF SetToSeq, n
<1>. QED
  BY <1>4, <1>7 DEF S

\* All streams of a running stage are open, but for those of a repeater.
LEMMA OpenOuts ==
  ASSUME ProgramInv, NEW s \in Stages, stage[s].pc = "run", Kind(s) # "repeater"
  PROVE  Children(s) = Out(s)
<1>1. \A c \in Out(s) : c \in Channels /\ Producer(c) = s
  BY GraphIsWired, InAndOut DEF ProgramInv
<1>2. \A c \in Out(s) : chan[c] = "open"
  BY <1>1 DEF ProgramInv, ProgramTypeOK, ChannelOK
<1>. QED
  BY <1>2 DEF Children

\* What a stage has to send when it has taken an element goes to open streams.
LEMMA TodoForm ==
  ASSUME ProgramInv, NEW s \in Stages, stage[s].pc = "run", NEW e \in Item
  PROVE  /\ TodoOf(s, e) \in Seq(Nat \X Item)
         /\ \A i \in DOMAIN TodoOf(s, e) : TodoOf(s, e)[i][1] \in Children(s)
<1>. DEFINE To1 == graph[s].out[1]
            To2 == graph[s].out[2]
            OK(q) == q \in Seq(Nat \X Item) /\ \A i \in DOMAIN q : q[i][1] \in Children(s)
<1>1. Wired(graph)
  BY GraphIsWired DEF ProgramInv
<1>2. Out(s) \subseteq Nat \ {0} /\ Kind(s) \in Kinds
  BY <1>1, StageForm
<1>3. ASSUME NEW c \in Children(s), NEW d \in Item PROVE OK(<<To(c, d)>>)
  <2>1. To(c, d) \in Nat \X Item /\ To(c, d)[1] = c
    BY <1>2 DEF Children, To
  <2>. QED
    BY <2>1
<1>4. OK(<<>>)
  OBVIOUS
<1>5. [e EXCEPT !.n = -@] \in Item
  BY DEF Item
<1>6. CASE Kind(s) \in {"do", "buffer", "overflow", "valve", "throttle", "limit", "map", "filter",
                        "tickerSource", "chargenSource"} \cup Mergers
  <2>1. Out(s) = {To1}
    BY <1>1, <1>6, Shapes DEF Mergers, Terminators
  <2>2. To1 \in Children(s)
    BY <1>6, <2>1, OpenOuts DEF Mergers
  <2>. HIDE DEF OK
  <2>3. /\ TodoOf(s, e) \in {<<To(To1, e)>>, <<To(To1, [e EXCEPT !.n = -@])>>, <<>>}
    BY <1>6 DEF TodoOf, Mapped, Filtered, Mergers
  <2>4. OK(TodoOf(s, e))
    BY <1>3, <1>4, <1>5, <2>2, <2>3
  <2>. QED
    BY <2>4 DEF OK
<1>7. CASE Kind(s) = "split"
  <2>1. Out(s) = {To1, To2}
    BY <1>1, <1>7, Shapes
  <2>2. To1 \in Children(s) /\ To2 \in Children(s)
    BY <1>7, <2>1, OpenOuts
  <2>. HIDE DEF OK
  <2>3. TodoOf(s, e) \in {<<To(To1, e)>>, <<To(To2, e)>>}
    BY <1>7 DEF TodoOf, SplitTo, Mergers
  <2>4. OK(TodoOf(s, e))
    BY <1>3, <2>2, <2>3
  <2>. QED
    BY <2>4 DEF OK
<1>8. CASE Kind(s) \in {"tee", "copy"}
  <2>. DEFINE q == graph[s].out
  <2>1. q \in Seq(Nat \ {0}) /\ \A i \in DOMAIN q : q[i] \in Out(s)
    BY <1>1, StageForm DEF Out, ToSet
  <2>2. Out(s) = Children(s)
    BY <1>8, OpenOuts
  <2>3. TodoOf(s, e) = [i \in DOMAIN q |-> To(q[i], e)]
    BY <1>8 DEF TodoOf, Copies, Mergers
  <2>. HIDE DEF q
  <2>4. DOMAIN q = 1 .. Len(q) /\ Len(q) \in Nat /\ \A i \in DOMAIN q : q[i] \in Nat
    BY <2>1
  <2>. QED
    BY <2>1, <2>2, <2>3, <2>4 DEF To
<1>9. CASE Kind(s) = "repeater"
  <2>. DEFINE q == SetToSeq(Children(s))
  <2>1. q \in Seq(Children(s))
    BY <1>1, ChildrenInSequence
  <2>2. TodoOf(s, e) = [i \in DOMAIN q |-> To(q[i], e)]
    BY <1>9 DEF TodoOf, ToChildren, Mergers
  <2>. HIDE DEF q
  <2>3. DOMAIN q = 1 .. Len(q) /\ Len(q) \in Nat /\ \A i \in DOMAIN q : q[i] \in Nat /\ q[i] \in Children(s)
    BY <1>2, <2>1 DEF Children
  <2>. QED
    BY <2>2, <2>3 DEF To
<1>10. CASE Kind(s) \in Terminators \cup Generators
  <2>1. TodoOf(s, e) = <<>>
    BY <1>10 DEF TodoOf, Mergers, Terminators, Generators
  <2>. QED
    BY <1>4, <2>1
<1>. QED
  BY <1>2, <1>6, <1>7, <1>8, <1>9, <1>10 DEF Kinds, Sources, Operators

\* What RemoveAt returns, element by element.
LEMMA RemovedIs ==
  ASSUME NEW S, NEW q \in Seq(S), NEW i \in DOMAIN q
  PROVE  /\ RemoveAt(q, i) \in Seq(S) /\ DOMAIN RemoveAt(q, i) = 1 .. Len(q) - 1
         /\ Len(q) \in Nat /\ i \in 1 .. Len(q) /\ DOMAIN q = 1 .. Len(q)
         /\ \A j \in 1 .. Len(q) - 1 : RemoveAt(q, i)[j] = IF j < i THEN q[j] ELSE q[j + 1]
<1>. DEFINE a == SubSeq(q, 1, i - 1)
            b == SubSeq(q, i + 1, Len(q))
<1>1. Len(q) \in Nat /\ i \in 1 .. Len(q)
  OBVIOUS
<1>2. DOMAIN q = 1 .. Len(q)
  OBVIOUS
<1>3. a \in Seq(S) /\ Len(a) = i - 1 /\ \A j \in 1 .. i - 1 : a[j] = q[j]
  BY <1>1
<1>4. b \in Seq(S) /\ Len(b) = Len(q) - i /\ \A j \in 1 .. Len(q) - i : b[j] = q[i + j]
  BY <1>1
<1>. HIDE DEF a, b
<1>5. a \in Seq(S) /\ b \in Seq(S) /\ Len(a) = i - 1 /\ Len(b) = Len(q) - i
  BY <1>3, <1>4
<1>6. /\ a \o b \in Seq(S) /\ Len(a \o b) = Len(a) + Len(b)
      /\ \A j \in 1 .. Len(a) + Len(b) : (a \o b)[j] = IF j <= Len(a) THEN a[j] ELSE b[j - Len(a)]
  BY <1>5, ConcatProperties
<1>7. a \o b \in Seq(S) /\ DOMAIN (a \o b) = 1 .. Len(q) - 1
  <2>1. Len(a \o b) = Len(q) - 1
    BY <1>1, <1>5, <1>6
  <2>2. a \o b \in Seq(S) => DOMAIN (a \o b) = 1 .. Len(a \o b)
    OBVIOUS
  <2>. QED
    BY <1>6, <2>1, <2>2
<1>8. ASSUME NEW j \in 1 .. Len(q) - 1 PROVE (a \o b)[j] = IF j < i THEN q[j] ELSE q[j + 1]
  <2>1. (a \o b)[j] = IF j <= Len(a) THEN a[j] ELSE b[j - Len(a)]
    <3>1. j \in 1 .. Len(a) + Len(b)
      BY <1>1, <1>5
    <3>. QED
      BY <1>6, <3>1
  <2>2. CASE j < i
    BY <1>1, <1>3, <2>1, <2>2
  <2>3. CASE ~(j < i)
    <3>1. j - (i - 1) \in 1 .. Len(q) - i /\ i + (j - (i - 1)) = j + 1 /\ ~(j <= i - 1)
      BY <1>1, <2>3
    <3>2. b[j - (i - 1)] = q[j + 1]
      BY <1>4, <3>1
    <3>. QED
      BY <1>3, <2>1, <2>3, <3>1, <3>2
  <2>. QED
    BY <2>2, <2>3
<1>9. RemoveAt(q, i) = a \o b
  BY DEF RemoveAt, a, b
<1>. QED
  BY <1>1, <1>7, <1>8, <1>9, <1>2

\* RemoveAt leaves elements of the sequence only.
LEMMA Removed ==
  ASSUME NEW S, NEW q \in Seq(S), NEW i \in DOMAIN q
  PROVE  /\ RemoveAt(q, i) \in Seq(S)
         /\ \A j \in DOMAIN RemoveAt(q, i) : \E k \in DOMAIN q : RemoveAt(q, i)[j] = q[k]
<1>. DEFINE r == RemoveAt(q, i)
<1>1. /\ r \in Seq(S) /\ DOMAIN r = 1 .. Len(q) - 1 /\ Len(q) \in Nat /\ DOMAIN q = 1 .. Len(q)
      /\ \A j \in 1 .. Len(q) - 1 : r[j] = IF j < i THEN q[j] ELSE q[j + 1]
  BY RemovedIs
<1>. HIDE DEF r
<1>2. ASSUME NEW j \in DOMAIN r PROVE \E k \in DOMAIN q : r[j] = q[k]
  <2>1. j \in DOMAIN q /\ j + 1 \in DOMAIN q
    BY <1>1
  <2>. QED
    BY <1>1, <2>1
<1>. QED
  BY <1>1, <1>2 DEF r

-----------------------------------------------------------------------------
(* Steps.  What a step does to one stage disturbs the others only by what   *)
(* it closes.                                                               *)

\* A stage that does not change keeps its part of the invariant when nothing it
\* sends to is closed.
LEMMA OtherStage ==
  ASSUME ProgramInv, UNCHANGED graph, NEW s \in Stages, stage'[s] = stage[s],
         \A c \in Channels : chan[c] = "closed" => chan'[c] = "closed",
         stage[s].todo # <<>> => \A c \in Out(s) : chan[c] = "open" => chan'[c] = "open",
         closedCtrl \subseteq closedCtrl'
  PROVE  StageOK(s)'
<1>1. StageOK(s)
  BY DEF ProgramInv
<1>2. /\ In(s)' = In(s) /\ Out(s)' = Out(s) /\ Kind(s)' = Kind(s) /\ graph'[s].n = graph[s].n
      /\ \A c : CtrlOf(c)' = CtrlOf(c)
  BY GraphStays
<1>3. In(s) \subseteq Channels
  BY GraphIsWired, InAndOut DEF ProgramInv
<1>4. SendsToOpen(s)'
  <2>1. stage[s].todo = <<>> => DOMAIN stage[s].todo = {}
    OBVIOUS
  <2>. QED
    BY <1>1, <1>2, <2>1 DEF StageOK, SendsToOpen, Children
<1>5. ReadsOpen(s)'
  BY <1>1, <1>2, <1>3 DEF StageOK, ReadsOpen
<1>6. ReturnsAtEnd(s)'
  BY <1>1, <1>2, <1>3 DEF StageOK, ReturnsAtEnd, AtLimit
<1>7. TellsInputs(s)'
  BY <1>1, <1>2 DEF StageOK, TellsInputs
<1>. QED
  BY <1>4, <1>5, <1>6, <1>7 DEF StageOK

\* A channel that does not change keeps its part of the invariant when its
\* producer goes on.
LEMMA OtherChannel ==
  ASSUME ProgramInv, UNCHANGED graph, NEW c \in Channels, chan'[c] = chan[c],
         stage'[Producer(c)].pc = stage[Producer(c)].pc
  PROVE  ChannelOK(c)'
<1>1. Producer(c)' = Producer(c) /\ Kind(Producer(c))' = Kind(Producer(c))
  <2>1. Producer(c)' = Producer(c)
    BY GraphStays
  <2>. QED
    BY <2>1 DEF Kind
<1>. QED
  BY <1>1 DEF ProgramInv, ChannelOK

\* A stage that goes on: what it has to send is new or less than before.
LEMMA SameStage ==
  ASSUME ProgramInv, UNCHANGED graph, UNCHANGED chan, closedCtrl \subseteq closedCtrl',
         NEW s \in Stages,
         \A i \in DOMAIN stage'[s].todo : stage'[s].todo[i][1] \in Children(s),
         stage'[s].pc = "run", stage[s].pc = "run",
         stage'[s].active = stage[s].active, stage'[s].ctrl = stage[s].ctrl
  PROVE  StageOK(s)'
<1>1. StageOK(s)
  BY DEF ProgramInv
<1>2. /\ In(s)' = In(s) /\ Out(s)' = Out(s) /\ Kind(s)' = Kind(s) /\ graph'[s].n = graph[s].n
      /\ \A c : CtrlOf(c)' = CtrlOf(c)
  BY GraphStays
<1>4. SendsToOpen(s)'
  BY <1>2 DEF SendsToOpen, Children
<1>5. ReadsOpen(s)'
  BY <1>1, <1>2 DEF StageOK, ReadsOpen
<1>6. ReturnsAtEnd(s)'
  BY <1>1, <1>2 DEF StageOK, ReturnsAtEnd
<1>7. TellsInputs(s)'
  BY <1>1, <1>2 DEF StageOK, TellsInputs
<1>. QED
  BY <1>4, <1>5, <1>6, <1>7 DEF StageOK

\* What the invariant says of the types of a stage.
LEMMA StageTypes ==
  ASSUME ProgramInv, NEW s \in Stages
  PROVE  /\ stage[s] \in StageState /\ s \in Nat /\ Wired(graph)
         /\ stage[s].todo \in Seq(Nat \X Item)
         /\ \A i \in DOMAIN stage[s].todo :
              LET c == stage[s].todo[i][1]
              IN c \in Out(s) /\ c \in Channels /\ Producer(c) = s /\ chan[c] = "open"
         /\ stage[s].todo # <<>> => stage[s].pc = "run"
<1>1. stage[s] \in StageState /\ Wired(graph)
  BY GraphIsWired DEF ProgramInv, ProgramTypeOK
<1>2. s \in Nat /\ Out(s) \subseteq Channels /\ \A c \in Out(s) : Producer(c) = s
  BY <1>1, StageForm, InAndOut
<1>3. stage[s].todo \in Seq(Nat \X Item)
  BY <1>1 DEF StageState, Todos
<1>4. SendsToOpen(s)
  BY DEF ProgramInv, StageOK
<1>. QED
  BY <1>1, <1>2, <1>3, <1>4 DEF SendsToOpen, Children

\* Stage records with another list to send.
LEMMA UpdatedTodo ==
  ASSUME NEW r \in StageState, NEW q \in Seq(Nat \X Item)
  PROVE  LET x == [r EXCEPT !.todo = q]
         IN /\ x \in StageState
            /\ x.todo = q /\ x.pc = r.pc /\ x.active = r.active /\ x.ctrl = r.ctrl /\ x.count = r.count
<1>1. q \in Todos
  BY DEF Todos
<1>. QED
  BY <1>1 DEF StageState

Counted(r, q) == [r EXCEPT !.todo = q, !.count = r.count + 1]

\* Stage records with another list to send, and one element more.
LEMMA UpdatedCount ==
  ASSUME NEW r \in StageState, NEW q \in Seq(Nat \X Item)
  PROVE  LET x == Counted(r, q)
         IN /\ x \in StageState
            /\ x.todo = q /\ x.pc = r.pc /\ x.active = r.active /\ x.ctrl = r.ctrl /\ x.count = r.count + 1
<1>. DEFINE x == Counted(r, q)
            n == r.count + 1
<1>1. q \in Todos /\ n \in Nat
  BY DEF StageState, Todos
<1>2. x = [r EXCEPT !.todo = q, !.count = n]
  BY DEF Counted
<1>. HIDE DEF n, x
<1>3. x \in StageState /\ x.todo = q /\ x.pc = r.pc /\ x.active = r.active /\ x.ctrl = r.ctrl /\ x.count = n
  BY <1>1, <1>2 DEF StageState
<1>. QED
  BY <1>3 DEF x, n

\* One stage changes, the others do not.
LEMMA Changed ==
  ASSUME ProgramInv, NEW s \in Stages, NEW r \in StageState, stage' = [stage EXCEPT ![s] = r]
  PROVE  /\ stage' \in [Stages -> StageState] /\ stage'[s] = r
         /\ \A t \in Stages : t # s => stage'[t] = stage[t]
BY DEF ProgramInv, ProgramTypeOK

\* All that changes is what some stages have to send, and what is in the channels.
LEMMA Going ==
  ASSUME ProgramInv, UNCHANGED <<graph, chan, closedCtrl, since>>,
         buf' \in [Channels -> Seq(Item)], got' \in [Stages -> Seq(Item)],
         stage' \in [Stages -> StageState],
         \A s \in Stages : \/ stage'[s] = stage[s]
                           \/ /\ stage[s].pc = "run" /\ stage'[s].pc = "run"
                              /\ stage'[s].active = stage[s].active /\ stage'[s].ctrl = stage[s].ctrl
                              /\ \A i \in DOMAIN stage'[s].todo : stage'[s].todo[i][1] \in Children(s)
  PROVE  ProgramInv'
<1>1. Stages' = Stages /\ Channels' = Channels /\ Wired(graph)
  BY GraphStays, GraphIsWired DEF ProgramInv
<1>2. ProgramTypeOK'
  BY <1>1 DEF ProgramInv, ProgramTypeOK
<1>3. ASSUME NEW s \in Stages PROVE StageOK(s)'
  BY OtherStage, SameStage
<1>4. ASSUME NEW c \in Channels PROVE ChannelOK(c)'
  <2>1. Producer(c) \in Stages
    BY <1>1, Ends
  <2>. QED
    BY <2>1, OtherChannel
<1>. QED
  BY <1>1, <1>2, <1>3, <1>4 DEF ProgramInv

\* A stage that was ready is in order after it has taken an element.
LEMMA TakenForm ==
  ASSUME ProgramInv, NEW s \in Stages, NEW c, Ready(s, c), NEW e \in Item
  PROVE  /\ Taken(s, e) \in StageState /\ Taken(s, e).pc = "run" /\ stage[s].pc = "run"
         /\ Taken(s, e).active = stage[s].active /\ Taken(s, e).ctrl = stage[s].ctrl
         /\ \A i \in DOMAIN Taken(s, e).todo : Taken(s, e).todo[i][1] \in Children(s)
         /\ Noted(s, e) \in [Stages -> Seq(Item)]
<1>1. stage[s].pc = "run" /\ stage[s] \in StageState
  BY StageTypes DEF Ready, AtSelect
<1>2. TodoOf(s, e) \in Seq(Nat \X Item) /\ \A i \in DOMAIN TodoOf(s, e) : TodoOf(s, e)[i][1] \in Children(s)
  BY <1>1, TodoForm
<1>3. Taken(s, e) = Counted(stage[s], TodoOf(s, e))
  BY DEF Taken, Counted
<1>4. Noted(s, e) \in [Stages -> Seq(Item)]
  BY DEF Noted, ProgramInv, ProgramTypeOK
<1>5. /\ Taken(s, e) \in StageState /\ Taken(s, e).pc = stage[s].pc /\ Taken(s, e).todo = TodoOf(s, e)
      /\ Taken(s, e).active = stage[s].active /\ Taken(s, e).ctrl = stage[s].ctrl
  BY <1>1, <1>2, <1>3, UpdatedCount
<1>. QED
  BY <1>1, <1>2, <1>4, <1>5

\* Send preserves the invariant.
LEMMA SendStep ==
  ASSUME ProgramInv, NEW s \in Stages, Send(s)
  PROVE  ProgramInv'
<1>1. PICK i \in Next1(s) :
        LET c == stage[s].todo[i][1]
        IN /\ buf' = [buf EXCEPT ![c] = Append(@, stage[s].todo[i][2])]
           /\ stage' = [stage EXCEPT ![s].todo = RemoveAt(@, i)]
           /\ UNCHANGED <<graph, chan, closedCtrl, since, got>>
  BY DEF Send
<1>. DEFINE q == stage[s].todo
            r == RemoveAt(q, i)
<1>2. i \in DOMAIN q
  BY DEF Next1
<1>3. /\ stage[s] \in StageState /\ q \in Seq(Nat \X Item) /\ stage[s].pc = "run"
      /\ q[i] \in Nat \X Item
      /\ \A k \in DOMAIN q : q[k][1] \in Children(s)
  <2>1. q # <<>>
    BY <1>2
  <2>. QED
    BY <1>2, <2>1, StageTypes DEF Children
<1>4. r \in Seq(Nat \X Item) /\ \A j \in DOMAIN r : r[j][1] \in Children(s)
  <2>. HIDE DEF q
  <2>. QED
    BY <1>2, <1>3, Removed
<1>5. stage' = [stage EXCEPT ![s] = [stage[s] EXCEPT !.todo = r]]
  BY <1>1
<1>6. buf' \in [Channels -> Seq(Item)]
  <2>. DEFINE c == q[i][1]
              e == q[i][2]
  <2>1. e \in Item
    BY <1>3
  <2>2. buf \in [Channels -> Seq(Item)] /\ buf' = [buf EXCEPT ![c] = Append(buf[c], e)]
    BY <1>1 DEF ProgramInv, ProgramTypeOK
  <2>3. c \in Channels
    BY <1>2, <1>3, StageTypes
  <2>. HIDE DEF c, e
  <2>. QED
    BY <2>1, <2>2, <2>3
<1>. HIDE DEF q, r
<1>7. /\ stage' \in [Stages -> StageState] /\ stage'[s] = [stage[s] EXCEPT !.todo = r]
      /\ \A t \in Stages : t # s => stage'[t] = stage[t]
  BY <1>3, <1>4, <1>5, UpdatedTodo, Changed
<1>8. /\ stage'[s].pc = "run" /\ stage'[s].active = stage[s].active /\ stage'[s].ctrl = stage[s].ctrl
      /\ stage'[s].todo = r
  BY <1>3, <1>4, <1>7, UpdatedTodo
<1>9. got' \in [Stages -> Seq(Item)]
  BY <1>1 DEF ProgramInv, ProgramTypeOK
<1>. QED
  BY <1>1, <1>3, <1>4, <1>6, <1>7, <1>8, <1>9, Going

\* HandOver preserves the invariant: two stages change at once.
LEMMA HandOverStep ==
  ASSUME ProgramInv, NEW s \in Stages, HandOver(s)
  PROVE  ProgramInv'
<1>1. PICK i \in Next1(s) :
        LET c == stage[s].todo[i][1]
            e == stage[s].todo[i][2]
            r == Reader(c)
        IN /\ CanHandOver(s, i)
           /\ stage' = [stage EXCEPT ![s].todo = RemoveAt(@, i), ![r] = Taken(r, e)]
           /\ got' = Noted(r, e)
           /\ UNCHANGED <<graph, buf, chan, closedCtrl, since>>
  BY DEF HandOver
<1>. DEFINE q == stage[s].todo
            left == RemoveAt(q, i)
            c == q[i][1]
            e == q[i][2]
            r == Reader(c)
<1>2. i \in DOMAIN q
  BY DEF Next1
<1>3. /\ stage[s] \in StageState /\ q \in Seq(Nat \X Item) /\ stage[s].pc = "run"
      /\ q[i] \in Nat \X Item /\ c \in Channels /\ Producer(c) = s /\ Wired(graph)
      /\ \A k \in DOMAIN q : q[k][1] \in Children(s)
  <2>1. q # <<>>
    BY <1>2
  <2>. QED
    BY <1>2, <2>1, StageTypes DEF Children
<1>4. left \in Seq(Nat \X Item) /\ \A j \in DOMAIN left : left[j][1] \in Children(s)
  <2>. HIDE DEF q
  <2>. QED
    BY <1>2, <1>3, Removed
<1>5. Ready(r, c) /\ stage' = [stage EXCEPT ![s].todo = left, ![r] = Taken(r, e)] /\ got' = Noted(r, e)
  BY <1>1 DEF CanHandOver
<1>6. r \in Stages /\ r # s /\ e \in Item
  BY <1>3, Ends
<1>. HIDE DEF q, left, c, e, r
<1>7. /\ Taken(r, e) \in StageState /\ Taken(r, e).pc = "run" /\ stage[r].pc = "run"
      /\ Taken(r, e).active = stage[r].active /\ Taken(r, e).ctrl = stage[r].ctrl
      /\ \A j \in DOMAIN Taken(r, e).todo : Taken(r, e).todo[j][1] \in Children(r)
      /\ Noted(r, e) \in [Stages -> Seq(Item)]
  BY <1>5, <1>6, TakenForm
<1>8. stage \in [Stages -> StageState] /\ buf \in [Channels -> Seq(Item)]
  BY DEF ProgramInv, ProgramTypeOK
<1>13. [stage[s] EXCEPT !.todo = left] \in StageState
  BY <1>3, <1>4, UpdatedTodo
<1>14. stage' = [stage EXCEPT ![s] = [stage[s] EXCEPT !.todo = left], ![r] = Taken(r, e)]
  BY <1>5, <1>6, <1>8
<1>9. stage' \in [Stages -> StageState] /\ stage'[s] = [stage[s] EXCEPT !.todo = left]
  BY <1>6, <1>7, <1>8, <1>13, <1>14
<1>10. stage'[r] = Taken(r, e) /\ \A t \in Stages : t # s /\ t # r => stage'[t] = stage[t]
  BY <1>5, <1>6, <1>8
<1>11. /\ stage'[s].pc = "run" /\ stage'[s].active = stage[s].active /\ stage'[s].ctrl = stage[s].ctrl
       /\ stage'[s].todo = left
  BY <1>3, <1>4, <1>9, UpdatedTodo
<1>12. \A t \in Stages : \/ stage'[t] = stage[t]
                         \/ /\ stage[t].pc = "run" /\ stage'[t].pc = "run"
                            /\ stage'[t].active = stage[t].active /\ stage'[t].ctrl = stage[t].ctrl
                            /\ \A j \in DOMAIN stage'[t].todo : stage'[t].todo[j][1] \in Children(t)
  BY <1>3, <1>4, <1>7, <1>10, <1>11
<1>. QED
  BY <1>1, <1>5, <1>7, <1>8, <1>9, <1>12, Going

\* Drop preserves the invariant.
LEMMA DropStep ==
  ASSUME ProgramInv, NEW s \in Stages, Drop(s)
  PROVE  ProgramInv'
<1>1. /\ stage' = [stage EXCEPT ![s].todo = <<>>] /\ stage[s].todo # <<>>
      /\ UNCHANGED <<graph, buf, chan, closedCtrl, since, got>>
  BY DEF Drop, CanDrop
<1>2. stage[s] \in StageState /\ stage[s].pc = "run"
  BY <1>1, StageTypes
<1>3. stage \in [Stages -> StageState] /\ buf \in [Channels -> Seq(Item)] /\ got \in [Stages -> Seq(Item)]
  BY DEF ProgramInv, ProgramTypeOK
<1>4. stage' = [stage EXCEPT ![s] = [stage[s] EXCEPT !.todo = <<>>]] /\ <<>> \in Seq(Nat \X Item)
  BY <1>1
<1>5. /\ stage' \in [Stages -> StageState] /\ stage'[s] = [stage[s] EXCEPT !.todo = <<>>]
      /\ \A t \in Stages : t # s => stage'[t] = stage[t]
  BY <1>2, <1>4, UpdatedTodo, Changed
<1>6. /\ stage'[s].pc = "run" /\ stage'[s].active = stage[s].active /\ stage'[s].ctrl = stage[s].ctrl
      /\ stage'[s].todo = <<>>
  BY <1>2, <1>4, <1>5, UpdatedTodo
<1>. QED
  BY <1>1, <1>2, <1>3, <1>5, <1>6, Going

\* Receive preserves the invariant.
LEMMA ReceiveStep ==
  ASSUME ProgramInv, NEW s \in Stages, NEW c \in In(s), Receive(s, c)
  PROVE  ProgramInv'
<1>. DEFINE e == Head(buf[c])
<1>1. /\ Ready(s, c) /\ buf[c] # <<>> /\ buf' = [buf EXCEPT ![c] = Tail(@)]
      /\ stage' = [stage EXCEPT ![s] = Taken(s, e)] /\ got' = Noted(s, e)
      /\ UNCHANGED <<graph, chan, closedCtrl, since>>
  BY DEF Receive, CanReceive
<1>2. c \in Channels
  BY StageTypes, InAndOut
<1>3. stage \in [Stages -> StageState] /\ buf \in [Channels -> Seq(Item)]
  BY DEF ProgramInv, ProgramTypeOK
<1>4. e \in Item /\ buf' \in [Channels -> Seq(Item)]
  BY <1>1, <1>2, <1>3
<1>. HIDE DEF e
<1>5. /\ Taken(s, e) \in StageState /\ Taken(s, e).pc = "run" /\ stage[s].pc = "run"
      /\ Taken(s, e).active = stage[s].active /\ Taken(s, e).ctrl = stage[s].ctrl
      /\ \A i \in DOMAIN Taken(s, e).todo : Taken(s, e).todo[i][1] \in Children(s)
      /\ Noted(s, e) \in [Stages -> Seq(Item)]
  BY <1>1, <1>4, TakenForm
<1>6. stage' \in [Stages -> StageState] /\ stage'[s] = Taken(s, e) /\ \A t \in Stages : t # s => stage'[t] = stage[t]
  BY <1>1, <1>3, <1>5
<1>. QED
  BY <1>1, <1>4, <1>5, <1>6, Going

\* Generate preserves the invariant.
LEMMA GenerateStep ==
  ASSUME ProgramInv, NEW s \in Stages, Generate(s)
  PROVE  ProgramInv'
<1>. DEFINE To1 == graph[s].out[1]
            q == <<To(To1, [gen |-> s, n |-> stage[s].count + 1])>>
<1>1. /\ stage' = [stage EXCEPT ![s].todo = q, ![s].count = @ + 1]
      /\ Kind(s) \in Generators /\ stage[s].pc = "run"
      /\ UNCHANGED <<graph, buf, chan, closedCtrl, since, got>>
  BY DEF Generate, CanGenerate, AtSelect
<1>2. stage[s] \in StageState /\ s \in Nat /\ Wired(graph)
  BY StageTypes
<1>3. To1 \in Children(s)
  <2>1. Kind(s) \notin Terminators \cup {"split", "tee", "copy", "repeater"}
    BY <1>1 DEF Generators, Terminators
  <2>2. Out(s) = {To1}
    BY <1>2, <2>1, Shapes
  <2>. QED
    BY <1>1, <2>1, <2>2, OpenOuts
<1>4. q \in Seq(Nat \X Item) /\ \A i \in DOMAIN q : q[i][1] \in Children(s)
  <2>1. To1 \in Nat
    BY <1>2, <1>3, StageForm DEF Children
  <2>2. stage[s].count + 1 \in Int
    BY <1>2 DEF StageState
  <2>3. To(To1, [gen |-> s, n |-> stage[s].count + 1]) \in Nat \X Item
    BY <1>2, <2>1, <2>2 DEF To, Item
  <2>4. DOMAIN q = {1} /\ q[1][1] = To1
    BY DEF To
  <2>. QED
    BY <1>3, <2>3, <2>4
<1>. HIDE DEF q
<1>5. stage \in [Stages -> StageState] /\ buf \in [Channels -> Seq(Item)] /\ got \in [Stages -> Seq(Item)]
  BY DEF ProgramInv, ProgramTypeOK
<1>. DEFINE x == Counted(stage[s], q)
<1>6. stage' = [stage EXCEPT ![s] = x]
  BY <1>1, <1>5 DEF Counted
<1>7. /\ x \in StageState /\ x.pc = stage[s].pc /\ x.todo = q
      /\ x.active = stage[s].active /\ x.ctrl = stage[s].ctrl
  BY <1>2, <1>4, UpdatedCount
<1>. HIDE DEF x
<1>8. stage' \in [Stages -> StageState] /\ stage'[s] = x /\ \A t \in Stages : t # s => stage'[t] = stage[t]
  BY <1>6, <1>7, Changed
<1>. QED
  BY <1>1, <1>4, <1>5, <1>7, <1>8, Going

\* A step of one stage, and of the channels it writes, preserves the invariant
\* when the stage and these channels are in order afterwards.
LEMMA Moved ==
  ASSUME ProgramInv, NEW s \in Stages, NEW r \in StageState,
         stage' = [stage EXCEPT ![s] = r], UNCHANGED <<graph, buf, got>>,
         chan' \in [Channels -> {"new", "open", "closed"}], closedCtrl' \subseteq Int, since' \in [Channels -> Nat],
         closedCtrl \subseteq closedCtrl',
         \A c \in Channels : chan[c] = "closed" => chan'[c] = "closed",
         \A c \in Channels \ Out(s) : chan'[c] = chan[c],
         StageOK(s)', \A c \in Out(s) : ChannelOK(c)'
  PROVE  ProgramInv'
<1>1. Stages' = Stages /\ Channels' = Channels /\ Wired(graph)
  BY GraphStays, GraphIsWired DEF ProgramInv
<1>2. stage' \in [Stages -> StageState] /\ \A t \in Stages : t # s => stage'[t] = stage[t]
  BY Changed
<1>3. ProgramTypeOK'
  BY <1>1, <1>2 DEF ProgramInv, ProgramTypeOK
<1>4. ASSUME NEW t \in Stages PROVE StageOK(t)'
  <2>1. CASE t = s
    BY <2>1
  <2>2. CASE t # s
    <3>1. \A c \in Out(t) : c \in Channels /\ c \notin Out(s)
      BY <1>1, <2>2, InAndOut
    <3>. QED
      BY <1>2, <2>2, <3>1, OtherStage
  <2>. QED
    BY <2>1, <2>2
<1>5. ASSUME NEW c \in Channels PROVE ChannelOK(c)'
  <2>1. CASE c \in Out(s)
    BY <2>1
  <2>2. CASE c \notin Out(s)
    <3>1. Producer(c) \in Stages /\ Producer(c) # s
      BY <1>1, <2>2, Ends
    <3>. QED
      BY <1>2, <2>2, <3>1, OtherChannel
  <2>. QED
    BY <2>1, <2>2
<1>. QED
  BY <1>1, <1>3, <1>4, <1>5 DEF ProgramInv

\* What is known of a stage and of the channels around it.
LEMMA Around ==
  ASSUME ProgramInv, NEW s \in Stages
  PROVE  /\ In(s) \cap Out(s) = {} /\ In(s) \subseteq Channels /\ Out(s) \subseteq Channels
         /\ \A c \in Out(s) : Producer(c) = s
         /\ \A c \in Out(s) : ChannelOK(c)
         /\ StageOK(s) /\ closedCtrl \subseteq Int /\ since \in [Channels -> Nat]
         /\ chan \in [Channels -> {"new", "open", "closed"}]
<1>1. Wired(graph)
  BY StageTypes
<1>2. In(s) \subseteq Channels /\ Out(s) \subseteq Channels /\ \A c \in Out(s) : Producer(c) = s
  BY <1>1, InAndOut
<1>3. \A c \in In(s) : Producer(c) < s /\ s \in Nat
  BY <1>1, <1>2, InAndOut, Ends
<1>4. In(s) \cap Out(s) = {}
  BY <1>2, <1>3
<1>. QED
  BY <1>2, <1>4 DEF ProgramInv, ProgramTypeOK

\* What is read off the graph around a stage does not change.
LEMMA NamesStay ==
  ASSUME ProgramInv, UNCHANGED graph, NEW s \in Stages
  PROVE  /\ In(s)' = In(s) /\ Out(s)' = Out(s) /\ Kind(s)' = Kind(s) /\ graph'[s].n = graph[s].n
         /\ \A c : CtrlOf(c)' = CtrlOf(c)
         /\ \A c \in Out(s) : Producer(c)' = s /\ Kind(Producer(c))' = Kind(s)
<1>1. \A c : Producer(c)' = Producer(c)
  BY GraphStays
<1>2. \A c \in Out(s) : Producer(c) = s
  BY Around
<1>. QED
  BY <1>1, <1>2, GraphStays DEF Kind

\* A stage that returns, its inputs closed or its limit reached, preserves the
\* invariant.
LEMMA ReturnStep ==
  ASSUME ProgramInv, NEW s \in Stages, Return(s, Out(s)), UNCHANGED <<graph, buf, closedCtrl, since, got>>,
         stage[s].pc = "run", Kind(s) \notin Mergers \cup {"repeater"},
         Kind(s) \in Operators \cup Terminators /\ ~AtLimit(s) => \A c \in In(s) : chan[c] = "closed"
  PROVE  ProgramInv'
<1>. DEFINE x == [stage[s] EXCEPT !.pc = "done", !.todo = <<>>]
<1>1. stage' = [stage EXCEPT ![s] = x] /\ chan' = [c \in Channels |-> IF c \in Out(s) THEN "closed" ELSE chan[c]]
  BY DEF Return
<1>2. <<>> \in Todos
  BY DEF Todos
<1>3. stage[s] \in StageState
  BY StageTypes
<1>4. /\ x \in StageState /\ x.pc = "done" /\ x.todo = <<>> /\ x.active = stage[s].active /\ x.ctrl = stage[s].ctrl
      /\ x.count = stage[s].count
  BY <1>2, <1>3 DEF StageState
<1>. HIDE DEF x
<1>5. stage'[s] = x
  BY <1>1, <1>4, Changed
<1>6. chan' \in [Channels -> {"new", "open", "closed"}]
  BY <1>1, Around
<1>7. StageOK(s)'
  <2>1. \A c \in In(s) : chan'[c] = chan[c]
    BY <1>1, Around
  <2>2. SendsToOpen(s)'
    BY <1>4, <1>5 DEF SendsToOpen
  <2>3. ReadsOpen(s)'
    BY <1>4, <1>5, <2>1, Around, NamesStay DEF ReadsOpen, StageOK
  <2>4. ReturnsAtEnd(s)'
    BY <1>4, <1>5, <2>1, NamesStay DEF ReturnsAtEnd, AtLimit
  <2>5. TellsInputs(s)'
    BY <1>4, <1>5, Around, NamesStay DEF TellsInputs, StageOK
  <2>. QED
    BY <2>2, <2>3, <2>4, <2>5 DEF StageOK
<1>8. \A c \in Out(s) : ChannelOK(c)'
  BY <1>1, <1>4, <1>5, Around, NamesStay DEF ChannelOK
<1>9. closedCtrl' \subseteq Int /\ since' \in [Channels -> Nat]
  BY Around
<1>. QED
  BY <1>1, <1>4, <1>6, <1>7, <1>8, <1>9, Around, Moved

\* Stop, StopSource, End and ReachLimit preserve the invariant.
LEMMA EndSteps ==
  ASSUME ProgramInv, NEW s \in Stages, Stop(s) \/ StopSource(s) \/ End(s) \/ ReachLimit(s)
  PROVE  ProgramInv'
<1>1. Return(s, Out(s)) /\ UNCHANGED <<graph, buf, closedCtrl, since, got>>
  BY DEF Stop, StopSource, End, ReachLimit
<1>2. stage[s].pc = "run" /\ Kind(s) \notin Mergers \cup {"repeater"}
  BY DEF Stop, CanStop, StopSource, CanStopSource, End, CanEnd, ReachLimit, CanReachLimit, Ready, AtSelect,
         Generators, Sources, Operators, Terminators, Mergers
<1>3. ASSUME Kind(s) \in Operators \cup Terminators, ~AtLimit(s) PROVE \A c \in In(s) : chan[c] = "closed"
  <2>1. Kind(s) \notin Generators \cup Sources
    BY <1>3 DEF Generators, Sources, Operators, Terminators
  <2>2. \E c \in In(s) : chan[c] = "closed"
    BY <1>3, <2>1 DEF Stop, CanStop, StopSource, CanStopSource, End, CanEnd, ReachLimit, CanReachLimit, AtLimit,
                      Generators
  <2>3. \E c : In(s) = {c}
    BY <1>3, StageTypes, Shapes DEF Single
  <2>. QED
    BY <2>2, <2>3
<1>. QED
  BY <1>1, <1>2, <1>3, ReturnStep

\* LeaveLoop preserves the invariant.
LEMMA LeaveLoopStep ==
  ASSUME ProgramInv, NEW s \in Stages, LeaveLoop(s)
  PROVE  ProgramInv'
<1>. DEFINE x == [stage[s] EXCEPT !.pc = "done", !.todo = <<>>]
<1>1. /\ stage' = [stage EXCEPT ![s] = x] /\ UNCHANGED <<graph, buf, closedCtrl, since, got>>
      /\ Kind(s) = "repeater" /\ stage[s].active = {} /\ Children(s) = {}
      /\ chan' = [c \in Channels |-> chan[c]]
  BY DEF LeaveLoop, CanLeaveLoop, Return
<1>2. <<>> \in Todos
  BY DEF Todos
<1>3. stage[s] \in StageState
  BY StageTypes
<1>4. /\ x \in StageState /\ x.pc = "done" /\ x.todo = <<>> /\ x.active = {} /\ x.ctrl = stage[s].ctrl
  BY <1>1, <1>2, <1>3 DEF StageState
<1>. HIDE DEF x
<1>5. stage'[s] = x
  BY <1>1, <1>4, Changed
<1>6. chan' = chan
  BY <1>1, Around
<1>7. StageOK(s)'
  <2>2. SendsToOpen(s)'
    BY <1>4, <1>5 DEF SendsToOpen
  <2>3. ReadsOpen(s)'
    BY <1>1, <1>4, <1>5, <1>6, Around, NamesStay DEF ReadsOpen, StageOK
  <2>4. ReturnsAtEnd(s)'
    BY <1>1, <1>4, <1>5, NamesStay DEF ReturnsAtEnd, Operators, Terminators
  <2>5. TellsInputs(s)'
    BY <1>1, <1>4, <1>5, Around, NamesStay DEF TellsInputs, StageOK
  <2>. QED
    BY <2>2, <2>3, <2>4, <2>5 DEF StageOK
<1>8. \A c \in Out(s) : ChannelOK(c)'
  BY <1>1, <1>6, Around, NamesStay DEF ChannelOK, Children
<1>9. closedCtrl' \subseteq Int /\ since' \in [Channels -> Nat] /\ chan' \in [Channels -> {"new", "open", "closed"}]
  BY <1>1, <1>6, Around
<1>. QED
  BY <1>1, <1>4, <1>6, <1>7, <1>8, <1>9, Around, Moved

\* DropInput preserves the invariant.
LEMMA DropInputStep ==
  ASSUME ProgramInv, NEW s \in Stages, NEW c \in In(s), DropInput(s, c)
  PROVE  ProgramInv'
<1>. DEFINE left == stage[s].active \ {c}
            end  == left = {} /\ (Kind(s) = "join" \/ ~stage[s].ctrl)
            x == [stage[s] EXCEPT !.active = left, !.pc = IF end THEN "done" ELSE @]
<1>1. /\ stage' = [stage EXCEPT ![s] = x] /\ UNCHANGED <<graph, buf, closedCtrl, since, got>>
      /\ Kind(s) \in Mergers /\ chan[c] = "closed" /\ stage[s].pc = "run" /\ stage[s].todo = <<>>
      /\ chan' = [d \in Channels |-> IF end /\ d \in Out(s) THEN "closed" ELSE chan[d]]
  BY DEF DropInput, CanDropInput, Ready, AtSelect
<1>3. stage[s] \in StageState
  BY StageTypes
<1>. HIDE DEF end
<1>4. /\ x \in StageState /\ x.pc = (IF end THEN "done" ELSE "run") /\ x.todo = <<>> /\ x.active = left
      /\ x.ctrl = stage[s].ctrl
  BY <1>1, <1>3 DEF StageState
<1>. HIDE DEF x
<1>5. stage'[s] = x
  BY <1>1, <1>4, Changed
<1>6. chan' \in [Channels -> {"new", "open", "closed"}] /\ \A d \in In(s) : chan'[d] = chan[d]
  BY <1>1, Around
<1>7. StageOK(s)'
  <2>2. SendsToOpen(s)'
    BY <1>4, <1>5 DEF SendsToOpen
  <2>3. ReadsOpen(s)'
    BY <1>1, <1>4, <1>5, <1>6, Around, NamesStay DEF ReadsOpen, StageOK
  <2>4. ReturnsAtEnd(s)'
    BY <1>1, <1>4, <1>5, NamesStay DEF ReturnsAtEnd, Operators, Terminators, Mergers, end
  <2>5. TellsInputs(s)'
    BY <1>1, <1>4, <1>5, Around, NamesStay DEF TellsInputs, StageOK
  <2>. QED
    BY <2>2, <2>3, <2>4, <2>5 DEF StageOK
<1>8. \A d \in Out(s) : ChannelOK(d)'
  BY <1>1, <1>4, <1>5, Around, NamesStay DEF ChannelOK
<1>9. closedCtrl' \subseteq Int /\ since' \in [Channels -> Nat]
  BY <1>1, Around
<1>. QED
  BY <1>1, <1>4, <1>6, <1>7, <1>8, <1>9, Around, Moved

\* RelayStop preserves the invariant.
LEMMA RelayStopStep ==
  ASSUME ProgramInv, NEW s \in Stages, RelayStop(s)
  PROVE  ProgramInv'
<1>. DEFINE end == Kind(s) = "joiner" /\ stage[s].active = {}
            told == ToldInputs(s)
            x == [stage[s] EXCEPT !.ctrl = FALSE, !.pc = IF end THEN "done" ELSE @]
<1>1. /\ stage' = [stage EXCEPT ![s] = x] /\ UNCHANGED <<graph, buf, since, got>>
      /\ Kind(s) \in Mergers /\ stage[s].pc = "run" /\ stage[s].todo = <<>>
      /\ closedCtrl' = closedCtrl \cup {CtrlOf(c) : c \in told}
      /\ chan' = [d \in Channels |-> IF end /\ d \in Out(s) THEN "closed" ELSE chan[d]]
  BY DEF RelayStop, CanRelayStop, AtSelect, CloseInputs, Ctrls
<1>3. stage[s] \in StageState
  BY StageTypes
<1>. HIDE DEF end
<1>4. /\ x \in StageState /\ x.pc = (IF end THEN "done" ELSE "run") /\ x.todo = <<>>
      /\ x.active = stage[s].active /\ x.ctrl = FALSE
  BY <1>1, <1>3 DEF StageState
<1>. HIDE DEF x
<1>5. stage'[s] = x
  BY <1>1, <1>4, Changed
<1>6. chan' \in [Channels -> {"new", "open", "closed"}] /\ \A d \in In(s) : chan'[d] = chan[d]
  BY <1>1, Around
<1>10. stage[s].active \subseteq told /\ told \subseteq Channels
  BY Around DEF StageOK, ReadsOpen, ToldInputs
<1>. HIDE DEF told
<1>7. StageOK(s)'
  <2>2. SendsToOpen(s)'
    BY <1>4, <1>5 DEF SendsToOpen
  <2>3. ReadsOpen(s)'
    BY <1>1, <1>4, <1>5, <1>6, Around, NamesStay DEF ReadsOpen, StageOK
  <2>4. ReturnsAtEnd(s)'
    BY <1>1, <1>4, <1>5, Around, NamesStay DEF StageOK, ReturnsAtEnd, Operators, Terminators, Mergers, end
  <2>5. TellsInputs(s)'
    BY <1>1, <1>4, <1>5, <1>10, NamesStay DEF TellsInputs
  <2>. QED
    BY <2>2, <2>3, <2>4, <2>5 DEF StageOK
<1>8. \A d \in Out(s) : ChannelOK(d)'
  BY <1>1, <1>4, <1>5, Around, NamesStay DEF ChannelOK
<1>9. closedCtrl' \subseteq Int /\ since' \in [Channels -> Nat]
  <2>1. Wired(graph)
    BY StageTypes
  <2>2. \A c \in told : CtrlOf(c) \in Int
    BY <1>10, <2>1, CtrlChannel, Ends
  <2>. QED
    BY <1>1, <2>2, Around
<1>11. \A c \in Channels : chan[c] = "closed" => chan'[c] = "closed"
  BY <1>1
<1>12. \A c \in Channels \ Out(s) : chan'[c] = chan[c]
  BY <1>1
<1>. QED
  BY <1>1, <1>4, <1>6, <1>7, <1>8, <1>9, <1>11, <1>12, Moved

\* A repeater is told to stop, or its input ends.
LEMMA RepeaterSteps ==
  ASSUME ProgramInv, NEW s \in Stages, CloseRepeater(s) \/ EndChildren(s)
  PROVE  ProgramInv'
<1>. DEFINE x == IF CloseRepeater(s) THEN [stage[s] EXCEPT !.ctrl = FALSE] ELSE [stage[s] EXCEPT !.active = {}]
<1>1. /\ stage' = [stage EXCEPT ![s] = x] /\ UNCHANGED <<graph, buf, since, got>>
      /\ Kind(s) = "repeater" /\ stage[s].pc = "run" /\ stage[s].todo = <<>>
  BY DEF CloseRepeater, CanCloseRepeater, EndChildren, CanEndChildren, Ready, AtSelect
<1>2. /\ CloseRepeater(s) => chan' = chan /\ closedCtrl' = closedCtrl \cup {CtrlOf(graph[s].in[1])}
      /\ ~CloseRepeater(s) => /\ \E c \in In(s) : chan[c] = "closed"
                              /\ chan' = [c \in Channels |-> IF c \in Children(s) THEN "closed" ELSE chan[c]]
                              /\ closedCtrl' = closedCtrl
  <2>1. Ctrls(In(s)) = {CtrlOf(graph[s].in[1])}
    BY <1>1, StageTypes, Shapes DEF Single, Ctrls
  <2>. QED
    BY <2>1 DEF CloseRepeater, EndChildren, CanEndChildren, CloseInputs
<1>3. stage[s] \in StageState /\ In(s) = {graph[s].in[1]}
  BY <1>1, StageTypes, Shapes DEF Single
<1>4. /\ x \in StageState /\ x.pc = "run" /\ x.todo = <<>>
      /\ x.active = (IF CloseRepeater(s) THEN stage[s].active ELSE {})
      /\ x.ctrl = (IF CloseRepeater(s) THEN FALSE ELSE stage[s].ctrl)
  BY <1>1, <1>3 DEF StageState
<1>. HIDE DEF x
<1>5. stage'[s] = x
  BY <1>1, <1>4, Changed
<1>6. /\ chan' \in [Channels -> {"new", "open", "closed"}] /\ \A d \in In(s) : chan'[d] = chan[d]
      /\ \A c \in Channels \ Out(s) : chan'[c] = chan[c]
      /\ \A c \in Channels : chan[c] = "closed" => chan'[c] = "closed"
      /\ \A c \in Channels : chan[c] = "new" => chan'[c] = "new"
      /\ \A c \in Channels : chan'[c] = "open" => chan[c] = "open"
  BY <1>2, Around DEF Children
<1>7. StageOK(s)'
  <2>1. StageOK(s)
    BY Around
  <2>2. SendsToOpen(s)'
    BY <1>4, <1>5 DEF SendsToOpen
  <2>3. ReadsOpen(s)'
    BY <1>1, <1>2, <1>3, <1>4, <1>5, <1>6, <2>1, NamesStay DEF ReadsOpen, StageOK
  <2>4. ReturnsAtEnd(s)'
    BY <1>1, <1>4, <1>5, NamesStay DEF ReturnsAtEnd, Mergers
  <2>5. TellsInputs(s)'
    BY <1>1, <1>2, <1>3, <1>4, <1>5, <2>1, NamesStay DEF TellsInputs, ReadsOpen, StageOK
  <2>. QED
    BY <2>2, <2>3, <2>4, <2>5 DEF StageOK
<1>8. \A c \in Out(s) : ChannelOK(c)'
  BY <1>1, <1>4, <1>5, Around, NamesStay DEF ChannelOK
<1>9. closedCtrl \subseteq closedCtrl' /\ closedCtrl' \subseteq Int /\ since' \in [Channels -> Nat]
  <2>1. CtrlOf(graph[s].in[1]) \in Int
    BY <1>3, StageTypes, InAndOut, CtrlChannel, Ends
  <2>. QED
    BY <1>1, <1>2, <2>1, Around
<1>. QED
  BY <1>1, <1>4, <1>6, <1>7, <1>8, <1>9, Moved

\* A child is added or removed.
LEMMA ChildSteps ==
  ASSUME ProgramInv, NEW s \in Stages, NEW c \in Out(s), AddChild(s, c) \/ RemoveChild(s, c)
  PROVE  ProgramInv'
<1>. DEFINE new == IF AddChild(s, c) THEN "open" ELSE "closed"
<1>1. /\ chan' = [chan EXCEPT ![c] = new] /\ UNCHANGED <<graph, stage, buf, closedCtrl, got>>
      /\ Kind(s) = "repeater" /\ stage[s].pc = "run" /\ stage[s].todo = <<>>
      /\ chan[c] = (IF AddChild(s, c) THEN "new" ELSE "open")
      /\ since' = since \/ since' = [since EXCEPT ![c] = stage[s].count]
  BY DEF AddChild, RemoveChild, CanRemoveChild, AtSelect
<1>. HIDE DEF new
<1>2. stage[s] \in StageState /\ stage \in [Stages -> StageState]
  BY StageTypes DEF ProgramInv, ProgramTypeOK
<1>3. stage' = [stage EXCEPT ![s] = stage[s]]
  BY <1>1, <1>2
<1>4. new \in {"open", "closed"}
  BY DEF new
<1>5. /\ chan' \in [Channels -> {"new", "open", "closed"}] /\ \A d \in In(s) : chan'[d] = chan[d]
      /\ \A d \in Channels \ Out(s) : chan'[d] = chan[d]
      /\ \A d \in Channels : chan[d] = "closed" => chan'[d] = "closed"
  BY <1>1, <1>4, Around
<1>6. since' \in [Channels -> Nat]
  BY <1>1, <1>2, Around DEF StageState
<1>7. StageOK(s)'
  <2>1. StageOK(s)
    BY Around
  <2>2. SendsToOpen(s)'
    BY <1>1 DEF SendsToOpen
  <2>3. ReadsOpen(s)'
    BY <1>1, <1>5, <2>1, NamesStay DEF ReadsOpen, StageOK
  <2>4. ReturnsAtEnd(s)'
    BY <1>1, NamesStay DEF ReturnsAtEnd, Mergers
  <2>5. TellsInputs(s)'
    BY <1>1, <2>1, NamesStay DEF TellsInputs, StageOK
  <2>. QED
    BY <2>2, <2>3, <2>4, <2>5 DEF StageOK
<1>8. \A d \in Out(s) : ChannelOK(d)'
  BY <1>1, Around, NamesStay DEF ChannelOK
<1>. QED
  BY <1>1, <1>2, <1>3, <1>5, <1>6, <1>7, <1>8, Around, Moved

\* A valve is turned, or a subscriber leaves.
LEMMA TurnStep ==
  ASSUME ProgramInv, NEW s \in Stages, NEW on \in BOOLEAN, Turn(s, on)
  PROVE  ProgramInv'
<1>. DEFINE x == [stage[s] EXCEPT !.on = on]
<1>1. /\ stage' = [stage EXCEPT ![s] = x] /\ stage[s].pc = "run" /\ stage[s].todo = <<>>
      /\ UNCHANGED <<graph, buf, chan, closedCtrl, since, got>>
  BY DEF Turn, AtSelect
<1>2. stage[s] \in StageState
  BY StageTypes
<1>3. x \in StageState /\ x.pc = "run" /\ x.todo = <<>> /\ x.active = stage[s].active /\ x.ctrl = stage[s].ctrl
  BY <1>1, <1>2 DEF StageState
<1>. HIDE DEF x
<1>4. stage' \in [Stages -> StageState] /\ stage'[s] = x /\ \A t \in Stages : t # s => stage'[t] = stage[t]
  BY <1>1, <1>3, Changed
<1>5. buf \in [Channels -> Seq(Item)] /\ got \in [Stages -> Seq(Item)]
  BY DEF ProgramInv, ProgramTypeOK
<1>. QED
  BY <1>1, <1>3, <1>4, <1>5, Going

\* A subscriber that leaves preserves the invariant.
LEMMA LeaveStep ==
  ASSUME ProgramInv, NEW s \in Stages, Leave(s)
  PROVE  ProgramInv'
<1>. DEFINE x == [stage[s] EXCEPT !.pc = "left"]
<1>1. /\ stage' = [stage EXCEPT ![s] = x] /\ Kind(s) = "subscriber" /\ stage[s].todo = <<>>
      /\ UNCHANGED <<graph, buf, chan, closedCtrl, since, got>>
  BY DEF Leave, AtSelect
<1>2. stage[s] \in StageState /\ Wired(graph)
  BY StageTypes
<1>3. x \in StageState /\ x.pc = "left" /\ x.todo = <<>> /\ x.active = stage[s].active /\ x.ctrl = stage[s].ctrl
  BY <1>1, <1>2 DEF StageState
<1>. HIDE DEF x
<1>4. stage'[s] = x
  BY <1>1, <1>3, Changed
<1>5. Out(s) = {}
  BY <1>1, <1>2, Shapes DEF Terminators
<1>6. StageOK(s)'
  <2>1. StageOK(s)
    BY Around
  <2>2. SendsToOpen(s)'
    BY <1>3, <1>4 DEF SendsToOpen
  <2>3. ReadsOpen(s)'
    BY <1>1, <1>3, <1>4, <2>1, NamesStay DEF ReadsOpen, StageOK
  <2>4. ReturnsAtEnd(s)'
    BY <1>1, <1>3, <1>4, NamesStay DEF ReturnsAtEnd
  <2>5. TellsInputs(s)'
    BY <1>1, <1>3, <1>4, <2>1, NamesStay DEF TellsInputs, StageOK
  <2>. QED
    BY <2>2, <2>3, <2>4, <2>5 DEF StageOK
<1>. QED
  BY <1>1, <1>3, <1>5, <1>6, Around, Moved

\* Somebody closes a control channel.
LEMMA ClosableIs ==
  ASSUME Wired(graph)
  PROVE  /\ \A k \in Closable : k \in Channels \/ \E s \in Stages : Kind(s) = "repeater" /\ k = RepeaterCtrl(s)
         /\ Closable \subseteq Int
<1>1. ASSUME NEW s \in Stages, Kind(s) \in Terminators PROVE CtrlOf(graph[s].in[1]) \in Channels
  <2>1. In(s) = {graph[s].in[1]}
    BY <1>1, Shapes DEF Single
  <2>. QED
    BY <1>1, <2>1, InAndOut, CtrlChannel
<1>2. \A c \in Channels : c \in Int
  BY Ends
<1>3. \A s \in Stages : RepeaterCtrl(s) \in Int
  BY StageForm DEF RepeaterCtrl
<1>. QED
  BY <1>1, <1>2, <1>3 DEF Closable

\* CloseCtrl preserves the invariant: it only adds to what is closed.
LEMMA CloseCtrlStep ==
  ASSUME ProgramInv, NEW k \in Closable, CloseCtrl(k)
  PROVE  ProgramInv'
<1>1. closedCtrl' = closedCtrl \cup {k} /\ UNCHANGED <<graph, stage, buf, chan, since, got>>
  BY DEF CloseCtrl
<1>2. Stages' = Stages /\ Channels' = Channels /\ Wired(graph)
  BY <1>1, GraphStays, GraphIsWired DEF ProgramInv
<1>3. ProgramTypeOK'
  BY <1>1, <1>2, ClosableIs DEF ProgramInv, ProgramTypeOK
<1>4. ASSUME NEW s \in Stages PROVE StageOK(s)'
  BY <1>1, OtherStage
<1>5. ASSUME NEW c \in Channels PROVE ChannelOK(c)'
  BY <1>1, OtherChannel
<1>. QED
  BY <1>2, <1>3, <1>4, <1>5 DEF ProgramInv

\* A program starts in the invariant.
LEMMA ProgramInvInit == ProgramInit => ProgramInv
<1>. SUFFICES ASSUME ProgramInit PROVE ProgramInv
  OBVIOUS
<1>1. Wired(graph) /\ graph \in Graphs
  BY ProgramsAreWired DEF ProgramInit
<1>2. <<>> \in Todos /\ <<>> \in Seq(Item)
  BY DEF Todos
<1>3. ASSUME NEW s \in Stages
      PROVE  /\ stage[s] \in StageState /\ stage[s].pc = "run" /\ stage[s].todo = <<>> /\ stage[s].active = In(s)
             /\ stage[s].ctrl
  <2>1. In(s) \subseteq Nat
    BY <1>1, StageForm
  <2>. QED
    BY <1>2, <2>1 DEF ProgramInit, StageState
<1>4. ProgramTypeOK
  <2>1. stage \in [Stages -> StageState]
    BY <1>3 DEF ProgramInit
  <2>. QED
    BY <1>1, <1>2, <2>1 DEF ProgramInit, ProgramTypeOK
<1>5. ASSUME NEW s \in Stages PROVE StageOK(s)
  <2>1. SendsToOpen(s) /\ ReadsOpen(s) /\ TellsInputs(s)
    BY <1>3 DEF SendsToOpen, ReadsOpen, TellsInputs
  <2>2. Kind(s) \in Mergers /\ In(s) = {} => Kind(s) = "joiner"
    BY <1>1, Shapes DEF Mergers
  <2>3. ReturnsAtEnd(s)
    BY <1>3, <2>2 DEF ReturnsAtEnd
  <2>. QED
    BY <2>1, <2>3 DEF StageOK
<1>6. ASSUME NEW c \in Channels PROVE ChannelOK(c)
  <2>1. Producer(c) \in Stages /\ chan[c] = IF Kind(Producer(c)) = "repeater" THEN "new" ELSE "open"
    BY <1>1, Ends DEF ProgramInit
  <2>. QED
    BY <1>3, <2>1 DEF ChannelOK
<1>. QED
  BY <1>4, <1>5, <1>6 DEF ProgramInv

\* Every step of a program preserves the invariant.
LEMMA ProgramInvStep == ProgramInv /\ [Step]_programVars => ProgramInv'
<1>. SUFFICES ASSUME ProgramInv, [Step]_programVars PROVE ProgramInv'
  OBVIOUS
<1>1. ASSUME NEW s \in Stages, StageStep(s) PROVE ProgramInv'
  <2>1. ASSUME NEW c \in In(s), Receive(s, c) \/ DropInput(s, c) PROVE ProgramInv'
    BY <2>1, ReceiveStep, DropInputStep
  <2>2. ASSUME NEW c \in Out(s), RemoveChild(s, c) PROVE ProgramInv'
    BY <2>2, ChildSteps
  <2>3. CASE Send(s) \/ HandOver(s) \/ Drop(s) \/ Generate(s)
    BY <2>3, SendStep, HandOverStep, DropStep, GenerateStep
  <2>4. CASE Stop(s) \/ StopSource(s) \/ End(s) \/ ReachLimit(s)
    BY <2>4, EndSteps
  <2>5. CASE RelayStop(s) \/ CloseRepeater(s) \/ EndChildren(s) \/ LeaveLoop(s)
    BY <2>5, RelayStopStep, RepeaterSteps, LeaveLoopStep
  <2>. QED
    BY <1>1, <2>1, <2>2, <2>3, <2>4, <2>5 DEF StageStep, GoOn
<1>2. ASSUME OwnerStep PROVE ProgramInv'
  <2>1. ASSUME NEW s \in Stages, NEW on \in BOOLEAN, Turn(s, on) PROVE ProgramInv'
    BY <2>1, TurnStep
  <2>2. ASSUME NEW s \in Stages, NEW c \in Out(s), AddChild(s, c) PROVE ProgramInv'
    BY <2>2, ChildSteps
  <2>3. ASSUME NEW k \in Closable, CloseCtrl(k) PROVE ProgramInv'
    BY <2>3, CloseCtrlStep
  <2>4. ASSUME NEW s \in Stages, Leave(s) PROVE ProgramInv'
    BY <2>4, LeaveStep
  <2>. QED
    BY <1>2, <2>1, <2>2, <2>3, <2>4 DEF OwnerStep
<1>3. CASE UNCHANGED programVars
  <2>1. stage \in [Stages -> StageState] /\ buf \in [Channels -> Seq(Item)] /\ got \in [Stages -> Seq(Item)]
    BY DEF ProgramInv, ProgramTypeOK
  <2>. QED
    BY <1>3, <2>1, Going DEF programVars
<1>. QED
  BY <1>1, <1>2, <1>3 DEF Step

\* What a program does besides panicking is a step of its stages or its owners.
LEMMA ProgramSteps == [ProgramNext]_allVars => [Step]_programVars
BY DEF ProgramNext, Panic, allVars

\* Every state of every program satisfies the inductive invariant: what is to be
\* sent goes to open streams (so that no goroutine sends to a closed channel),
\* inputs are read until they are closed, a stage returns at the end of its
\* inputs or at its limit, and one that was told to stop has told its inputs.
THEOREM ProgramInvariance == ProgramSpec => []ProgramInv
BY ProgramInvInit, ProgramInvStep, ProgramSteps, PTL DEF ProgramSpec

-----------------------------------------------------------------------------
(* Programs that can not go on. *)

Waits(s) == stage[s].todo # <<>>

\* What the invariant says of a stage and of a channel.
LEMMA ProgramFacts ==
  ASSUME ProgramInv, NEW s \in Stages
  PROVE  /\ Wired(graph) /\ s \in Nat /\ Kind(s) \in Kinds
         /\ stage[s].pc \in {"run", "done", "left"} /\ stage[s].count \in Nat /\ graph[s].n \in Nat
         /\ SendsToOpen(s) /\ ReadsOpen(s) /\ ReturnsAtEnd(s) /\ TellsInputs(s)
         /\ stage[s].todo # <<>> => stage[s].pc = "run" /\ 1 \in DOMAIN stage[s].todo
         /\ s \in Downstream(s) /\ Downstream(s) \subseteq Stages
<1>1. stage[s] \in StageState /\ Wired(graph) /\ stage[s].todo \in Seq(Nat \X Item) /\ StageOK(s)
  BY StageTypes DEF ProgramInv
<1>2. stage[s].pc \in {"run", "done", "left"} /\ stage[s].count \in Nat
  BY <1>1 DEF StageState
<1>3. stage[s].todo # <<>> => 1 \in DOMAIN stage[s].todo
  BY <1>1
<1>4. s \in Downstream(s) /\ Downstream(s) \subseteq Stages
  BY <1>1, DownstreamIs, DownstreamIsClosed
<1>. QED
  BY <1>1, <1>2, <1>3, <1>4, StageForm DEF StageOK, SendsToOpen

\* What the invariant says of a channel and of its two ends.
LEMMA ChannelFacts ==
  ASSUME ProgramInv, NEW c \in Channels
  PROVE  /\ chan[c] \in {"new", "open", "closed"} /\ buf[c] \in Seq(Item) /\ Capacity(c) \in Nat
         /\ ChannelOK(c)
         /\ Producer(c) \in Stages /\ Reader(c) \in Stages /\ c \in In(Reader(c)) /\ c \in Out(Producer(c))
         /\ Producer(c) < Reader(c) /\ Kind(Reader(c)) \notin Generators
         /\ Kind(Reader(c)) \in Sources => Kind(Producer(c)) \in Generators
<1>1. Wired(graph)
  BY GraphIsWired DEF ProgramInv
<1>2. Kind(Reader(c)) \notin Generators
  BY <1>1, Ends, Shapes
<1>3. graph[Producer(c)].n \in Nat /\ BufferCap \in Nat
  BY <1>1, Ends, StageForm, BufferCapIsPositive
<1>4. Capacity(c) \in {graph[Producer(c)].n, 0, BufferCap}
  BY DEF Capacity
<1>. QED
  BY <1>1, <1>2, <1>3, <1>4, Ends DEF ProgramInv, ProgramTypeOK

\* A stage that can not send waits for one that does not read its channel.
LEMMA NotReady ==
  ASSUME ProgramInv, Quiescent, NEW s \in Stages, NEW i \in Next1(s), NEW c, c = stage[s].todo[i][1]
  PROVE  c \in Channels /\ Producer(c) = s /\ chan[c] = "open" /\ ~Ready(Reader(c), c)
<1>1. i \in DOMAIN stage[s].todo
  BY DEF Next1
<1>2. c \in Channels /\ Producer(c) = s /\ chan[c] = "open"
  BY <1>1, StageTypes
<1>3. ~CanSend(s, i) /\ ~CanHandOver(s, i)
  BY DEF Quiescent
<1>4. CASE Capacity(c) = 0
  BY <1>2, <1>3, <1>4 DEF CanHandOver
<1>5. CASE Capacity(c) > 0
  <2>1. ~(Len(buf[c]) < Capacity(c))
    BY <1>3, <1>5 DEF CanSend
  <2>2. buf[c] # <<>>
    BY <1>2, <1>5, <2>1, ChannelFacts
  <2>3. ~CanReceive(Reader(c), c)
    BY <1>2, ChannelFacts DEF Quiescent
  <2>. QED
    BY <1>2, <2>2, <2>3 DEF CanReceive
<1>. QED
  BY <1>2, <1>4, <1>5, ChannelFacts

\* The stage that reads an open channel is there to read it, or deaf.
LEMMA ReadsOrDeaf ==
  ASSUME ProgramInv, NEW c \in Channels, chan[c] = "open", Kind(Reader(c)) \notin Sources, Reader(c) \notin Deaf
  PROVE  stage[Reader(c)].pc = "run" /\ c \in stage[Reader(c)].active
<1>. DEFINE r == Reader(c)
<1>1. /\ r \in Stages /\ c \in In(r) /\ Kind(r) \in Kinds \ (Generators \cup Sources)
      /\ stage[r].pc \in {"run", "done", "left"} /\ ReadsOpen(r) /\ ReturnsAtEnd(r)
      /\ graph[r].n \in Nat /\ stage[r].count \in Nat
  BY ChannelFacts, ProgramFacts
<1>. HIDE DEF r
<1>2. c \in stage[r].active
  BY <1>1 DEF ReadsOpen
<1>3. stage[r].pc # "left"
  BY <1>1 DEF Deaf, r
<1>4. ASSUME stage[r].pc = "done" PROVE FALSE
  <2>1. Kind(r) \notin Mergers \cup {"repeater"}
    BY <1>1, <1>2, <1>4 DEF ReturnsAtEnd
  <2>2. Kind(r) \in Operators \cup Terminators
    BY <1>1, <2>1 DEF Kinds
  <2>3. AtLimit(r)
    BY <1>1, <1>4, <2>2 DEF ReturnsAtEnd
  <2>. QED
    BY <1>1, <1>4, <2>3 DEF AtLimit, Deaf, r
<1>. QED
  BY <1>1, <1>2, <1>3, <1>4 DEF r

\* ... so a stage that can not send waits for one that is deaf or waits, too.
LEMMA WaitsForWaiting ==
  ASSUME ProgramInv, Quiescent, NEW s \in Stages, NEW i \in Next1(s), NEW c, c = stage[s].todo[i][1],
         Kind(Reader(c)) \notin Sources
  PROVE  /\ c \in Channels /\ Producer(c) = s /\ chan[c] = "open"
         /\ Reader(c) \in Deaf \/ Waits(Reader(c))
<1>. DEFINE r == Reader(c)
<1>1. c \in Channels /\ Producer(c) = s /\ chan[c] = "open" /\ ~Ready(r, c)
  BY NotReady
<1>2. SUFFICES ASSUME r \notin Deaf PROVE Waits(r)
  BY <1>1
<1>3. r \in Stages /\ graph[r].n \in Nat /\ stage[r].count \in Nat /\ ~CanReachLimit(r)
  BY <1>1, ChannelFacts, ProgramFacts DEF Quiescent
<1>4. stage[r].pc = "run" /\ c \in stage[r].active
  BY <1>1, <1>2, ReadsOrDeaf
<1>. HIDE DEF r
<1>5. Kind(r) = "valve" => stage[r].on
  BY <1>2, <1>3 DEF Deaf
<1>. QED
  BY <1>1, <1>3, <1>4, <1>5 DEF Ready, AtSelect, CanReachLimit, Waits

\* Only a source reads what a generator of its own makes.
LEMMA NotWrapped ==
  ASSUME ProgramInv, NEW s \in Stages, ~Wrapped(s), NEW c \in Out(s)
  PROVE  Kind(Reader(c)) \notin Sources
<1>1. c \in Channels /\ Producer(c) = s /\ Wired(graph)
  BY ProgramFacts, InAndOut
<1>2. Kind(s) \in Generators => Out(s) = {graph[s].out[1]}
  BY <1>1, Shapes DEF Generators, Terminators
<1>. QED
  BY <1>1, <1>2, ChannelFacts DEF Wrapped

\* By induction from downstream: a stage that waits, waits for a deaf one.
LEMMA WaitsForTheDeaf ==
  ASSUME ProgramInv, Quiescent, NEW s \in Stages, Waits(s), ~Wrapped(s)
  PROVE  Downstream(s) \cap Deaf # {}
<1>. DEFINE T == {u \in Stages : Waits(u) /\ ~Wrapped(u) /\ Downstream(u) \cap Deaf = {}}
<1>1. SUFFICES ASSUME T # {} PROVE FALSE
  OBVIOUS
<1>2. Wired(graph)
  BY ProgramFacts
<1>3. PICK x \in T : \A y \in T : y <= x
  <2>1. T \subseteq Stages
    OBVIOUS
  <2>. HIDE DEF T
  <2>. QED
    BY <1>1, <1>2, <2>1, LastOf
<1>4. x \in Stages /\ Waits(x) /\ ~Wrapped(x) /\ Downstream(x) \cap Deaf = {}
  OBVIOUS
<1>5. 1 \in Next1(x) /\ 1 \in DOMAIN stage[x].todo
  BY <1>4, ProgramFacts DEF Next1, Waits
<1>. DEFINE c == stage[x].todo[1][1]
            r == Reader(c)
<1>6. c \in Out(x)
  BY <1>4, <1>5, StageTypes
<1>7. Kind(r) \notin Sources
  BY <1>4, <1>6, NotWrapped
<1>8. c \in Channels /\ Producer(c) = x /\ chan[c] = "open" /\ (r \in Deaf \/ Waits(r))
  <2>. HIDE DEF c
  <2>1. c = stage[x].todo[1][1]
    BY DEF c
  <2>. QED
    BY <1>4, <1>5, <1>7, <2>1, WaitsForWaiting
<1>. HIDE DEF c
<1>9. r \in Downstream(x) /\ Downstream(r) \subseteq Downstream(x)
  <2>1. chan[c] # "new"
    BY <1>8
  <2>. QED
    BY <1>2, <1>8, <2>1, Feeds
<1>10. r \in Stages /\ x < r /\ Kind(r) \notin Generators /\ x \in Nat /\ r \in Nat
  BY <1>4, <1>8, ChannelFacts, ProgramFacts
<1>. HIDE DEF r
<1>11. Waits(r)
  BY <1>4, <1>8, <1>9
<1>12. r \in T
  BY <1>4, <1>9, <1>10, <1>11 DEF Wrapped
<1>13. r <= x
  <2>. HIDE DEF T
  <2>. QED
    BY <1>3, <1>12
<1>. QED
  BY <1>10, <1>13

\* The same of each child that a repeater waits for.
LEMMA OnlyTheDeaf ==
  ASSUME ProgramInv, Quiescent, NEW s \in Stages, Kind(s) = "repeater", NEW i \in DOMAIN stage[s].todo
  PROVE  Downstream(Reader(stage[s].todo[i][1])) \cap Deaf # {}
<1>. DEFINE c == stage[s].todo[i][1]
            r == Reader(c)
<1>1. i \in Next1(s)
  BY DEF Next1
<1>2. c \in Channels /\ Producer(c) = s
  BY StageTypes
<1>3. r \in Stages /\ Kind(r) \notin Generators /\ Kind(r) \notin Sources
  BY <1>2, ChannelFacts DEF Generators
<1>4. r \in Deaf \/ Waits(r)
  <2>. HIDE DEF c
  <2>1. c = stage[s].todo[i][1]
    BY DEF c
  <2>. QED
    BY <1>1, <1>3, <2>1, WaitsForWaiting
<1>. HIDE DEF r
<1>5. Downstream(r) \cap Deaf # {}
  BY <1>3, <1>4, ProgramFacts, WaitsForTheDeaf DEF Wrapped
<1>. QED
  BY <1>5 DEF r

\* In every program, a repeater (Repeater.loop) that waits for ever waits for a
\* child whose readers do not read.
THEOREM OnlyTheDeafAlways == ProgramSpec => []OnlyTheDeafHoldUp
<1>1. ProgramInv => OnlyTheDeafHoldUp
  BY OnlyTheDeaf DEF OnlyTheDeafHoldUp
<1>. QED
  BY <1>1, ProgramInvariance, PTL

-----------------------------------------------------------------------------
(* Programs whose streams are closed. *)

OwnersClosed ==
  \A k \in Closable : k \in closedCtrl \/ (k > 0 /\ (chan[k] = "new" \/ Missing(Producer(k))))

\* A stage that is held up by a deaf one, or by what one has held up.
Held(s) == \E u \in Stages : stage[u].pc = "run" /\ s \in Downstream(u) /\ Downstream(u) \cap Deaf # {}

\* What feeds a stage that nothing holds up is not held up.
LEMMA NotHeld ==
  ASSUME ProgramInv, NEW c \in Channels, chan[c] # "new", ~Held(Reader(c))
  PROVE  ~Held(Producer(c))
<1>1. Wired(graph) /\ Reader(c) \in Downstream(Producer(c))
  BY GraphIsWired, Feeds DEF ProgramInv
<1>2. ASSUME NEW u \in Stages, Producer(c) \in Downstream(u) PROVE Reader(c) \in Downstream(u)
  BY <1>1, <1>2, DownstreamIsClosed
<1>. QED
  BY <1>2 DEF Held

\* What feeds a stage that exists exists, and so does the channel between them.
LEMMA NotMissing ==
  ASSUME ProgramInv, NEW c \in Channels, ~Missing(Reader(c))
  PROVE  chan[c] # "new" /\ ~Missing(Producer(c))
<1>1. Wired(graph) /\ Reader(c) \in Stages /\ Producer(c) \in Stages
  BY GraphIsWired, ChannelFacts DEF ProgramInv
<1>2. chan[c] # "new"
  BY <1>1, DownstreamIs DEF Missing
<1>3. Reader(c) \in Downstream(Producer(c))
  BY <1>1, <1>2, Feeds
<1>. QED
  BY <1>1, <1>2, <1>3, MissingBelow

\* A stage that reads a stream is fed by the one that reads the first data
\* channel of it.
LEMMA FedByTheFirst ==
  ASSUME ProgramInv, NEW c \in Channels
  PROVE  Reader(c) \in Downstream(Reader(CtrlOf(c)))
<1>. DEFINE OK(d) == Reader(d) \in Downstream(Reader(CtrlOf(d)))
            Bad == {d \in Channels : ~OK(d)}
            T == {Producer(d) : d \in Bad}
<1>1. SUFFICES ASSUME Bad # {} PROVE FALSE
  OBVIOUS
<1>2. Wired(graph)
  BY GraphIsWired DEF ProgramInv
<1>3. T \subseteq Stages /\ T # {}
  BY <1>1, ChannelFacts
<1>4. PICK x \in T : \A y \in T : x <= y
  <2>. HIDE DEF T
  <2>. QED
    BY <1>2, <1>3, FirstOf
<1>5. PICK d \in Bad : x = Producer(d)
  OBVIOUS
<1>6. d \in Channels /\ ~OK(d)
  OBVIOUS
<1>7. Shares(d)
  <2>1. Reader(d) \in Downstream(Reader(d))
    BY <1>2, <1>6, Ends, DownstreamIs
  <2>2. CASE ~Shares(d)
    BY <1>2, <1>6, <2>1, <2>2, CtrlIs
  <2>. QED
    BY <2>2
<1>. DEFINE u == Upstream(d)
<1>8. u \in Channels /\ Reader(u) = Producer(d) /\ Producer(u) < x /\ CtrlOf(d) = CtrlOf(u)
  BY <1>2, <1>5, <1>6, <1>7, CtrlIs, UpstreamIs
<1>. HIDE DEF u
<1>9. OK(u)
  <2>1. Producer(u) \in Nat /\ x \in Nat
    BY <1>2, <1>5, <1>6, <1>8, Ends
  <2>2. CASE u \in Bad
    <3>1. Producer(u) \in T
      BY <2>2
    <3>2. x <= Producer(u)
      <4>. HIDE DEF T
      <4>. QED
        BY <1>4, <3>1
    <3>. QED
      BY <1>8, <2>1, <3>2
  <2>. QED
    BY <1>8, <2>2
<1>10. chan[d] # "new"
  BY <1>6, <1>7, ChannelFacts DEF ChannelOK, Shares, Operators
<1>11. Reader(d) \in Downstream(Producer(d))
  BY <1>2, <1>6, <1>10, Feeds
<1>12. Reader(CtrlOf(u)) \in Stages
  BY <1>2, <1>8, CtrlChannel, Ends
<1>13. Producer(d) \in Downstream(Reader(CtrlOf(d)))
  BY <1>8, <1>9
<1>14. Reader(CtrlOf(d)) \in Stages
  BY <1>8, <1>12
<1>. QED
  BY <1>2, <1>6, <1>11, <1>13, <1>14, DownstreamIsClosed

\* The stream of a terminator is closed, if the terminator can exist.
LEMMA TerminatorsAreTold ==
  ASSUME ProgramInv, OwnersClosed, NEW s \in Stages, Kind(s) \in Terminators, ~Missing(s)
  PROVE  CtrlOf(graph[s].in[1]) \in closedCtrl
<1>. DEFINE c == graph[s].in[1]
            k == CtrlOf(c)
<1>1. Wired(graph) /\ In(s) = {c}
  BY ProgramFacts, Shapes DEF Single
<1>2. c \in Channels /\ Reader(c) = s
  BY <1>1, InAndOut
<1>3. k \in Closable
  BY DEF Closable
<1>. HIDE DEF c
<1>4. k \in Channels /\ s \in Downstream(Reader(k))
  BY <1>1, <1>2, CtrlChannel, FedByTheFirst
<1>. HIDE DEF k
<1>5. chan[k] # "new"
  BY <1>4 DEF Missing
<1>6. ~Missing(Producer(k))
  <2>1. Producer(k) \in Stages /\ s \in Downstream(Producer(k))
    BY <1>1, <1>4, <1>5, Ends, Feeds
  <2>. QED
    BY <1>1, <2>1, MissingBelow
<1>7. k \in closedCtrl
  BY <1>3, <1>5, <1>6 DEF OwnersClosed
<1>. QED
  BY <1>7 DEF k, c

\* A stage that nothing holds up is at its select statement.
LEMMA AtItsSelect ==
  ASSUME ProgramInv, Quiescent, NEW s \in Stages, stage[s].pc = "run", ~Wrapped(s), Downstream(s) \cap Deaf = {}
  PROVE  AtSelect(s)
BY WaitsForTheDeaf DEF AtSelect, Waits

\* By induction from downstream: when the owners have closed their streams, so
\* has whoever reads a stream that is still open.
LEMMA StreamsAreClosed ==
  ASSUME ProgramInv, Quiescent, OwnersClosed, NEW c \in Channels, chan[c] = "open",
         Kind(Reader(c)) \notin Sources, Downstream(Reader(c)) \cap Deaf = {},
         \A u \in Downstream(Reader(c)) : ~Missing(u)
  PROVE  CtrlOf(c) \in closedCtrl
<1>. DEFINE Clear(s) == Kind(s) \notin Sources /\ Downstream(s) \cap Deaf = {} /\ \A u \in Downstream(s) : ~Missing(u)
            Bad(d) == chan[d] = "open" /\ Clear(Reader(d)) /\ CtrlOf(d) \notin closedCtrl
            T == {Reader(d) : d \in {b \in Channels : Bad(b)}}
<1>1. SUFFICES ASSUME \E d \in Channels : Bad(d) PROVE FALSE
  OBVIOUS
<1>2. Wired(graph)
  BY GraphIsWired DEF ProgramInv
<1>3. T \subseteq Stages /\ T # {}
  <2>. HIDE DEF Bad
  <2>. QED
    BY <1>1, ChannelFacts
<1>4. PICK x \in T : \A y \in T : y <= x
  <2>. HIDE DEF T
  <2>. QED
    BY <1>2, <1>3, LastOf
<1>5. PICK d \in Channels : Bad(d) /\ x = Reader(d)
  <2>. HIDE DEF Bad
  <2>. QED
    OBVIOUS
<1>6. /\ x \in Stages /\ d \in In(x) /\ Kind(x) \in Kinds \ (Generators \cup Sources) /\ x \in Nat
      /\ x \in Downstream(x) /\ x \notin Deaf /\ ~Missing(x) /\ Downstream(x) \cap Deaf = {}
      /\ \A u \in Downstream(x) : ~Missing(u)
      /\ chan[d] = "open" /\ CtrlOf(d) \notin closedCtrl
  BY <1>5, ChannelFacts, ProgramFacts
<1>7. stage[x].pc = "run" /\ d \in stage[x].active
  BY <1>5, <1>6, ReadsOrDeaf
<1>8. AtSelect(x)
  BY <1>6, <1>7, AtItsSelect DEF Wrapped
\* What the stage writes is closed already.
<1>9. ASSUME NEW e \in Out(x), chan[e] = "open" PROVE CtrlOf(e) \in closedCtrl
  <2>1. e \in Channels /\ Producer(e) = x
    BY <1>2, <1>6, InAndOut
  <2>2. Reader(e) \in Stages /\ x < Reader(e) /\ Reader(e) \in Nat /\ Kind(Reader(e)) \notin Sources
    BY <1>2, <1>6, <2>1, Ends
  <2>3. Downstream(Reader(e)) \subseteq Downstream(x)
    BY <1>2, <1>9, <2>1, Feeds
  <2>4. Clear(Reader(e))
    BY <1>6, <2>2, <2>3
  <2>. HIDE DEF Clear
  <2>5. CASE CtrlOf(e) \notin closedCtrl
    <3>1. Reader(e) \in T
      BY <1>9, <2>1, <2>4, <2>5
    <3>2. Reader(e) <= x
      <4>. HIDE DEF T
      <4>. QED
        BY <1>4, <3>1
    <3>. QED
      BY <1>6, <2>2, <3>2
  <2>. QED
    BY <2>5
<1>10. Kind(x) \in Mergers \cup {"repeater"} /\ ~stage[x].ctrl => FALSE
  BY <1>6, <1>7, ProgramFacts DEF TellsInputs
<1>. DEFINE e == graph[x].out[1]
<1>11. ASSUME Kind(x) \in Operators \cup Mergers PROVE e \in Out(x) /\ chan[e] = "open"
  <2>1. e \in Out(x)
    BY <1>2, <1>6, <1>11, Shapes DEF Operators, Mergers, Terminators
  <2>2. Kind(x) # "repeater"
    BY <1>11 DEF Operators, Mergers
  <2>. QED
    BY <1>6, <1>7, <2>1, <2>2, OpenOuts DEF Children
<1>12. ASSUME Kind(x) \in Operators PROVE FALSE
  <2>1. e \in Channels /\ Shares(e) /\ Upstream(e) = graph[x].in[1]
    BY <1>2, <1>6, <1>11, <1>12, InAndOut DEF Shares, Upstream
  <2>2. In(x) = {graph[x].in[1]}
    BY <1>2, <1>6, <1>12, Shapes DEF Single
  <2>3. CtrlOf(e) = CtrlOf(d)
    BY <1>2, <1>6, <2>1, <2>2, CtrlIs
  <2>. QED
    BY <1>6, <1>9, <1>11, <1>12, <2>3
<1>13. ASSUME Kind(x) \in Mergers PROVE FALSE
  <2>1. e \in Channels /\ ~Shares(e)
    BY <1>2, <1>6, <1>11, <1>13, InAndOut DEF Shares, Operators, Mergers
  <2>2. e \in closedCtrl
    BY <1>2, <1>9, <1>11, <1>13, <2>1, CtrlIs
  <2>3. ~CanRelayStop(x)
    BY <1>6 DEF Quiescent
  <2>. QED
    BY <1>8, <1>10, <1>13, <2>2, <2>3 DEF CanRelayStop
<1>14. ASSUME Kind(x) = "repeater" PROVE FALSE
  <2>1. RepeaterCtrl(x) \in Closable /\ ~(RepeaterCtrl(x) > 0)
    BY <1>6, <1>14 DEF Closable, RepeaterCtrl
  <2>2. RepeaterCtrl(x) \in closedCtrl
    BY <2>1 DEF OwnersClosed
  <2>3. ~CanCloseRepeater(x)
    BY <1>6 DEF Quiescent
  <2>. QED
    BY <1>8, <1>10, <1>14, <2>2, <2>3 DEF CanCloseRepeater
<1>15. ASSUME Kind(x) \in Terminators PROVE FALSE
  <2>1. In(x) = {graph[x].in[1]}
    BY <1>2, <1>6, <1>15, Shapes DEF Single
  <2>. QED
    BY <1>6, <1>15, <2>1, TerminatorsAreTold
<1>. QED
  BY <1>6, <1>12, <1>13, <1>14, <1>15 DEF Kinds

\* A stage that is at its select statement, and not deaf, has taken the end of
\* an input that is closed.
LEMMA TakesTheEnd ==
  ASSUME ProgramInv, Quiescent, NEW s \in Stages, AtSelect(s), s \notin Deaf, Kind(s) \notin Sources,
         NEW c \in stage[s].active
  PROVE  c \in In(s) /\ chan[c] # "closed"
<1>1. /\ c \in In(s) /\ Kind(s) \in Kinds \ Sources /\ Kind(s) \notin Generators
      /\ graph[s].n \in Nat /\ stage[s].count \in Nat /\ c \in Channels
  <2>1. /\ c \in In(s) /\ Kind(s) \in Kinds \ Sources /\ graph[s].n \in Nat /\ stage[s].count \in Nat /\ Wired(graph)
    BY ProgramFacts DEF ReadsOpen
  <2>. QED
    BY <2>1, InAndOut, ChannelFacts
<1>2. SUFFICES ASSUME chan[c] = "closed" PROVE FALSE
  BY <1>1
<1>3. Kind(s) = "valve" => stage[s].on
  BY DEF Deaf
<1>4. Kind(s) = "limit" => stage[s].count < graph[s].n
  BY <1>1 DEF Quiescent, CanReachLimit
<1>5. Ready(s, c)
  BY <1>2, <1>3, <1>4 DEF Ready
<1>6. buf[c] = <<>>
  BY <1>1, <1>5 DEF Quiescent, CanReceive
<1>7. ~CanEnd(s) /\ ~CanDropInput(s, c) /\ ~CanEndChildren(s)
  BY <1>1 DEF Quiescent
<1>8. Kind(s) \notin Operators \cup Terminators /\ Kind(s) \notin Mergers /\ Kind(s) # "repeater"
  BY <1>1, <1>2, <1>5, <1>6, <1>7 DEF CanEnd, CanDropInput, CanEndChildren
<1>. QED
  BY <1>1, <1>8 DEF Kinds

\* A stage whose stream has been closed.
Told(s) == IF Kind(s) \in Operators \cup Terminators THEN CtrlOf(graph[s].in[1]) \in closedCtrl
                                                     ELSE graph[s].out[1] \in closedCtrl

\* One that ought to have returned.
Stray(s) == /\ stage[s].pc = "run" /\ Kind(s) # "repeater" /\ Told(s)
            /\ ~Wrapped(s) /\ ~Missing(s) /\ ~Held(s)

\* A stage that is not held up feeds no deaf one.
LEMMA NothingDeafBelow ==
  ASSUME ProgramInv, NEW s \in Stages, stage[s].pc = "run", ~Held(s)
  PROVE  Downstream(s) \cap Deaf = {} /\ s \notin Deaf
BY ProgramFacts DEF Held

\* A stage that still reads a stream which it has closed is fed by such a one.
LEMMA FedByAStray ==
  ASSUME ProgramInv, Quiescent, NEW s \in Stages, stage[s].pc = "run", ~Missing(s), ~Held(s), ~Wrapped(s),
         Kind(s) \notin Sources, NEW c \in stage[s].active, CtrlOf(c) \in closedCtrl
  PROVE  \E p \in Stages : p < s /\ Stray(p)
<1>. DEFINE p == Producer(c)
<1>1. Downstream(s) \cap Deaf = {} /\ s \notin Deaf
  BY NothingDeafBelow
<1>2. AtSelect(s)
  BY <1>1, AtItsSelect
<1>3. c \in In(s) /\ chan[c] # "closed" /\ Wired(graph)
  BY <1>1, <1>2, TakesTheEnd, ProgramFacts
<1>4. c \in Channels /\ Reader(c) = s
  BY <1>3, InAndOut
<1>5. chan[c] = "open" /\ ~Missing(p)
  BY <1>3, <1>4, NotMissing, ChannelFacts
<1>6. ~Held(p)
  BY <1>4, <1>5, NotHeld
<1>7. p \in Stages /\ p < s /\ c \in Out(p) /\ stage[p].pc = "run"
  BY <1>4, <1>5, ChannelFacts DEF ChannelOK
<1>8. ~Wrapped(p)
  <2>1. Kind(p) \in Generators => Out(p) = {graph[p].out[1]}
    BY <1>3, <1>7, Shapes DEF Generators, Terminators
  <2>. QED
    BY <1>4, <1>7, <2>1 DEF Wrapped
<1>. HIDE DEF p
<1>9. Kind(p) # "repeater"
  <2>1. ASSUME Kind(p) = "repeater" PROVE FALSE
    <3>1. AtSelect(p)
      BY <1>6, <1>7, <1>8, NothingDeafBelow, AtItsSelect
    <3>2. CtrlOf(c) = c
      BY <1>3, <1>4, <2>1, CtrlIs DEF Shares, Operators, p
    <3>3. ~CanRemoveChild(p, c)
      BY <1>7 DEF Quiescent
    <3>. QED
      BY <1>5, <2>1, <3>1, <3>2, <3>3 DEF CanRemoveChild
  <2>. QED
    BY <2>1
<1>10. Told(p)
  <2>1. CASE Kind(p) \in Operators
    <3>1. CtrlOf(c) = CtrlOf(graph[p].in[1])
      BY <1>3, <1>4, <2>1, CtrlIs DEF Shares, Upstream, p
    <3>. QED
      BY <2>1, <3>1 DEF Told
  <2>2. CASE Kind(p) \notin Operators
    <3>1. CtrlOf(c) = c
      BY <1>3, <1>4, <2>2, CtrlIs DEF Shares, p
    <3>2. Kind(p) \notin Terminators
      BY <1>3, <1>7, Shapes
    <3>3. Out(p) = {graph[p].out[1]}
      BY <1>3, <1>7, <1>9, <2>2, <3>2, Shapes DEF Operators
    <3>. QED
      BY <1>7, <2>2, <3>1, <3>2, <3>3 DEF Told
  <2>. QED
    BY <2>1, <2>2
<1>. QED
  BY <1>5, <1>6, <1>7, <1>8, <1>9, <1>10 DEF Stray

\* By induction from upstream: there is none.
LEMMA NoStray ==
  ASSUME ProgramInv, Quiescent, NEW s \in Stages
  PROVE  ~Stray(s)
<1>. DEFINE T == {u \in Stages : Stray(u)}
<1>1. SUFFICES ASSUME T # {} PROVE FALSE
  OBVIOUS
<1>2. Wired(graph)
  BY ProgramFacts
<1>3. PICK x \in T : \A y \in T : x <= y
  <2>1. T \subseteq Stages
    OBVIOUS
  <2>. HIDE DEF T
  <2>. QED
    BY <1>1, <1>2, <2>1, FirstOf
<1>4. x \in Stages /\ Stray(x)
  OBVIOUS
<1>5. ASSUME NEW p \in Stages, p < x, Stray(p) PROVE FALSE
  <2>1. p \in T /\ p \in Nat /\ x \in Nat
    BY <1>4, <1>5, ProgramFacts
  <2>2. x <= p
    <3>. HIDE DEF T
    <3>. QED
      BY <1>3, <2>1
  <2>. QED
    BY <1>5, <2>1, <2>2
<1>. HIDE DEF T
<1>6. /\ stage[x].pc = "run" /\ Kind(x) \in Kinds \ {"repeater"} /\ Told(x)
      /\ ~Wrapped(x) /\ ~Missing(x) /\ ~Held(x)
  BY <1>4, ProgramFacts DEF Stray
<1>7. AtSelect(x)
  BY <1>4, <1>6, NothingDeafBelow, AtItsSelect
<1>8. ASSUME NEW c \in stage[x].active, CtrlOf(c) \in closedCtrl, Kind(x) \notin Sources PROVE FALSE
  BY <1>4, <1>5, <1>6, <1>8, FedByAStray
<1>9. ASSUME Kind(x) \in Operators \cup Terminators PROVE FALSE
  <2>1. In(x) = {graph[x].in[1]} /\ Kind(x) \notin Sources
    BY <1>2, <1>4, <1>9, Shapes DEF Single, Sources, Operators, Terminators
  <2>2. stage[x].active = In(x)
    BY <1>4, <1>9, ProgramFacts DEF ReadsOpen, Operators, Terminators, Mergers
  <2>. QED
    BY <1>6, <1>8, <1>9, <2>1, <2>2 DEF Told
<1>10. ASSUME Kind(x) \in Generators PROVE FALSE
  <2>1. ~CanStop(x) /\ Kind(x) \notin Operators \cup Terminators
    BY <1>4, <1>10 DEF Quiescent, Generators, Operators, Terminators
  <2>. QED
    BY <1>6, <1>7, <1>10, <2>1 DEF Told, CanStop, AtSelect
<1>11. ASSUME Kind(x) \in Sources PROVE FALSE
  <2>1. ~CanStopSource(x) /\ Kind(x) \notin Operators \cup Terminators
    BY <1>4, <1>11 DEF Quiescent, Sources, Operators, Terminators
  <2>. QED
    BY <1>6, <1>7, <1>11, <2>1 DEF Told, CanStopSource
<1>12. ASSUME Kind(x) \in Mergers PROVE FALSE
  <2>1. ~CanRelayStop(x) /\ Kind(x) \notin Operators \cup Terminators \cup Sources
    BY <1>4, <1>12 DEF Quiescent, Sources, Operators, Terminators, Mergers
  <2>2. ~stage[x].ctrl
    BY <1>6, <1>7, <1>12, <2>1 DEF Told, CanRelayStop
  <2>3. stage[x].active # {} /\ \A c \in stage[x].active : CtrlOf(c) \in closedCtrl
    BY <1>4, <1>6, <1>12, <2>2, ProgramFacts DEF ReturnsAtEnd, TellsInputs
  <2>. QED
    BY <1>8, <2>1, <2>3
<1>. QED
  BY <1>6, <1>9, <1>10, <1>11, <1>12 DEF Kinds

\* No stage is left running but the ones EndsWhenClosed lists.
LEMMA AllHaveEnded ==
  ASSUME ProgramInv, Quiescent, OwnersClosed, NEW s \in Stages, stage[s].pc = "run", ~Wrapped(s), ~Held(s),
         \A u \in Downstream(s) : ~Missing(u)
  PROVE  FALSE
<1>1. /\ Wired(graph) /\ Kind(s) \in Kinds /\ ~Missing(s) /\ ReadsOpen(s) /\ TellsInputs(s) /\ s \in Nat
      /\ Downstream(s) \cap Deaf = {} /\ AtSelect(s)
  BY ProgramFacts, NothingDeafBelow, AtItsSelect
<1>2. ASSUME NEW e \in Out(s), chan[e] = "open" PROVE CtrlOf(e) \in closedCtrl
  <2>1. e \in Channels /\ Producer(e) = s /\ Kind(Reader(e)) \notin Sources
    BY <1>1, InAndOut, NotWrapped
  <2>2. Downstream(Reader(e)) \subseteq Downstream(s)
    BY <1>1, <1>2, <2>1, Feeds
  <2>. QED
    BY <1>1, <1>2, <2>1, <2>2, StreamsAreClosed
<1>3. ASSUME Kind(s) = "repeater" PROVE FALSE
  <2>1. RepeaterCtrl(s) \in Closable /\ ~(RepeaterCtrl(s) > 0)
    BY <1>1, <1>3 DEF Closable, RepeaterCtrl
  <2>2. ~stage[s].ctrl
    <3>1. RepeaterCtrl(s) \in closedCtrl /\ ~CanCloseRepeater(s)
      BY <2>1 DEF OwnersClosed, Quiescent
    <3>. QED
      BY <1>1, <1>3, <3>1 DEF CanCloseRepeater
  <2>3. stage[s].active = {}
    <3>1. Kind(s) \notin Sources /\ \A c \in stage[s].active : CtrlOf(c) \in closedCtrl
      BY <1>1, <1>3, <2>2 DEF TellsInputs, Sources
    <3>. QED
      BY <1>1, <3>1, FedByAStray, NoStray
  <2>4. PICK d \in Children(s) : TRUE
    <3>1. ~CanLeaveLoop(s)
      BY DEF Quiescent
    <3>. QED
      BY <1>1, <1>3, <2>2, <2>3, <3>1 DEF CanLeaveLoop
  <2>5. d \in Out(s) /\ chan[d] = "open"
    BY DEF Children
  <2>6. CtrlOf(d) = d
    BY <1>1, <1>3, <2>5, InAndOut, CtrlIs DEF Shares, Operators
  <2>7. ~CanRemoveChild(s, d)
    BY <2>5 DEF Quiescent
  <2>. QED
    BY <1>1, <1>2, <1>3, <2>5, <2>6, <2>7 DEF CanRemoveChild
<1>. DEFINE e == graph[s].out[1]
<1>4. Kind(s) \notin Terminators \cup {"repeater"} => e \in Out(s) /\ chan[e] = "open"
  <2>1. Kind(s) \notin Terminators \cup {"repeater"} => e \in Out(s)
    BY <1>1, Shapes
  <2>. QED
    BY <2>1, OpenOuts DEF Children
<1>5. ASSUME Kind(s) # "repeater" PROVE Told(s)
  <2>1. CASE Kind(s) \in Terminators
    BY <1>1, <2>1, TerminatorsAreTold DEF Told
  <2>2. CASE Kind(s) \in Operators
    <3>1. Kind(s) \notin Terminators
      BY <2>2 DEF Operators, Terminators
    <3>2. e \in Channels /\ Producer(e) = s /\ CtrlOf(e) \in closedCtrl
      BY <1>1, <1>2, <1>4, <1>5, <3>1, InAndOut
    <3>3. CtrlOf(e) = CtrlOf(graph[s].in[1])
      BY <1>1, <2>2, <3>2, CtrlIs DEF Shares, Upstream
    <3>. QED
      BY <2>2, <3>2, <3>3 DEF Told
  <2>3. CASE Kind(s) \notin Operators \cup Terminators
    <3>1. e \in Channels /\ Producer(e) = s /\ CtrlOf(e) \in closedCtrl
      BY <1>1, <1>2, <1>4, <1>5, <2>3, InAndOut
    <3>2. CtrlOf(e) = e
      BY <1>1, <2>3, <3>1, CtrlIs DEF Shares
    <3>. QED
      BY <2>3, <3>1, <3>2 DEF Told
  <2>. QED
    BY <2>1, <2>2, <2>3
<1>. QED
  BY <1>1, <1>3, <1>5, NoStray DEF Stray

-----------------------------------------------------------------------------
(* Who closes a control channel. *)

Closer(s) == Kind(s) \in Mergers \cup {"repeater"}

\* Stage t has closed the control channel k of a stream it reads.
HasTold(t, k) == Closer(t) /\ ~stage[t].ctrl /\ \E c \in In(t) : k = CtrlOf(c)

\* What stages have closed they were told to close, the rest the owners have
\* closed; and a panic needs two streams with one control channel.
ClosersInv ==
  /\ \A k \in relayed : \E t \in Stages : HasTold(t, k)
  /\ closedCtrl \ relayed \subseteq Closable
  /\ panicked => ClosedTwice

\* A stage that reads channel c and one that reads channel d are told of one
\* control channel.
LEMMA TwoClose ==
  ASSUME Wired(graph), NEW s \in Stages, NEW t \in Stages, NEW c \in In(s), NEW d \in In(t), c # d,
         CtrlOf(c) = CtrlOf(d), Closer(s) \/ Kind(s) \in Terminators, Closer(t) \/ Kind(t) \in Terminators
  PROVE  ClosedTwice
<1>1. c \in Channels /\ d \in Channels /\ Reader(c) = s /\ Reader(d) = t
  BY InAndOut
<1>. QED
  BY <1>1 DEF ClosedTwice, Closer

\* A control channel that an owner closes is that of a terminator's stream, or it
\* is a repeater's own, and that of no stream.
LEMMA OwnersClose ==
  ASSUME Wired(graph), NEW k \in Closable, NEW c \in Channels, k = CtrlOf(c)
  PROVE  \E t \in Stages : /\ Kind(t) \in Terminators
                           /\ graph[t].in[1] \in In(t) /\ k = CtrlOf(graph[t].in[1])
<1>1. k \in Nat \ {0}
  BY CtrlChannel, Ends
<1>2. \A t \in Stages : RepeaterCtrl(t) \notin Nat \ {0}
  BY StageForm DEF RepeaterCtrl
<1>3. PICK t \in Stages : Kind(t) \in Terminators /\ k = CtrlOf(graph[t].in[1])
  BY <1>1, <1>2 DEF Closable
<1>4. In(t) = {graph[t].in[1]}
  BY <1>3, Shapes DEF Single
<1>. QED
  BY <1>3, <1>4

\* A stage that was not told yet closes one that is closed.
LEMMA StagePanics ==
  ASSUME Wired(graph), ClosersInv, NEW s \in Stages, Closer(s), stage[s].ctrl,
         NEW cs \in SUBSET In(s), ClosesTwice(cs)
  PROVE  ClosedTwice
<1>1. ASSUME NEW c \in cs, NEW d \in cs, c # d, CtrlOf(c) = CtrlOf(d) PROVE ClosedTwice
  BY <1>1, TwoClose
<1>2. ASSUME NEW c \in cs, CtrlOf(c) \in closedCtrl PROVE ClosedTwice
  <2>1. c \in Channels /\ Reader(c) = s
    BY InAndOut
  <2>2. CASE CtrlOf(c) \in relayed
    <3>1. PICK t \in Stages : HasTold(t, CtrlOf(c))
      BY <2>2 DEF ClosersInv
    <3>2. PICK d \in In(t) : CtrlOf(c) = CtrlOf(d)
      BY <3>1 DEF HasTold
    <3>3. c # d
      BY <2>1, <3>1, InAndOut DEF HasTold
    <3>. QED
      BY <3>1, <3>2, <3>3, TwoClose DEF HasTold
  <2>3. CASE CtrlOf(c) \in Closable
    <3>1. PICK t \in Stages : /\ Kind(t) \in Terminators
                              /\ graph[t].in[1] \in In(t) /\ CtrlOf(c) = CtrlOf(graph[t].in[1])
      BY <2>1, <2>3, OwnersClose
    <3>2. c # graph[t].in[1]
      BY <2>1, <3>1, InAndOut DEF Closer, Mergers, Terminators
    <3>. QED
      BY <3>1, <3>2, TwoClose
  <2>. QED
    BY <1>2, <2>2, <2>3 DEF ClosersInv
<1>. QED
  BY <1>1, <1>2 DEF ClosesTwice, Ctrls

\* An owner closes one that a stage has closed.
LEMMA OwnerPanicsTwice ==
  ASSUME Wired(graph), ClosersInv, NEW k \in Closable \cap relayed
  PROVE  ClosedTwice
<1>1. PICK s \in Stages : HasTold(s, k)
  BY DEF ClosersInv
<1>2. PICK c \in In(s) : k = CtrlOf(c)
  BY <1>1 DEF HasTold
<1>3. c \in Channels /\ Reader(c) = s
  BY InAndOut
<1>4. PICK t \in Stages : /\ Kind(t) \in Terminators
                          /\ graph[t].in[1] \in In(t) /\ k = CtrlOf(graph[t].in[1])
  BY <1>2, <1>3, OwnersClose
<1>5. c # graph[t].in[1]
  BY <1>1, <1>3, <1>4, InAndOut DEF HasTold, Closer, Mergers, Terminators
<1>. QED
  BY <1>1, <1>2, <1>4, <1>5, TwoClose DEF HasTold

\* Nothing panics in a program in which no two streams are closed by one channel.
LEMMA PanicStep ==
  ASSUME ProgramInv, ClosersInv, Panic
  PROVE  ClosedTwice
<1>1. Wired(graph)
  BY GraphIsWired DEF ProgramInv
<1>2. ASSUME NEW s \in Stages, RelayPanics(s) PROVE ClosedTwice
  <2>1. Closer(s) /\ stage[s].ctrl /\ ClosesTwice(ToldInputs(s))
    BY <1>2 DEF RelayPanics, CanRelayStop, Closer
  <2>2. ToldInputs(s) \subseteq In(s)
    BY ProgramFacts DEF ToldInputs, ReadsOpen
  <2>. QED
    BY <1>1, <2>1, <2>2, StagePanics
<1>3. ASSUME NEW s \in Stages, RepeaterPanics(s) PROVE ClosedTwice
  <2>1. Closer(s) /\ stage[s].ctrl /\ ClosesTwice(In(s))
    BY <1>3 DEF RepeaterPanics, CanCloseRepeater, Closer
  <2>. QED
    BY <1>1, <2>1, StagePanics
<1>4. ASSUME NEW k \in Closable, OwnerPanics(k) PROVE ClosedTwice
  BY <1>1, <1>4, OwnerPanicsTwice DEF OwnerPanics
<1>. QED
  BY <1>2, <1>3, <1>4 DEF Panic

\* What a stage does to go on, and what the owners do, tells nobody.
LEMMA GoingOnTellsNobody ==
  ASSUME ProgramInv, NEW s \in Stages, GoOn(s), NEW t \in Stages
  PROVE  graph' = graph /\ closedCtrl' = closedCtrl /\ stage'[t].ctrl = stage[t].ctrl
<1>1. stage \in [Stages -> StageState] /\ \A u \in Stages : stage[u] \in StageState
  BY StageTypes DEF ProgramInv, ProgramTypeOK
<1>2. CASE Send(s) \/ Drop(s)
  <2>1. PICK q : stage' = [stage EXCEPT ![s].todo = q] /\ UNCHANGED <<graph, closedCtrl>>
    BY <1>2 DEF Send, Drop
  <2>. QED
    BY <1>1, <2>1 DEF StageState
<1>7. CASE Generate(s)
  BY <1>1, <1>7 DEF Generate, StageState
<1>3. CASE HandOver(s)
  <2>1. PICK i \in Next1(s) :
          LET e == stage[s].todo[i][2]
              r == Reader(stage[s].todo[i][1])
          IN /\ stage' = [stage EXCEPT ![s].todo = RemoveAt(@, i), ![r] = Taken(r, e)]
             /\ UNCHANGED <<graph, closedCtrl>>
    BY <1>3 DEF HandOver
  <2>. DEFINE q == RemoveAt(stage[s].todo, i)
              e == stage[s].todo[i][2]
              r == Reader(stage[s].todo[i][1])
  <2>4. stage' = [stage EXCEPT ![s].todo = q, ![r] = Taken(r, e)] /\ UNCHANGED <<graph, closedCtrl>>
    BY <2>1
  <2>. HIDE DEF q, e, r
  <2>2. \A u \in Stages : [stage[u] EXCEPT !.todo = q].ctrl = stage[u].ctrl /\ Taken(u, e).ctrl = stage[u].ctrl
    BY <1>1 DEF StageState, Taken
  <2>3. stage'[t] = IF t = r THEN Taken(t, e) ELSE IF t = s THEN [stage[s] EXCEPT !.todo = q] ELSE stage[t]
    BY <1>1, <2>4
  <2>. QED
    BY <2>2, <2>3, <2>4
<1>4. ASSUME NEW c \in In(s), Receive(s, c) \/ DropInput(s, c)
      PROVE  graph' = graph /\ closedCtrl' = closedCtrl /\ stage'[t].ctrl = stage[t].ctrl
  <2>1. CASE Receive(s, c)
    <3>. DEFINE e == Head(buf[c])
    <3>1. stage' = [stage EXCEPT ![s] = Taken(s, e)] /\ UNCHANGED <<graph, closedCtrl>>
      BY <2>1 DEF Receive
    <3>. HIDE DEF e
    <3>2. Taken(s, e).ctrl = stage[s].ctrl
      BY <1>1 DEF Taken, StageState
    <3>. QED
      BY <1>1, <3>1, <3>2
  <2>2. CASE DropInput(s, c)
    BY <1>1, <2>2 DEF DropInput, StageState
  <2>. QED
    BY <1>4, <2>1, <2>2
<1>5. CASE Stop(s) \/ StopSource(s) \/ End(s) \/ ReachLimit(s) \/ LeaveLoop(s)
  BY <1>1, <1>5 DEF Stop, StopSource, End, ReachLimit, LeaveLoop, Return, StageState
<1>6. CASE EndChildren(s) \/ \E c \in Out(s) : RemoveChild(s, c)
  BY <1>1, <1>6 DEF EndChildren, RemoveChild, StageState
<1>. QED
  BY <1>2, <1>3, <1>4, <1>5, <1>6, <1>7 DEF GoOn

LEMMA OwnersTellNobody ==
  ASSUME ProgramInv, OwnerStep, NEW t \in Stages
  PROVE  /\ graph' = graph /\ closedCtrl' \ closedCtrl \subseteq Closable
         /\ stage'[t].ctrl = stage[t].ctrl
<1>1. stage \in [Stages -> StageState] /\ \A u \in Stages : stage[u] \in StageState
  BY StageTypes DEF ProgramInv, ProgramTypeOK
<1>2. CASE \E k \in Closable : CloseCtrl(k)
  BY <1>2 DEF CloseCtrl
<1>3. CASE \E s \in Stages : Leave(s) \/ (\E on \in BOOLEAN : Turn(s, on))
  BY <1>1, <1>3 DEF Leave, Turn, StageState
<1>4. CASE \E s \in Stages : \E c \in Out(s) : AddChild(s, c)
  BY <1>4 DEF AddChild
<1>. QED
  BY <1>2, <1>3, <1>4 DEF OwnerStep

\* A stage that is told to stop tells what it reads, and remembers.
LEMMA TellingTells ==
  ASSUME ProgramInv, NEW s \in Stages, RelayStop(s) \/ CloseRepeater(s)
  PROVE  /\ graph' = graph /\ closedCtrl' \ relayed' \subseteq closedCtrl \ relayed
         /\ \A t \in Stages : ~stage[t].ctrl => ~stage'[t].ctrl
         /\ Closer(s) /\ ~stage'[s].ctrl
         /\ \A k \in relayed' \ relayed : \E c \in In(s) : k = CtrlOf(c)
<1>1. stage \in [Stages -> StageState] /\ \A u \in Stages : stage[u] \in StageState
  BY StageTypes DEF ProgramInv, ProgramTypeOK
<1>2. PICK cs \in SUBSET In(s) : CloseInputs(cs)
  <2>1. ToldInputs(s) \subseteq In(s)
    BY ProgramFacts DEF ToldInputs, ReadsOpen
  <2>. QED
    BY <2>1 DEF RelayStop, CloseRepeater
<1>3. closedCtrl' \ relayed' \subseteq closedCtrl \ relayed /\ \A k \in relayed' \ relayed : \E c \in In(s) : k = CtrlOf(c)
  BY <1>2 DEF CloseInputs, Ctrls
<1>4. graph' = graph /\ Closer(s) /\ ~stage'[s].ctrl /\ \A t \in Stages : ~stage[t].ctrl => ~stage'[t].ctrl
  BY <1>1 DEF RelayStop, CanRelayStop, CloseRepeater, CanCloseRepeater, Closer, StageState
<1>. QED
  BY <1>3, <1>4

LEMMA ClosersInvStep ==
  ASSUME ProgramInv, ClosersInv, [ProgramNext]_allVars
  PROVE  ClosersInv'
<1>1. ASSUME graph' = graph PROVE ClosedTwice' = ClosedTwice /\ Closable' = Closable
  <2>1. /\ Stages' = Stages /\ Channels' = Channels
        /\ \A s : Kind(s)' = Kind(s) /\ \A c : Reader(c)' = Reader(c) /\ CtrlOf(c)' = CtrlOf(c)
    BY <1>1, GraphStays
  <2>. QED
    BY <1>1, <2>1 DEF ClosedTwice, Closable, RepeaterCtrl
<1>2. ASSUME graph' = graph, \A t \in Stages : ~stage[t].ctrl => ~stage'[t].ctrl,
             NEW t \in Stages, NEW k, HasTold(t, k)
      PROVE  t \in Stages' /\ HasTold(t, k)'
  BY <1>2, GraphStays DEF HasTold, Closer
<1>3. CASE Panic
  BY <1>3, <1>1, <1>2, PanicStep DEF Panic, programVars, ClosersInv
<1>4. CASE UNCHANGED allVars
  BY <1>4, <1>1, <1>2 DEF allVars, programVars, ClosersInv
<1>5. ASSUME NEW s \in Stages, GoOn(s), UNCHANGED <<relayed, panicked>> PROVE ClosersInv'
  <2>1. graph' = graph /\ closedCtrl' = closedCtrl /\ \A t \in Stages : ~stage[t].ctrl => ~stage'[t].ctrl
    BY <1>5, GoingOnTellsNobody
  <2>. QED
    BY <1>5, <2>1, <1>1, <1>2 DEF ClosersInv
<1>6. CASE OwnerStep /\ UNCHANGED <<relayed, panicked>>
  <2>1. /\ graph' = graph /\ closedCtrl' \ closedCtrl \subseteq Closable
        /\ \A t \in Stages : ~stage[t].ctrl => ~stage'[t].ctrl
    <3>1. graph' = graph /\ closedCtrl' \ closedCtrl \subseteq Closable
      BY <1>6 DEF OwnerStep, CloseCtrl, Leave, Turn, AddChild
    <3>. QED
      BY <1>6, <3>1, OwnersTellNobody
  <2>. QED
    BY <1>6, <2>1, <1>1, <1>2 DEF ClosersInv
<1>7. ASSUME NEW s \in Stages, RelayStop(s) \/ CloseRepeater(s), UNCHANGED panicked PROVE ClosersInv'
  <2>1. /\ graph' = graph /\ closedCtrl' \ relayed' \subseteq closedCtrl \ relayed
        /\ \A t \in Stages : ~stage[t].ctrl => ~stage'[t].ctrl
        /\ Closer(s) /\ ~stage'[s].ctrl
        /\ \A k \in relayed' \ relayed : \E c \in In(s) : k = CtrlOf(c)
    BY <1>7, TellingTells
  <2>2. ASSUME NEW k \in relayed' \ relayed PROVE s \in Stages' /\ HasTold(s, k)'
    BY <2>1, <2>2, GraphStays DEF HasTold, Closer
  <2>3. \A k \in relayed' : \E t \in Stages' : HasTold(t, k)'
    BY <2>1, <2>2, <1>2 DEF ClosersInv
  <2>. QED
    BY <1>7, <2>1, <2>3, <1>1 DEF ClosersInv
<1>. QED
  BY <1>3, <1>4, <1>5, <1>6, <1>7 DEF ProgramNext, Step, StageStep

\* In every program a panic needs two streams that one control channel closes.
THEOREM PanicsOnlyWhenShared == ProgramSpec => [](panicked => ClosedTwice)
<1>1. ProgramInit => ClosersInv
  BY DEF ProgramInit, ClosersInv
<1>2. ClosersInv => (panicked => ClosedTwice)
  BY DEF ClosersInv
<1>. QED
  BY <1>1, <1>2, ClosersInvStep, ProgramInvariance, PTL DEF ProgramSpec

\* In every program, closing the streams ends every goroutine of pkg/stream that
\* no deaf stage holds up, but for generators inside of sources and stages that
\* do not exist yet; or it panics, closing a control channel that two streams
\* share, both of which are read by stages that close it or whose owners do.
THEOREM EndsWhenClosedAlways == ProgramSpec => []EndsWhenClosed
<1>1. ASSUME ProgramInv, panicked => ClosedTwice PROVE EndsWhenClosed
  <2>1. SUFFICES ASSUME Quiescent, OwnersClosed, NEW s \in Stages, stage[s].pc = "run", ~Wrapped(s), ~Held(s)
                 PROVE  \E u \in Downstream(s) : Missing(u)
    BY <1>1 DEF EndsWhenClosed, OwnersClosed, Held
  <2>. QED
    BY <1>1, <2>1, AllHaveEnded
<1>. QED
  BY <1>1, ProgramInvariance, PanicsOnlyWhenShared, PTL

-----------------------------------------------------------------------------
(* What a stage can feed, whatever is open by now.  *)

\* The stages an element can come to from a stage.
Below(t) == Reached(Stages, {<<Producer(c), Reader(c)>> : c \in Channels}, t)

\* A stage is below itself, and below the stages that feed it.
LEMMA BelowIs ==
  ASSUME Wired(graph), NEW t \in Stages
  PROVE  /\ t \in Below(t) /\ Below(t) \subseteq Stages
         /\ Below(t) = {t} \cup UNION {Below(Reader(c)) : c \in Out(t)}
<1>. DEFINE R == {<<Producer(c), Reader(c)>> : c \in Channels}
<1>1. R \in SUBSET (Stages \X Stages)
  BY Ends
<1>2. Below(t) = {t} \cup UNION {Below(p[2]) : p \in {q \in R : q[1] = t}}
  <2>1. \A x : Below(x) = Reached(Stages, R, x)
    BY DEF Below
  <2>. HIDE DEF R
  <2>2. Reached(Stages, R, t) = {t} \cup UNION {Reached(Stages, R, p[2]) : p \in {q \in R : q[1] = t}}
    BY <1>1, ReachedIs
  <2>. QED
    BY <2>1, <2>2
<1>3. \A c \in Out(t) : c \in Channels /\ <<t, Reader(c)>> \in R
  <2>1. \A c \in Out(t) : c \in Channels /\ Producer(c) = t
    BY InAndOut
  <2>. QED
    BY <2>1
<1>4. \A q \in R : q[1] = t => \E c \in Out(t) : q[2] = Reader(c)
  BY Ends
<1>. HIDE DEF R
<1>5. UNION {Below(p[2]) : p \in {q \in R : q[1] = t}} = UNION {Below(Reader(c)) : c \in Out(t)}
  BY <1>3, <1>4
<1>6. Below(t) \subseteq Stages
  BY DEF Below, Reached
<1>. QED
  BY <1>2, <1>5, <1>6

\* ... and from the stages it comes to.
LEMMA BelowIsClosed ==
  ASSUME Wired(graph), NEW t \in Stages, NEW u \in Below(t)
  PROVE  u \in Stages /\ Below(u) \subseteq Below(t)
<1>. DEFINE P(x) == \A y \in Below(x) : Below(y) \subseteq Below(x)
            Bad == {x \in Stages : ~P(x)}
<1>1. SUFFICES ASSUME Bad # {} PROVE FALSE
  <2>1. P(t)
    BY <1>1
  <2>. QED
    BY <2>1, BelowIs
<1>2. PICK x \in Bad : \A y \in Bad : y <= x
  <2>1. Bad \subseteq Stages
    OBVIOUS
  <2>. HIDE DEF Bad
  <2>. QED
    BY <1>1, <2>1, LastOf
<1>3. x \in Stages /\ ~P(x)
  OBVIOUS
<1>4. ASSUME NEW c \in Out(x) PROVE P(Reader(c))
  <2>1. c \in Channels /\ Producer(c) = x
    BY <1>3, InAndOut
  <2>2. Reader(c) \in Stages /\ x < Reader(c) /\ x \in Nat /\ Reader(c) \in Nat
    BY <2>1, Ends
  <2>3. ~(Reader(c) \in Bad)
    <3>. HIDE DEF Bad
    <3>. QED
      BY <1>2, <2>2
  <2>. HIDE DEF P
  <2>. QED
    BY <2>2, <2>3
<1>5. Below(x) = {x} \cup UNION {Below(Reader(c)) : c \in Out(x)}
  BY <1>3, BelowIs
<1>6. P(x)
  BY <1>4, <1>5
<1>. QED
  BY <1>3, <1>6

\* A stage is below another one through one of the channels it reads.
LEMMA BelowThrough ==
  ASSUME Wired(graph), NEW t \in Stages, NEW u \in Below(t), u # t
  PROVE  \E c \in In(u) : Producer(c) \in Below(t)
<1>. DEFINE P(x) == \A y \in Below(x) : y # x => \E c \in In(y) : Producer(c) \in Below(x)
            Bad == {x \in Stages : ~P(x)}
<1>1. SUFFICES ASSUME Bad # {} PROVE FALSE
  <2>1. P(t)
    BY <1>1
  <2>. QED
    BY <2>1
<1>2. PICK x \in Bad : \A y \in Bad : y <= x
  <2>1. Bad \subseteq Stages
    OBVIOUS
  <2>. HIDE DEF Bad
  <2>. QED
    BY <1>1, <2>1, LastOf
<1>3. x \in Stages /\ ~P(x)
  OBVIOUS
<1>4. PICK y \in Below(x) : y # x /\ ~\E c \in In(y) : Producer(c) \in Below(x)
  BY <1>3
<1>5. PICK c \in Out(x) : y \in Below(Reader(c))
  BY <1>3, <1>4, BelowIs
<1>6. c \in Channels /\ Producer(c) = x
  BY <1>3, InAndOut
<1>7. /\ Reader(c) \in Stages /\ c \in In(Reader(c))
      /\ x < Reader(c) /\ x \in Nat /\ Reader(c) \in Nat
  BY <1>6, Ends
<1>8. P(Reader(c))
  <2>1. ~(Reader(c) \in Bad)
    <3>. HIDE DEF Bad
    <3>. QED
      BY <1>2, <1>7
  <2>. HIDE DEF P
  <2>. QED
    BY <1>7, <2>1
<1>9. x \in Below(x) /\ Below(Reader(c)) \subseteq Below(x)
  BY <1>3, BelowIs
<1>10. CASE y = Reader(c)
  BY <1>4, <1>6, <1>7, <1>9, <1>10
<1>11. CASE y # Reader(c)
  <2>1. PICK d \in In(y) : Producer(d) \in Below(Reader(c))
    BY <1>5, <1>8, <1>11
  <2>. QED
    BY <1>4, <1>9, <2>1
<1>. QED
  BY <1>10, <1>11

\* Stages are numbered from upstream to downstream.
LEMMA BelowIsLater ==
  ASSUME Wired(graph), NEW t \in Stages, NEW u \in Below(t)
  PROVE  t <= u
<1>. DEFINE P(x) == \A y \in Below(x) : x <= y
            Bad == {x \in Stages : ~P(x)}
<1>1. SUFFICES ASSUME Bad # {} PROVE FALSE
  <2>1. P(t)
    BY <1>1
  <2>. QED
    BY <2>1
<1>2. PICK x \in Bad : \A y \in Bad : y <= x
  <2>1. Bad \subseteq Stages
    OBVIOUS
  <2>. HIDE DEF Bad
  <2>. QED
    BY <1>1, <2>1, LastOf
<1>3. x \in Stages /\ ~P(x)
  OBVIOUS
<1>4. PICK y \in Below(x) : ~(x <= y)
  BY <1>3
<1>5. \A z \in Stages : z \in Nat
  BY StageForm
<1>6. y \in Nat /\ x \in Nat /\ y # x
  BY <1>3, <1>4, <1>5, BelowIs
<1>7. PICK c \in Out(x) : y \in Below(Reader(c))
  BY <1>3, <1>6, BelowIs
<1>8. c \in Channels /\ Producer(c) = x
  BY <1>3, InAndOut
<1>9. Reader(c) \in Stages /\ x < Reader(c) /\ Reader(c) \in Nat
  BY <1>8, Ends
<1>10. P(Reader(c))
  <2>1. ~(Reader(c) \in Bad)
    <3>. HIDE DEF Bad
    <3>. QED
      BY <1>2, <1>6, <1>9
  <2>. HIDE DEF P
  <2>. QED
    BY <1>9, <2>1
<1>11. Reader(c) <= y
  BY <1>7, <1>10
<1>. QED
  BY <1>4, <1>6, <1>9, <1>11

\* The reader of a channel is below its producer, and not the other way round.
LEMMA ChannelBelow ==
  ASSUME Wired(graph), NEW c \in Channels
  PROVE  /\ Reader(c) \in Below(Producer(c)) /\ Below(Reader(c)) \subseteq Below(Producer(c))
         /\ Producer(c) \in Below(Producer(c)) /\ Reader(c) \in Below(Reader(c))
         /\ Producer(c) \notin Below(Reader(c))
<1>1. /\ Producer(c) \in Stages /\ Reader(c) \in Stages /\ c \in Out(Producer(c))
      /\ Producer(c) < Reader(c) /\ Producer(c) \in Nat /\ Reader(c) \in Nat
  BY Ends
<1>2. Producer(c) \notin Below(Reader(c))
  BY <1>1, BelowIsLater
<1>. QED
  BY <1>1, <1>2, BelowIs

-----------------------------------------------------------------------------
(* Where the elements are.  *)

\* Map changes the sign of a number.
Size(e)       == IF e.n < 0 THEN -e.n ELSE e.n
Earlier(e, f) == e.gen = f.gen => Size(e) < Size(f)

\* In the buffer of a channel, or next to be sent to it.
InBuf(c, e)  == \E i \in DOMAIN buf[c] : buf[c][i] = e
InTodo(c, e) == \E i \in DOMAIN stage[Producer(c)].todo : stage[Producer(c)].todo[i] = <<c, e>>
At(c, e)     == InBuf(c, e) \/ InTodo(c, e)

\* What stage s sends, to which channels, of an element with number n: `open' are
\* the children of a repeater that it is sure to send to.  A limit and a
\* chargenSource count, an overflow may drop it: of those nothing is said.
Forwards(s, n, d, m, open) ==
  CASE Kind(s) \in {"do", "buffer", "valve", "throttle", "tickerSource", "tee", "copy"} \cup Mergers -> m = n
    [] Kind(s) = "map"      -> m = -n
    [] Kind(s) = "filter"   -> n \in graph[s].keep /\ m = n
    [] Kind(s) = "split"    -> d = graph[s].out[IF n \in graph[s].keep THEN 1 ELSE 2] /\ m = n
    [] Kind(s) = "repeater" -> d \in open /\ m = n
    [] OTHER                -> FALSE

\* What is sent is the element, its sign aside, and once to each channel.
Sends(q, e) ==
  /\ \A i \in DOMAIN q : q[i][2].gen = e.gen /\ Size(q[i][2]) = Size(e)
  /\ \A i, j \in DOMAIN q : i # j => q[i][1] # q[j][1]

\* Everything but the one that is taken out is left, in its order.
LEMMA RemovedLeaves ==
  ASSUME NEW S, NEW q \in Seq(S), NEW i \in DOMAIN q
  PROVE  LET r == RemoveAt(q, i)
         IN /\ \A k \in DOMAIN q : k # i => \E j \in DOMAIN r : r[j] = q[k]
            /\ \A j \in DOMAIN r : \E k \in DOMAIN q : k # i /\ r[j] = q[k]
            /\ \A j, l \in DOMAIN r : j # l => \E k, m \in DOMAIN q : k # m /\ r[j] = q[k] /\ r[l] = q[m]
<1>. DEFINE r == RemoveAt(q, i)
            n == Len(q)
            at(j) == IF j < i THEN j ELSE j + 1
<1>1. /\ r \in Seq(S) /\ DOMAIN r = 1 .. n - 1 /\ n \in Nat /\ i \in 1 .. n /\ DOMAIN q = 1 .. n
      /\ \A j \in 1 .. n - 1 : r[j] = IF j < i THEN q[j] ELSE q[j + 1]
  BY RemovedIs
<1>. HIDE DEF r, n
<1>2. \A j \in DOMAIN r : at(j) \in DOMAIN q /\ at(j) # i /\ r[j] = q[at(j)]
  BY <1>1
<1>3. \A j, l \in DOMAIN r : j # l => at(j) # at(l)
  BY <1>1
<1>4. ASSUME NEW k \in DOMAIN q, k # i PROVE \E j \in DOMAIN r : r[j] = q[k]
  <2>1. CASE k < i
    <3>1. k \in DOMAIN r /\ r[k] = q[k]
      BY <1>1, <2>1
    <3>. QED
      BY <3>1
  <2>2. CASE k > i
    <3>1. k - 1 \in DOMAIN r /\ r[k - 1] = q[k]
      BY <1>1, <2>2
    <3>. QED
      BY <3>1
  <2>. QED
    BY <1>1, <1>4, <2>1, <2>2
<1>. HIDE DEF at
<1>5. \A j \in DOMAIN r : \E k \in DOMAIN q : k # i /\ r[j] = q[k]
  BY <1>2
<1>6. \A j, l \in DOMAIN r : j # l => \E k, m \in DOMAIN q : k # m /\ r[j] = q[k] /\ r[l] = q[m]
  BY <1>2, <1>3
<1>. QED
  BY <1>4, <1>5, <1>6 DEF r

\* SetToSeq lists the children, each once.
LEMMA ChildrenOnce ==
  ASSUME Wired(graph), NEW s \in Stages
  PROVE  LET q == SetToSeq(Children(s))
         IN /\ \A i, j \in DOMAIN q : i # j => q[i] # q[j]
            /\ \A c \in Children(s) : \E i \in DOMAIN q : q[i] = c
<1>. DEFINE q == graph[s].out
            S == Children(s)
            n == Cardinality(S)
<1>1. q \in Seq(Nat \ {0}) /\ Out(s) = ToSet(q)
  BY StageForm DEF Out
<1>2. IsFiniteSet(Out(s))
  <2>1. q \in Surjection(1 .. Len(q), ToSet(q)) /\ Len(q) \in Nat
    BY <1>1 DEF Surjection, ToSet
  <2>2. ExistsSurjection(1 .. Len(q), ToSet(q))
    BY <2>1 DEF ExistsSurjection
  <2>. QED
    BY <1>1, <2>1, <2>2, FS_NatSurjection
<1>3. IsFiniteSet(S)
  BY <1>2, FS_Subset DEF Children
<1>. HIDE DEF S
<1>4. n \in Nat /\ ExistsBijection(1 .. n, S)
  BY <1>3, FS_CardinalityType
<1>. HIDE DEF n
<1>5. PICK f : f \in Bijection(1 .. n, S)
  BY <1>4 DEF ExistsBijection
<1>6. f \in [1 .. n -> S] /\ IsInjective(f)
  BY <1>5 DEF Bijection, Injection, IsInjective
<1>. DEFINE g == SetToSeq(S)
<1>7. g \in [1 .. n -> S] /\ IsInjective(g)
  BY <1>6 DEF SetToSeq, n
<1>. HIDE DEF g
<1>8. \A i, j \in DOMAIN g : i # j => g[i] # g[j]
  BY <1>7 DEF IsInjective
<1>9. \A c \in S : \E i \in DOMAIN g : g[i] = c
  <2>1. g \in Injection(1 .. n, S)
    BY <1>7, <1>8 DEF Injection, IsInjective
  <2>2. IsFiniteSet(1 .. n) /\ Cardinality(1 .. n) = n
    BY <1>4, FS_Interval
  <2>3. g \in Surjection(1 .. n, S)
    BY <1>3, <2>1, <2>2, FS_Injection DEF n
  <2>. QED
    BY <1>7, <2>3 DEF Surjection
<1>. QED
  BY <1>8, <1>9 DEF g, S

\* Kinds of stages that send to one channel, or to one of two.
Plain == {"do", "buffer", "overflow", "valve", "throttle", "limit", "tickerSource", "chargenSource",
          "filter", "map", "split"} \cup Mergers

\* Sending one element, as it is or with its sign changed.
LEMMA OneSent ==
  ASSUME NEW c, NEW d, NEW e, d.gen = e.gen, Size(d) = Size(e)
  PROVE  Sends(<<To(c, d)>>, e)
<1>. DEFINE q == <<To(c, d)>>
<1>1. DOMAIN q = {1} /\ q[1][2] = d
  BY DEF To
<1>. HIDE DEF q
<1>2. Sends(q, e)
  BY <1>1 DEF Sends
<1>. QED
  BY <1>2 DEF q

\* What Map makes of an element.
LEMMA Negated ==
  ASSUME NEW e \in Item
  PROVE  LET d == [e EXCEPT !.n = -@]
         IN d \in Item /\ d = [gen |-> e.gen, n |-> -e.n] /\ d.gen = e.gen /\ Size(d) = Size(e)
<1>1. e.n \in Int /\ e.gen \in Nat /\ e = [gen |-> e.gen, n |-> e.n]
  BY DEF Item
<1>2. [e EXCEPT !.n = -@] = [gen |-> e.gen, n |-> -e.n]
  BY <1>1
<1>. QED
  BY <1>1, <1>2 DEF Size, Item

\* What a stage does with an element: it sends it on, its sign aside, to some
\* channels, once to each.
LEMMA TodoSends ==
  ASSUME ProgramInv, NEW s \in Stages, stage[s].pc = "run", NEW e \in Item
  PROVE  Sends(TodoOf(s, e), e)
<1>. DEFINE To1 == graph[s].out[1]
            To2 == graph[s].out[2]
            neg == [e EXCEPT !.n = -@]
<1>1. Wired(graph) /\ Kind(s) \in Kinds
  BY GraphIsWired, StageForm DEF ProgramInv
<1>2. Sends(<<>>, e)
  BY DEF Sends
<1>3. CASE Kind(s) \in Plain
  <2>1. TodoOf(s, e) \in {<<To(To1, e)>>, <<To(To2, e)>>, <<To(To1, neg)>>, <<>>}
    BY <1>3 DEF TodoOf, Mapped, Filtered, SplitTo, Mergers, Plain
  <2>2. neg.gen = e.gen /\ Size(neg) = Size(e)
    BY Negated
  <2>. HIDE DEF neg
  <2>3. Sends(<<To(To1, e)>>, e) /\ Sends(<<To(To2, e)>>, e) /\ Sends(<<To(To1, neg)>>, e)
    BY <2>2, OneSent
  <2>. QED
    BY <1>2, <2>1, <2>3
<1>4. CASE Kind(s) \in {"tee", "copy"}
  <2>. DEFINE q == graph[s].out
  <2>1. IsInjective(q)
    BY <1>1 DEF Wired, Stages
  <2>2. TodoOf(s, e) = [i \in DOMAIN q |-> To(q[i], e)]
    BY <1>4 DEF TodoOf, Copies, Mergers
  <2>. HIDE DEF q
  <2>3. \A i, j \in DOMAIN q : i # j => q[i] # q[j]
    BY <2>1 DEF IsInjective
  <2>. QED
    BY <2>2, <2>3 DEF To, Sends
<1>5. CASE Kind(s) = "repeater"
  <2>. DEFINE q == SetToSeq(Children(s))
  <2>1. \A i, j \in DOMAIN q : i # j => q[i] # q[j]
    BY <1>1, ChildrenOnce
  <2>2. TodoOf(s, e) = [i \in DOMAIN q |-> To(q[i], e)]
    BY <1>5 DEF TodoOf, ToChildren, Mergers
  <2>. HIDE DEF q
  <2>. QED
    BY <2>1, <2>2 DEF To, Sends
<1>6. CASE Kind(s) \in Terminators \cup Generators
  <2>1. TodoOf(s, e) = <<>>
    BY <1>6 DEF TodoOf, Mergers, Terminators, Generators
  <2>. QED
    BY <1>2, <2>1
<1>. QED
  BY <1>1, <1>3, <1>4, <1>5, <1>6 DEF Kinds, Sources, Operators, Plain

\* ... and where it is sure to.
LEMMA TodoForwards ==
  ASSUME ProgramInv, NEW s \in Stages, stage[s].pc = "run", NEW e \in Item,
         NEW open, open \cap Out(s) \subseteq Children(s),
         NEW d \in Out(s), NEW m, Forwards(s, e.n, d, m, open)
  PROVE  LET q == TodoOf(s, e) IN \E i \in DOMAIN q : q[i] = <<d, [gen |-> e.gen, n |-> m]>>
<1>. DEFINE To1 == graph[s].out[1]
            To2 == graph[s].out[2]
            f == [gen |-> e.gen, n |-> m]
            Has(q) == \E i \in DOMAIN q : q[i] = <<d, f>>
<1>1. Wired(graph) /\ Kind(s) \in Kinds
  BY GraphIsWired, StageForm DEF ProgramInv
<1>2. e = [gen |-> e.gen, n |-> e.n]
  BY DEF Item
<1>3. Has(<<To(d, f)>>)
  <2>1. DOMAIN <<To(d, f)>> = {1} /\ <<To(d, f)>>[1] = <<d, f>>
    BY DEF To
  <2>. QED
    BY <2>1
<1>4. CASE Kind(s) \in {"do", "buffer", "valve", "throttle", "tickerSource"} \cup Mergers
  <2>1. d = To1
    BY <1>1, <1>4, Shapes DEF Mergers, Terminators
  <2>2. e = f
    BY <1>2, <1>4 DEF Forwards, Mergers
  <2>3. TodoOf(s, e) = <<To(To1, e)>>
    BY <1>4 DEF TodoOf, Mergers
  <2>. HIDE DEF Has, f
  <2>4. Has(TodoOf(s, e))
    BY <1>3, <2>1, <2>2, <2>3
  <2>. QED
    BY <2>4 DEF Has, f
<1>5. CASE Kind(s) = "map"
  <2>1. d = To1
    BY <1>1, <1>5, Shapes DEF Mergers, Terminators
  <2>2. m = -e.n
    BY <1>5 DEF Forwards, Mergers
  <2>3. [e EXCEPT !.n = -@] = f
    BY <2>2, Negated
  <2>4. TodoOf(s, e) = <<To(To1, [e EXCEPT !.n = -@])>>
    BY <1>5 DEF TodoOf, Mapped, Mergers
  <2>. HIDE DEF Has, f
  <2>5. Has(TodoOf(s, e))
    BY <1>3, <2>1, <2>3, <2>4
  <2>. QED
    BY <2>5 DEF Has, f
<1>6. CASE Kind(s) = "filter"
  <2>1. d = To1
    BY <1>1, <1>6, Shapes DEF Mergers, Terminators
  <2>2. e = f /\ e.n \in graph[s].keep
    BY <1>2, <1>6 DEF Forwards, Mergers
  <2>3. TodoOf(s, e) = <<To(To1, e)>>
    BY <1>6, <2>2 DEF TodoOf, Filtered, Mergers
  <2>. HIDE DEF Has, f
  <2>4. Has(TodoOf(s, e))
    BY <1>3, <2>1, <2>2, <2>3
  <2>. QED
    BY <2>4 DEF Has, f
<1>7. CASE Kind(s) = "split"
  <2>1. e = f /\ d = graph[s].out[IF e.n \in graph[s].keep THEN 1 ELSE 2]
    BY <1>2, <1>7 DEF Forwards, Mergers
  <2>2. TodoOf(s, e) = <<To(graph[s].out[IF e.n \in graph[s].keep THEN 1 ELSE 2], e)>>
    BY <1>7 DEF TodoOf, SplitTo, Mergers
  <2>. HIDE DEF Has, f
  <2>4. Has(TodoOf(s, e))
    BY <1>3, <2>1, <2>2
  <2>. QED
    BY <2>4 DEF Has, f
<1>8. CASE Kind(s) \in {"tee", "copy"}
  <2>. DEFINE q == graph[s].out
  <2>1. PICK i \in DOMAIN q : q[i] = d
    BY DEF Out, ToSet
  <2>2. TodoOf(s, e) = [j \in DOMAIN q |-> To(q[j], e)]
    BY <1>8 DEF TodoOf, Copies, Mergers
  <2>3. e = f
    BY <1>2, <1>8 DEF Forwards, Mergers
  <2>. HIDE DEF q, f
  <2>4. Has(TodoOf(s, e))
    BY <2>1, <2>2, <2>3 DEF To
  <2>. QED
    BY <2>4 DEF f
<1>9. CASE Kind(s) = "repeater"
  <2>. DEFINE q == SetToSeq(Children(s))
  <2>1. e = f /\ d \in Children(s)
    BY <1>2, <1>9 DEF Forwards, Mergers
  <2>2. PICK i \in DOMAIN q : q[i] = d
    BY <1>1, <2>1, ChildrenOnce
  <2>3. TodoOf(s, e) = [j \in DOMAIN q |-> To(q[j], e)]
    BY <1>9 DEF TodoOf, ToChildren, Mergers
  <2>. HIDE DEF q, f
  <2>4. Has(TodoOf(s, e))
    BY <2>1, <2>2, <2>3 DEF To
  <2>. QED
    BY <2>4 DEF f
<1>. QED
  BY <1>4, <1>5, <1>6, <1>7, <1>8, <1>9 DEF Forwards

-----------------------------------------------------------------------------
(* What a step does with the elements. *)

\* Nothing, but that an overflow drops one, or an iota that was told to stop.
Rests ==
  /\ buf' = buf /\ got' = got
  /\ \A s \in Stages :
       /\ stage'[s].count = stage[s].count
       /\ \/ stage'[s].todo = stage[s].todo
          \/ /\ stage'[s].todo = <<>>
             /\ \/ Kind(s) = "overflow"
                \/ Kind(s) = "iota" /\ graph[s].out[1] \in closedCtrl /\ stage'[s].pc = "done"

\* A generator makes one.
Makes(s) ==
  /\ buf' = buf /\ got' = got
  /\ Kind(s) \in Generators /\ stage[s].todo = <<>>
  /\ stage'[s].todo = <<To(graph[s].out[1], [gen |-> s, n |-> stage[s].count + 1])>>
  /\ stage'[s].count = stage[s].count + 1
  /\ \A t \in Stages \ {s} : stage'[t] = stage[t]

\* One is put into a buffer.
Puts(s, i) ==
  LET c == stage[s].todo[i][1]
  IN /\ Len(buf[c]) < Capacity(c)
     /\ buf' = [buf EXCEPT ![c] = Append(@, stage[s].todo[i][2])]
     /\ got' = got /\ chan' = chan
     /\ stage'[s].todo = RemoveAt(stage[s].todo, i) /\ stage'[s].count = stage[s].count
     /\ \A t \in Stages \ {s} : stage'[t] = stage[t]

\* One is taken, from a buffer or from who sends it.
Takes(r, c, e) ==
  LET p == Producer(c)
  IN /\ stage[r].todo = <<>> /\ stage[r].pc = "run"
     /\ stage'[r].todo = TodoOf(r, e) /\ stage'[r].count = stage[r].count + 1
     /\ got' = Noted(r, e)
     /\ \/ /\ buf[c] # <<>> /\ e = Head(buf[c]) /\ buf' = [buf EXCEPT ![c] = Tail(@)]
           /\ \A t \in Stages \ {r} : stage'[t] = stage[t]
        \/ /\ Capacity(c) = 0 /\ buf' = buf
           /\ \E i \in DOMAIN stage[p].todo : /\ stage[p].todo[i] = <<c, e>>
                                              /\ stage'[p].todo = RemoveAt(stage[p].todo, i)
           /\ stage'[p].count = stage[p].count
           /\ \A t \in Stages \ {r, p} : stage'[t] = stage[t]

\* Send puts an element into a buffer.
LEMMA SendPuts ==
  ASSUME ProgramInv, NEW s \in Stages, Send(s)
  PROVE  graph' = graph /\ \E i \in DOMAIN stage[s].todo : Puts(s, i)
<1>1. PICK i \in Next1(s) :
        LET c == stage[s].todo[i][1]
        IN /\ CanSend(s, i)
           /\ buf' = [buf EXCEPT ![c] = Append(@, stage[s].todo[i][2])]
           /\ stage' = [stage EXCEPT ![s].todo = RemoveAt(@, i)]
           /\ UNCHANGED <<graph, chan, closedCtrl, since, got>>
  BY DEF Send
<1>. DEFINE r == RemoveAt(stage[s].todo, i)
<1>2. i \in DOMAIN stage[s].todo
  BY DEF Next1
<1>3. stage[s] \in StageState /\ stage[s].todo \in Seq(Nat \X Item)
  BY StageTypes
<1>4. r \in Seq(Nat \X Item)
  BY <1>2, <1>3, Removed
<1>5. stage' = [stage EXCEPT ![s] = [stage[s] EXCEPT !.todo = r]]
  BY <1>1
<1>. HIDE DEF r
<1>6. /\ stage'[s] = [stage[s] EXCEPT !.todo = r]
      /\ \A t \in Stages : t # s => stage'[t] = stage[t]
  BY <1>3, <1>4, <1>5, UpdatedTodo, Changed
<1>7. stage'[s].todo = r /\ stage'[s].count = stage[s].count
  BY <1>3, <1>4, <1>6, UpdatedTodo
<1>8. Len(buf[stage[s].todo[i][1]]) < Capacity(stage[s].todo[i][1])
  BY <1>1 DEF CanSend
<1>9. Puts(s, i)
  BY <1>1, <1>6, <1>7, <1>8 DEF Puts, r
<1>. QED
  BY <1>1, <1>2, <1>9

\* A stage that takes an element has then to send what it makes of it.
LEMMA TakenIs ==
  ASSUME ProgramInv, NEW s \in Stages, NEW c, Ready(s, c), NEW e \in Item
  PROVE  /\ Taken(s, e) \in StageState /\ Taken(s, e).todo = TodoOf(s, e)
         /\ Taken(s, e).count = stage[s].count + 1
         /\ stage[s].todo = <<>> /\ stage[s].pc = "run"
<1>1. stage[s].pc = "run" /\ stage[s].todo = <<>> /\ stage[s] \in StageState
  BY StageTypes DEF Ready, AtSelect
<1>2. TodoOf(s, e) \in Seq(Nat \X Item)
  BY <1>1, TodoForm
<1>3. Taken(s, e) = Counted(stage[s], TodoOf(s, e))
  BY DEF Taken, Counted
<1>. QED
  BY <1>1, <1>2, <1>3, UpdatedCount

\* HandOver lets the reader take an element from who sends it.
LEMMA HandOverTakes ==
  ASSUME ProgramInv, NEW s \in Stages, HandOver(s)
  PROVE  graph' = graph /\ \E r \in Stages : \E c \in In(r), e \in Item : Takes(r, c, e)
<1>1. PICK i \in Next1(s) :
        LET c == stage[s].todo[i][1]
            e == stage[s].todo[i][2]
            r == Reader(c)
        IN /\ CanHandOver(s, i)
           /\ stage' = [stage EXCEPT ![s].todo = RemoveAt(@, i), ![r] = Taken(r, e)]
           /\ got' = Noted(r, e)
           /\ UNCHANGED <<graph, buf, chan, closedCtrl, since>>
  BY DEF HandOver
<1>. DEFINE q == stage[s].todo
            left == RemoveAt(q, i)
            c == q[i][1]
            e == q[i][2]
            r == Reader(c)
<1>2. i \in DOMAIN q
  BY DEF Next1
<1>3. /\ stage[s] \in StageState /\ q \in Seq(Nat \X Item)
      /\ q[i] \in Nat \X Item /\ c \in Channels /\ Producer(c) = s /\ Wired(graph)
  <2>1. q # <<>>
    BY <1>2
  <2>. QED
    BY <1>2, <2>1, StageTypes
<1>4. left \in Seq(Nat \X Item) /\ q[i] = <<c, e>>
  <2>1. q[i] = <<c, e>>
    BY <1>3
  <2>. HIDE DEF q
  <2>. QED
    BY <1>2, <1>3, <2>1, Removed
<1>5. Ready(r, c) /\ stage' = [stage EXCEPT ![s].todo = left, ![r] = Taken(r, e)] /\ got' = Noted(r, e)
  BY <1>1 DEF CanHandOver
<1>6. r \in Stages /\ r # s /\ e \in Item /\ c \in In(r)
  BY <1>3, Ends
<1>7. Capacity(c) = 0
  BY <1>1 DEF CanHandOver
<1>8. left = RemoveAt(stage[s].todo, i) /\ stage[s].todo[i] = <<c, e>> /\ i \in DOMAIN stage[s].todo
  BY <1>2, <1>4
<1>. HIDE DEF q, left, c, e, r
<1>9. stage \in [Stages -> StageState]
  BY DEF ProgramInv, ProgramTypeOK
<1>10. [stage[s] EXCEPT !.todo = left] \in StageState
  BY <1>3, <1>4, UpdatedTodo
<1>11. stage' = [stage EXCEPT ![s] = [stage[s] EXCEPT !.todo = left], ![r] = Taken(r, e)]
  BY <1>5, <1>6, <1>9
<1>12. /\ stage'[s] = [stage[s] EXCEPT !.todo = left] /\ stage'[r] = Taken(r, e)
       /\ \A t \in Stages \ {r, s} : stage'[t] = stage[t]
  BY <1>6, <1>9, <1>10, <1>11
<1>13. stage'[s].todo = left /\ stage'[s].count = stage[s].count
  BY <1>3, <1>4, <1>12, UpdatedTodo
<1>14. /\ stage'[r].todo = TodoOf(r, e) /\ stage'[r].count = stage[r].count + 1
       /\ stage[r].todo = <<>> /\ stage[r].pc = "run"
  BY <1>5, <1>6, <1>12, TakenIs
<1>15. Takes(r, c, e)
  <2>1. buf' = buf /\ Producer(c) = s
    BY <1>1, <1>3
  <2>2. \E k \in DOMAIN stage[s].todo : /\ stage[s].todo[k] = <<c, e>>
                                       /\ stage'[s].todo = RemoveAt(stage[s].todo, k)
    BY <1>8, <1>13
  <2>3. /\ stage[r].todo = <<>> /\ stage[r].pc = "run"
        /\ stage'[r].todo = TodoOf(r, e) /\ stage'[r].count = stage[r].count + 1
        /\ got' = Noted(r, e)
    BY <1>5, <1>14
  <2>4. stage'[s].count = stage[s].count /\ \A t \in Stages \ {r, s} : stage'[t] = stage[t]
    BY <1>12, <1>13
  <2>. QED
    BY <1>7, <2>1, <2>2, <2>3, <2>4 DEF Takes
<1>. QED
  BY <1>1, <1>6, <1>15

\* Receive takes an element from a buffer.
LEMMA ReceiveTakes ==
  ASSUME ProgramInv, NEW s \in Stages, NEW c \in In(s), Receive(s, c)
  PROVE  graph' = graph /\ \E e \in Item : Takes(s, c, e)
<1>. DEFINE e == Head(buf[c])
<1>1. /\ Ready(s, c) /\ buf[c] # <<>> /\ buf' = [buf EXCEPT ![c] = Tail(@)]
      /\ stage' = [stage EXCEPT ![s] = Taken(s, e)] /\ got' = Noted(s, e)
      /\ UNCHANGED <<graph, chan, closedCtrl, since>>
  BY DEF Receive, CanReceive
<1>2. c \in Channels
  BY StageTypes, InAndOut
<1>3. stage \in [Stages -> StageState] /\ buf \in [Channels -> Seq(Item)]
  BY DEF ProgramInv, ProgramTypeOK
<1>4. e \in Item
  BY <1>1, <1>2, <1>3
<1>5. e = Head(buf[c])
  OBVIOUS
<1>. HIDE DEF e
<1>6. /\ Taken(s, e) \in StageState /\ Taken(s, e).todo = TodoOf(s, e)
      /\ Taken(s, e).count = stage[s].count + 1
      /\ stage[s].todo = <<>> /\ stage[s].pc = "run"
  BY <1>1, <1>4, TakenIs
<1>7. stage'[s] = Taken(s, e) /\ \A t \in Stages \ {s} : stage'[t] = stage[t]
  BY <1>1, <1>3
<1>8. Takes(s, c, e)
  BY <1>1, <1>5, <1>6, <1>7 DEF Takes
<1>. QED
  BY <1>1, <1>4, <1>8

\* Generate makes an element.
LEMMA GenerateMakes ==
  ASSUME ProgramInv, NEW s \in Stages, Generate(s)
  PROVE  graph' = graph /\ Makes(s)
<1>. DEFINE q == <<To(graph[s].out[1], [gen |-> s, n |-> stage[s].count + 1])>>
<1>1. /\ stage' = [stage EXCEPT ![s].todo = q, ![s].count = @ + 1]
      /\ Kind(s) \in Generators /\ stage[s].todo = <<>> /\ stage[s].pc = "run"
      /\ UNCHANGED <<graph, buf, chan, closedCtrl, since, got>>
  BY DEF Generate, CanGenerate, AtSelect
<1>2. stage[s] \in StageState /\ s \in Nat /\ Wired(graph)
  BY StageTypes
<1>3. q \in Seq(Nat \X Item)
  <2>1. Kind(s) \notin Terminators \cup {"split", "tee", "copy", "repeater"}
    BY <1>1 DEF Generators, Terminators
  <2>2. graph[s].out[1] \in Out(s)
    BY <1>2, <2>1, Shapes
  <2>3. graph[s].out[1] \in Nat /\ stage[s].count + 1 \in Int
    BY <1>2, <2>2, StageForm DEF StageState
  <2>4. To(graph[s].out[1], [gen |-> s, n |-> stage[s].count + 1]) \in Nat \X Item
    BY <1>2, <2>3 DEF To, Item
  <2>. QED
    BY <2>4
<1>4. q = <<To(graph[s].out[1], [gen |-> s, n |-> stage[s].count + 1])>>
  OBVIOUS
<1>. HIDE DEF q
<1>. DEFINE x == Counted(stage[s], q)
<1>5. stage \in [Stages -> StageState]
  BY DEF ProgramInv, ProgramTypeOK
<1>6. stage' = [stage EXCEPT ![s] = x]
  BY <1>1, <1>5 DEF Counted
<1>7. x \in StageState /\ x.todo = q /\ x.count = stage[s].count + 1
  BY <1>2, <1>3, UpdatedCount
<1>. HIDE DEF x
<1>8. stage'[s] = x /\ \A t \in Stages : t # s => stage'[t] = stage[t]
  BY <1>6, <1>7, Changed
<1>. QED
  BY <1>1, <1>4, <1>7, <1>8 DEF Makes

\* Stage s alone changes, and leaves what it has to send.
LEMMA Unmoved ==
  ASSUME ProgramInv, NEW s \in Stages, NEW x \in StageState, stage' = [stage EXCEPT ![s] = x],
         buf' = buf, got' = got, x.count = stage[s].count,
         \/ x.todo = stage[s].todo
         \/ /\ x.todo = <<>>
            /\ \/ Kind(s) = "overflow"
               \/ Kind(s) = "iota" /\ graph[s].out[1] \in closedCtrl /\ x.pc = "done"
  PROVE  Rests
<1>1. stage'[s] = x /\ \A t \in Stages : t # s => stage'[t] = stage[t]
  BY Changed
<1>. QED
  BY <1>1 DEF Rests

\* A stage that returns moves no element, and gives up one if it is an iota.
LEMMA ReturnRests ==
  ASSUME ProgramInv, NEW s \in Stages, NEW closes, Return(s, closes), buf' = buf, got' = got,
         stage[s].todo = <<>> \/ (Kind(s) = "iota" /\ graph[s].out[1] \in closedCtrl)
  PROVE  Rests
<1>. DEFINE x == [stage[s] EXCEPT !.pc = "done", !.todo = <<>>]
<1>1. stage' = [stage EXCEPT ![s] = x]
  BY DEF Return
<1>2. <<>> \in Todos /\ stage[s] \in StageState
  BY StageTypes DEF Todos
<1>3. x \in StageState /\ x.todo = <<>> /\ x.count = stage[s].count /\ x.pc = "done"
  BY <1>2 DEF StageState
<1>. HIDE DEF x
<1>. QED
  BY <1>1, <1>3, Unmoved

\* An overflow that drops an element moves no other.
LEMMA DropRests ==
  ASSUME ProgramInv, NEW s \in Stages, Drop(s)
  PROVE  Rests
<1>. DEFINE x == [stage[s] EXCEPT !.todo = <<>>]
<1>1. stage' = [stage EXCEPT ![s] = x] /\ Kind(s) = "overflow" /\ buf' = buf /\ got' = got
  BY DEF Drop, CanDrop
<1>2. <<>> \in Todos /\ stage[s] \in StageState
  BY StageTypes DEF Todos
<1>3. x \in StageState /\ x.todo = <<>> /\ x.count = stage[s].count
  BY <1>2 DEF StageState
<1>. HIDE DEF x
<1>. QED
  BY <1>1, <1>3, Unmoved

\* Neither does a stage that stops looking at an input, or tells it to stop.
LEMMA InputsRest ==
  ASSUME ProgramInv, NEW s \in Stages,
         (\E c \in In(s) : DropInput(s, c)) \/ RelayStop(s) \/ CloseRepeater(s) \/ EndChildren(s)
  PROVE  Rests
<1>1. stage[s] \in StageState /\ s \in Nat
  BY StageTypes
<1>2. ASSUME NEW c \in In(s), DropInput(s, c) PROVE Rests
  <2>. DEFINE left == stage[s].active \ {c}
              end  == left = {} /\ (Kind(s) = "join" \/ ~stage[s].ctrl)
              x == [stage[s] EXCEPT !.active = left, !.pc = IF end THEN "done" ELSE @]
  <2>1. stage' = [stage EXCEPT ![s] = x] /\ buf' = buf /\ got' = got
    BY <1>2 DEF DropInput
  <2>2. left \subseteq Nat
    BY <1>1 DEF StageState
  <2>. HIDE DEF left, end
  <2>3. x \in StageState /\ x.todo = stage[s].todo /\ x.count = stage[s].count
    BY <1>1, <2>2 DEF StageState
  <2>. HIDE DEF x
  <2>. QED
    BY <2>1, <2>3, Unmoved
<1>3. CASE RelayStop(s)
  <2>. DEFINE end == Kind(s) = "joiner" /\ stage[s].active = {}
              x == [stage[s] EXCEPT !.ctrl = FALSE, !.pc = IF end THEN "done" ELSE @]
  <2>1. stage' = [stage EXCEPT ![s] = x] /\ buf' = buf /\ got' = got
    BY <1>3 DEF RelayStop, CloseInputs
  <2>. HIDE DEF end
  <2>3. x \in StageState /\ x.todo = stage[s].todo /\ x.count = stage[s].count
    BY <1>1 DEF StageState
  <2>. HIDE DEF x
  <2>. QED
    BY <2>1, <2>3, Unmoved
<1>4. CASE CloseRepeater(s)
  <2>. DEFINE x == [stage[s] EXCEPT !.ctrl = FALSE]
  <2>1. stage' = [stage EXCEPT ![s] = x] /\ buf' = buf /\ got' = got
    BY <1>4 DEF CloseRepeater, CloseInputs
  <2>3. x \in StageState /\ x.todo = stage[s].todo /\ x.count = stage[s].count
    BY <1>1 DEF StageState
  <2>. HIDE DEF x
  <2>. QED
    BY <2>1, <2>3, Unmoved
<1>5. CASE EndChildren(s)
  <2>. DEFINE x == [stage[s] EXCEPT !.active = {}]
  <2>1. stage' = [stage EXCEPT ![s] = x] /\ buf' = buf /\ got' = got
    BY <1>5 DEF EndChildren
  <2>3. x \in StageState /\ x.todo = stage[s].todo /\ x.count = stage[s].count
    BY <1>1 DEF StageState
  <2>. HIDE DEF x
  <2>. QED
    BY <2>1, <2>3, Unmoved
<1>. QED
  BY <1>2, <1>3, <1>4, <1>5

\* Neither do the owners of the streams.
LEMMA OwnersRest ==
  ASSUME ProgramInv, OwnerStep
  PROVE  graph' = graph /\ Rests
<1>1. ASSUME NEW s \in Stages, NEW on \in BOOLEAN, Turn(s, on) PROVE graph' = graph /\ Rests
  <2>. DEFINE x == [stage[s] EXCEPT !.on = on]
  <2>1. stage' = [stage EXCEPT ![s] = x] /\ buf' = buf /\ got' = got /\ graph' = graph
    BY <1>1 DEF Turn
  <2>2. stage[s] \in StageState
    BY StageTypes
  <2>3. x \in StageState /\ x.todo = stage[s].todo /\ x.count = stage[s].count
    BY <2>2 DEF StageState
  <2>. HIDE DEF x
  <2>. QED
    BY <2>1, <2>3, Unmoved
<1>2. ASSUME NEW s \in Stages, Leave(s) PROVE graph' = graph /\ Rests
  <2>. DEFINE x == [stage[s] EXCEPT !.pc = "left"]
  <2>1. stage' = [stage EXCEPT ![s] = x] /\ buf' = buf /\ got' = got /\ graph' = graph
    BY <1>2 DEF Leave
  <2>2. stage[s] \in StageState
    BY StageTypes
  <2>3. x \in StageState /\ x.todo = stage[s].todo /\ x.count = stage[s].count
    BY <2>2 DEF StageState
  <2>. HIDE DEF x
  <2>. QED
    BY <2>1, <2>3, Unmoved
<1>3. ASSUME NEW s \in Stages, NEW c \in Out(s), AddChild(s, c) PROVE graph' = graph /\ Rests
  BY <1>3 DEF AddChild, Rests
<1>4. ASSUME NEW k \in Closable, CloseCtrl(k) PROVE graph' = graph /\ Rests
  BY <1>4 DEF CloseCtrl, Rests
<1>. QED
  BY <1>1, <1>2, <1>3, <1>4 DEF OwnerStep

\* Those are all the steps there are.
LEMMA StepEffect ==
  ASSUME ProgramInv, [Step]_programVars
  PROVE  /\ graph' = graph
         /\ \/ Rests
            \/ \E s \in Stages : Makes(s)
            \/ \E s \in Stages : \E i \in DOMAIN stage[s].todo : Puts(s, i)
            \/ \E r \in Stages : \E c \in In(r), e \in Item : Takes(r, c, e)
<1>. DEFINE Effect == \/ Rests
                      \/ \E s \in Stages : Makes(s)
                      \/ \E s \in Stages : \E i \in DOMAIN stage[s].todo : Puts(s, i)
                      \/ \E r \in Stages : \E c \in In(r), e \in Item : Takes(r, c, e)
<1>1. ASSUME NEW s \in Stages, StageStep(s) PROVE graph' = graph /\ Effect
  <2>1. ASSUME NEW c \in In(s), Receive(s, c) PROVE graph' = graph /\ Effect
    BY <2>1, ReceiveTakes
  <2>2. ASSUME NEW c \in Out(s), RemoveChild(s, c) PROVE graph' = graph /\ Effect
    BY <2>2 DEF RemoveChild, Rests
  <2>3. CASE Send(s)
    BY <2>3, SendPuts
  <2>4. CASE HandOver(s)
    BY <2>4, HandOverTakes
  <2>5. CASE Generate(s)
    BY <2>5, GenerateMakes
  <2>6. CASE Drop(s)
    <3>1. graph' = graph
      BY <2>6 DEF Drop
    <3>. QED
      BY <2>6, <3>1, DropRests
  <2>7. CASE Stop(s) \/ StopSource(s) \/ End(s) \/ ReachLimit(s) \/ LeaveLoop(s)
    <3>1. graph' = graph /\ buf' = buf /\ got' = got /\ \E closes : Return(s, closes)
      BY <2>7 DEF Stop, StopSource, End, ReachLimit, LeaveLoop
    <3>2. stage[s].todo = <<>> \/ (Kind(s) = "iota" /\ graph[s].out[1] \in closedCtrl)
      BY <2>7 DEF Stop, CanStop, StopSource, CanStopSource, End, CanEnd, ReachLimit, CanReachLimit,
                  LeaveLoop, CanLeaveLoop, Ready, AtSelect
    <3>. QED
      BY <3>1, <3>2, ReturnRests
  <2>8. CASE RelayStop(s) \/ CloseRepeater(s) \/ EndChildren(s)
    <3>1. graph' = graph
      BY <2>8 DEF RelayStop, CloseRepeater, EndChildren, CloseInputs
    <3>. QED
      BY <2>8, <3>1, InputsRest
  <2>9. ASSUME NEW c \in In(s), DropInput(s, c) PROVE graph' = graph /\ Effect
    <3>1. graph' = graph
      BY <2>9 DEF DropInput
    <3>. QED
      BY <2>9, <3>1, InputsRest
  <2>. QED
    BY <1>1, <2>1, <2>2, <2>3, <2>4, <2>5, <2>6, <2>7, <2>8, <2>9 DEF StageStep, GoOn
<1>2. CASE OwnerStep
  BY <1>2, OwnersRest
<1>3. CASE UNCHANGED programVars
  BY <1>3 DEF programVars, Rests
<1>. QED
  BY <1>1, <1>2, <1>3 DEF Step

-----------------------------------------------------------------------------
(* What is in the program, whatever the program is.  *)

\* Element e is one that its generator has made, its sign aside, and can have
\* come to stage s.
MadeFor(s, e) ==
  /\ e.gen \in Stages /\ Kind(e.gen) \in Generators /\ s \in Below(e.gen)
  /\ Size(e) \in 1 .. stage[e.gen].count

FlowInv ==
  /\ \A c \in Channels : Len(buf[c]) <= Capacity(c)
  /\ \A s \in Stages : \A i, j \in DOMAIN stage[s].todo : i # j => stage[s].todo[i][1] # stage[s].todo[j][1]
  /\ \A c \in Channels : \A i \in DOMAIN buf[c] : MadeFor(Producer(c), buf[c][i])
  /\ \A s \in Stages : \A i \in DOMAIN stage[s].todo : MadeFor(s, stage[s].todo[i][2])
  /\ \A s \in Stages : \A i \in DOMAIN got[s] : MadeFor(s, got[s][i])

\* Capacities and what is below are read off the graph.
LEMMA GraphStaysBelow ==
  ASSUME graph' = graph
  PROVE  /\ \A c : Capacity(c)' = Capacity(c)
         /\ \A t : Below(t)' = Below(t)
<1>1. /\ Stages' = Stages /\ Channels' = Channels
      /\ \A s : Kind(s)' = Kind(s)
      /\ \A c : Reader(c)' = Reader(c) /\ Producer(c)' = Producer(c)
  BY GraphStays
<1>2. \A c : Capacity(c)' = Capacity(c)
  BY <1>1 DEF Capacity
<1>3. {<<Producer(c), Reader(c)>> : c \in Channels}' = {<<Producer(c), Reader(c)>> : c \in Channels}
  BY <1>1
<1>4. \A t : Below(t)' = Below(t)
  BY <1>1, <1>3 DEF Below, Reached
<1>. QED
  BY <1>2, <1>4

\* What has been made stays made while counts grow.
LEMMA MadeStays ==
  ASSUME graph' = graph, NEW s, NEW e, MadeFor(s, e),
         stage[e.gen].count \in Nat, stage'[e.gen].count \in Nat, stage[e.gen].count <= stage'[e.gen].count
  PROVE  MadeFor(s, e)'
<1>1. Stages' = Stages /\ Kind(e.gen)' = Kind(e.gen) /\ Below(e.gen)' = Below(e.gen)
  BY GraphStays, GraphStaysBelow
<1>2. Size(e)' = Size(e)
  BY DEF Size
<1>3. Size(e) \in 1 .. stage[e.gen].count
  BY DEF MadeFor
<1>4. Size(e) \in 1 .. stage'[e.gen].count
  BY <1>3
<1>. QED
  BY <1>1, <1>2, <1>4 DEF MadeFor

\* Who takes an element is not who sends it, and not a generator.
LEMMA TakesFacts ==
  ASSUME ProgramInv, NEW r \in Stages, NEW c \in In(r), NEW e \in Item, Takes(r, c, e)
  PROVE  /\ c \in Channels /\ Reader(c) = r /\ Producer(c) \in Stages /\ Producer(c) # r
         /\ Kind(r) \notin Generators /\ Wired(graph) /\ c \notin Out(r)
         /\ buf[c] \in Seq(Item) /\ At(c, e)
         /\ Producer(c) \in Nat /\ r \in Nat /\ Producer(c) < r
<1>1. Wired(graph)
  BY GraphIsWired DEF ProgramInv
<1>2. c \in Channels /\ Reader(c) = r
  BY <1>1, InAndOut
<1>3. /\ Producer(c) \in Stages /\ Producer(c) < r /\ Producer(c) \in Nat /\ r \in Nat
      /\ \A s \in Stages : c \in Out(s) => s = Producer(c)
  BY <1>1, <1>2, Ends
<1>4. Kind(r) \notin Generators
  BY <1>1, Shapes
<1>5. buf[c] \in Seq(Item)
  BY <1>2 DEF ProgramInv, ProgramTypeOK
<1>6. At(c, e)
  <2>1. CASE buf[c] # <<>> /\ e = Head(buf[c])
    <3>1. 1 \in DOMAIN buf[c] /\ buf[c][1] = e
      BY <1>5, <2>1
    <3>. QED
      BY <3>1 DEF At, InBuf
  <2>2. CASE \E i \in DOMAIN stage[Producer(c)].todo : stage[Producer(c)].todo[i] = <<c, e>>
    BY <2>2 DEF At, InTodo
  <2>. QED
    BY <2>1, <2>2 DEF Takes
<1>. QED
  BY <1>1, <1>2, <1>3, <1>4, <1>5, <1>6

\* Only a terminator notes what it takes.
LEMMA NotedIs ==
  ASSUME ProgramInv, NEW r \in Stages, NEW e
  PROVE  LET g == Noted(r, e)
         IN /\ \A s \in Stages \ {r} : g[s] = got[s]
            /\ g[r] = IF Kind(r) \in Terminators THEN Append(got[r], e) ELSE got[r]
            /\ \A s \in Stages : got[s] \in Seq(Item)
<1>1. got \in [Stages -> Seq(Item)]
  BY DEF ProgramInv, ProgramTypeOK
<1>. QED
  BY <1>1 DEF Noted

\* The count of a generator never falls.
LEMMA CountsGrow ==
  ASSUME ProgramInv, [Step]_programVars, NEW g \in Stages, Kind(g) \in Generators
  PROVE  stage[g].count \in Nat /\ stage'[g].count \in Nat /\ stage[g].count <= stage'[g].count
<1>1. graph' = graph /\ ProgramInv'
  BY StepEffect, ProgramInvStep
<1>2. stage[g].count \in Nat
  BY ProgramFacts
<1>3. g \in Stages'
  BY <1>1, GraphStays
<1>4. stage'[g].count \in {stage[g].count, stage[g].count + 1}
  <2>1. CASE Rests
    BY <2>1 DEF Rests
  <2>2. ASSUME NEW s \in Stages, Makes(s) PROVE stage'[g].count \in {stage[g].count, stage[g].count + 1}
    BY <2>2 DEF Makes
  <2>3. ASSUME NEW s \in Stages, NEW i \in DOMAIN stage[s].todo, Puts(s, i)
        PROVE  stage'[g].count \in {stage[g].count, stage[g].count + 1}
    BY <2>3 DEF Puts
  <2>4. ASSUME NEW r \in Stages, NEW c \in In(r), NEW e \in Item, Takes(r, c, e)
        PROVE  stage'[g].count \in {stage[g].count, stage[g].count + 1}
    BY <2>4 DEF Takes
  <2>. QED
    BY <2>1, <2>2, <2>3, <2>4, StepEffect
<1>. QED
  BY <1>2, <1>4

\* What has been there before is still one that has been made.
LEMMA StillMade ==
  ASSUME ProgramInv, [Step]_programVars, NEW s, NEW e, MadeFor(s, e)
  PROVE  MadeFor(s, e)'
<1>1. e.gen \in Stages /\ Kind(e.gen) \in Generators
  BY DEF MadeFor
<1>2. graph' = graph
  BY StepEffect
<1>. QED
  BY <1>1, <1>2, CountsGrow, MadeStays

\* The same after a step.
MadeByNow(s, e) ==
  /\ e.gen \in Stages /\ Kind(e.gen) \in Generators /\ s \in Below(e.gen)
  /\ Size(e) \in 1 .. stage'[e.gen].count

\* What had been made before a step has been made after it.
LEMMA MadeByNowIs ==
  ASSUME ProgramInv, [Step]_programVars, NEW s, NEW e, MadeFor(s, e)
  PROVE  MadeByNow(s, e)
<1>1. e.gen \in Stages /\ Kind(e.gen) \in Generators /\ s \in Below(e.gen) /\ Size(e) \in 1 .. stage[e.gen].count
  BY DEF MadeFor
<1>2. stage[e.gen].count \in Nat /\ stage'[e.gen].count \in Nat /\ stage[e.gen].count <= stage'[e.gen].count
  BY <1>1, CountsGrow
<1>3. Size(e) \in 1 .. stage'[e.gen].count
  BY <1>1, <1>2
<1>. QED
  BY <1>1, <1>3 DEF MadeByNow

\* The invariant after a step, from what it says of the primed variables.
LEMMA FlowNext ==
  ASSUME graph' = graph,
         \A c \in Channels : Len(buf'[c]) <= Capacity(c),
         \A s \in Stages : \A i, j \in DOMAIN stage'[s].todo : i # j => stage'[s].todo[i][1] # stage'[s].todo[j][1],
         \A c \in Channels : \A i \in DOMAIN buf'[c] : MadeByNow(Producer(c), buf'[c][i]),
         \A s \in Stages : \A i \in DOMAIN stage'[s].todo : MadeByNow(s, stage'[s].todo[i][2]),
         \A s \in Stages : \A i \in DOMAIN got'[s] : MadeByNow(s, got'[s][i])
  PROVE  FlowInv'
<1>1. Stages' = Stages /\ Channels' = Channels
  BY GraphStays
<1>2. \A s : Kind(s)' = Kind(s)
  BY GraphStays
<1>3. \A c : Producer(c)' = Producer(c) /\ Capacity(c)' = Capacity(c)
  BY GraphStays, GraphStaysBelow
<1>4. \A t : Below(t)' = Below(t)
  BY GraphStaysBelow
<1>. QED
  BY <1>1, <1>2, <1>3, <1>4 DEF FlowInv, MadeFor, MadeByNow, Size

\* A step that moves nothing preserves the invariant.
LEMMA RestsFlow ==
  ASSUME ProgramInv, FlowInv, [Step]_programVars, Rests
  PROVE  FlowInv'
<1>1. graph' = graph
  BY StepEffect
<1>2. \A s \in Stages : stage'[s].todo = stage[s].todo \/ stage'[s].todo = <<>>
  BY DEF Rests
<1>3. \A i : ~(i \in DOMAIN <<>>)
  OBVIOUS
<1>4. buf' = buf /\ got' = got
  BY DEF Rests
<1>5. \A c \in Channels : Len(buf'[c]) <= Capacity(c)
  BY <1>4 DEF FlowInv
<1>6. \A s \in Stages : \A i, j \in DOMAIN stage'[s].todo : i # j => stage'[s].todo[i][1] # stage'[s].todo[j][1]
  BY <1>2, <1>3 DEF FlowInv
<1>7. /\ \A c \in Channels : \A i \in DOMAIN buf'[c] : MadeByNow(Producer(c), buf'[c][i])
      /\ \A s \in Stages : \A i \in DOMAIN got'[s] : MadeByNow(s, got'[s][i])
  BY <1>4, MadeByNowIs DEF FlowInv
<1>8. ASSUME NEW s \in Stages, NEW i \in DOMAIN stage'[s].todo PROVE MadeByNow(s, stage'[s].todo[i][2])
  <2>1. i \in DOMAIN stage[s].todo /\ stage'[s].todo[i] = stage[s].todo[i]
    BY <1>2, <1>3, <1>8
  <2>2. MadeFor(s, stage[s].todo[i][2])
    BY <2>1 DEF FlowInv
  <2>. QED
    BY <2>1, <2>2, MadeByNowIs
<1>. QED
  BY <1>1, <1>5, <1>6, <1>7, <1>8, FlowNext

\* So does one that makes an element: it is the generator's own.
LEMMA MakesFlow ==
  ASSUME ProgramInv, FlowInv, [Step]_programVars, NEW s \in Stages, Makes(s)
  PROVE  FlowInv'
<1>. DEFINE e == [gen |-> s, n |-> stage[s].count + 1]
<1>1. graph' = graph /\ Wired(graph) /\ stage[s].count \in Nat
  BY StepEffect, ProgramFacts
<1>2. buf' = buf /\ got' = got
  BY DEF Makes
<1>3. stage'[s].todo = <<To(graph[s].out[1], e)>> /\ stage'[s].count = stage[s].count + 1 /\ Kind(s) \in Generators
  BY DEF Makes
<1>4. \A t \in Stages \ {s} : stage'[t] = stage[t]
  BY DEF Makes
<1>5. \A c \in Channels : Len(buf'[c]) <= Capacity(c)
  BY <1>2 DEF FlowInv
<1>6. /\ \A c \in Channels : \A i \in DOMAIN buf'[c] : MadeByNow(Producer(c), buf'[c][i])
      /\ \A t \in Stages : \A i \in DOMAIN got'[t] : MadeByNow(t, got'[t][i])
  BY <1>2, MadeByNowIs DEF FlowInv
<1>7. MadeByNow(s, e)
  <2>1. e.gen = s /\ e.n = stage[s].count + 1
    OBVIOUS
  <2>2. Size(e) = stage[s].count + 1
    BY <1>1, <2>1 DEF Size
  <2>3. s \in Below(s)
    BY <1>1, BelowIs
  <2>. HIDE DEF e
  <2>. QED
    BY <1>1, <1>3, <2>1, <2>2, <2>3 DEF MadeByNow
<1>8. DOMAIN stage'[s].todo = {1} /\ stage'[s].todo[1][2] = e
  BY <1>3 DEF To
<1>. HIDE DEF e
<1>9. \A t \in Stages : \A i, j \in DOMAIN stage'[t].todo : i # j => stage'[t].todo[i][1] # stage'[t].todo[j][1]
  BY <1>4, <1>8 DEF FlowInv
<1>10. \A t \in Stages : \A i \in DOMAIN stage'[t].todo : MadeByNow(t, stage'[t].todo[i][2])
  BY <1>4, <1>7, <1>8, MadeByNowIs DEF FlowInv
<1>. QED
  BY <1>1, <1>5, <1>6, <1>9, <1>10, FlowNext

\* What is left of what a stage has to send.
LEMMA LeftFlow ==
  ASSUME ProgramInv, FlowInv, [Step]_programVars, NEW s \in Stages, NEW i \in DOMAIN stage[s].todo,
         stage'[s].todo = RemoveAt(stage[s].todo, i)
  PROVE  /\ \A j, k \in DOMAIN stage'[s].todo : j # k => stage'[s].todo[j][1] # stage'[s].todo[k][1]
         /\ \A j \in DOMAIN stage'[s].todo : MadeByNow(s, stage'[s].todo[j][2])
<1>. DEFINE q == stage[s].todo
            r == RemoveAt(q, i)
<1>1. q \in Seq(Nat \X Item)
  BY StageTypes
<1>2. /\ \A j, k \in DOMAIN q : j # k => q[j][1] # q[k][1]
      /\ \A j \in DOMAIN q : MadeByNow(s, q[j][2])
  BY MadeByNowIs DEF FlowInv
<1>3. stage'[s].todo = r /\ i \in DOMAIN q
  OBVIOUS
<1>. HIDE DEF q
<1>4. /\ \A j \in DOMAIN r : \E k \in DOMAIN q : k # i /\ r[j] = q[k]
      /\ \A j, l \in DOMAIN r : j # l => \E k, m \in DOMAIN q : k # m /\ r[j] = q[k] /\ r[l] = q[m]
  BY <1>1, <1>3, RemovedLeaves
<1>. HIDE DEF r
<1>5. \A j, k \in DOMAIN r : j # k => r[j][1] # r[k][1]
  BY <1>2, <1>4
<1>6. \A j \in DOMAIN r : MadeByNow(s, r[j][2])
  BY <1>2, <1>4
<1>. QED
  BY <1>3, <1>5, <1>6

\* So does one that puts an element into a buffer: there is room for it.
LEMMA PutsFlow ==
  ASSUME ProgramInv, FlowInv, [Step]_programVars, NEW s \in Stages, NEW i \in DOMAIN stage[s].todo, Puts(s, i)
  PROVE  FlowInv'
<1>. DEFINE c == stage[s].todo[i][1]
            e == stage[s].todo[i][2]
<1>1. graph' = graph /\ c \in Channels /\ Producer(c) = s
  BY StepEffect, StageTypes
<1>2. MadeByNow(s, e)
  BY MadeByNowIs DEF FlowInv
<1>3. /\ Len(buf[c]) < Capacity(c) /\ buf' = [buf EXCEPT ![c] = Append(buf[c], e)] /\ got' = got
      /\ stage'[s].todo = RemoveAt(stage[s].todo, i)
      /\ \A t \in Stages \ {s} : stage'[t] = stage[t]
  BY DEF Puts
<1>4. e \in Item
  BY StageTypes
<1>. HIDE DEF c, e
<1>5. buf \in [Channels -> Seq(Item)]
  BY DEF ProgramInv, ProgramTypeOK
<1>6. buf'[c] = Append(buf[c], e) /\ \A d \in Channels \ {c} : buf'[d] = buf[d]
  BY <1>1, <1>3, <1>5
<1>7. Capacity(c) \in Nat /\ buf[c] \in Seq(Item)
  BY <1>1, ChannelFacts
<1>8. \A d \in Channels : Len(buf'[d]) <= Capacity(d)
  <2>1. Len(buf'[c]) <= Capacity(c)
    BY <1>3, <1>4, <1>6, <1>7
  <2>. QED
    BY <1>6, <2>1 DEF FlowInv
<1>9. \A d \in Channels : \A j \in DOMAIN buf'[d] : MadeByNow(Producer(d), buf'[d][j])
  <2>1. \A j \in DOMAIN buf'[c] : (j \in DOMAIN buf[c] /\ buf'[c][j] = buf[c][j]) \/ buf'[c][j] = e
    BY <1>4, <1>6, <1>7
  <2>2. \A d \in Channels : \A j \in DOMAIN buf[d] : MadeByNow(Producer(d), buf[d][j])
    BY MadeByNowIs DEF FlowInv
  <2>. QED
    BY <1>1, <1>2, <1>6, <2>1, <2>2
<1>10. \A t \in Stages : \A j \in DOMAIN got'[t] : MadeByNow(t, got'[t][j])
  BY <1>3, MadeByNowIs DEF FlowInv
<1>11. /\ \A t \in Stages : \A j, k \in DOMAIN stage'[t].todo : j # k => stage'[t].todo[j][1] # stage'[t].todo[k][1]
       /\ \A t \in Stages : \A j \in DOMAIN stage'[t].todo : MadeByNow(t, stage'[t].todo[j][2])
  <2>1. ASSUME NEW t \in Stages \ {s}
        PROVE  /\ \A j, k \in DOMAIN stage'[t].todo : j # k => stage'[t].todo[j][1] # stage'[t].todo[k][1]
               /\ \A j \in DOMAIN stage'[t].todo : MadeByNow(t, stage'[t].todo[j][2])
    BY <1>3, MadeByNowIs DEF FlowInv
  <2>. QED
    BY <1>3, <2>1, LeftFlow
<1>. QED
  BY <1>1, <1>8, <1>9, <1>10, <1>11, FlowNext

\* What is at a channel has been made for its producer.
LEMMA AtIsMade ==
  ASSUME ProgramInv, FlowInv, NEW c \in Channels, NEW e, At(c, e)
  PROVE  MadeFor(Producer(c), e)
<1>1. Producer(c) \in Stages
  BY ChannelFacts
<1>2. CASE InBuf(c, e)
  BY <1>2 DEF InBuf, FlowInv
<1>3. CASE InTodo(c, e)
  <2>1. PICK i \in DOMAIN stage[Producer(c)].todo : stage[Producer(c)].todo[i] = <<c, e>>
    BY <1>3 DEF InTodo
  <2>2. stage[Producer(c)].todo[i][2] = e
    BY <2>1
  <2>3. MadeFor(Producer(c), stage[Producer(c)].todo[i][2])
    BY <1>1 DEF FlowInv
  <2>. QED
    BY <2>2, <2>3
<1>. QED
  BY <1>2, <1>3 DEF At

\* What is at a channel, or made of it, has come to who reads it.
LEMMA MadeForReader ==
  ASSUME ProgramInv, FlowInv, NEW c \in Channels, NEW e, At(c, e), NEW f, f.gen = e.gen, Size(f) = Size(e)
  PROVE  MadeFor(Reader(c), f)
<1>1. MadeFor(Producer(c), e) /\ Wired(graph)
  BY AtIsMade, GraphIsWired DEF ProgramInv
<1>2. Reader(c) \in Below(e.gen)
  BY <1>1, ChannelBelow, BelowIsClosed DEF MadeFor
<1>. QED
  BY <1>1, <1>2 DEF MadeFor

\* So does one that takes an element.
LEMMA TakesFlow ==
  ASSUME ProgramInv, FlowInv, [Step]_programVars,
         NEW r \in Stages, NEW c \in In(r), NEW e \in Item, Takes(r, c, e)
  PROVE  FlowInv'
<1>. DEFINE p == Producer(c)
<1>1. graph' = graph
  BY StepEffect
<1>2. /\ c \in Channels /\ Reader(c) = r /\ p \in Stages /\ p # r
      /\ Kind(r) \notin Generators /\ Wired(graph)
      /\ buf[c] \in Seq(Item) /\ At(c, e)
  BY TakesFacts
<1>3. \A f : f.gen = e.gen /\ Size(f) = Size(e) => MadeByNow(r, f)
  BY <1>2, MadeForReader, MadeByNowIs
<1>4. stage'[r].todo = TodoOf(r, e) /\ stage[r].pc = "run" /\ got' = Noted(r, e)
  BY DEF Takes
<1>5. buf \in [Channels -> Seq(Item)]
  BY DEF ProgramInv, ProgramTypeOK
<1>6. \A d \in Channels : \/ buf'[d] = buf[d]
                          \/ d = c /\ buf[c] # <<>> /\ buf'[d] = Tail(buf[c])
  BY <1>2, <1>5 DEF Takes
<1>7. buf[c] # <<>> => /\ Len(Tail(buf[c])) <= Len(buf[c])
                       /\ \A i \in DOMAIN Tail(buf[c]) : i + 1 \in DOMAIN buf[c] /\ Tail(buf[c])[i] = buf[c][i + 1]
  BY <1>2
<1>8. Capacity(c) \in Nat /\ Len(buf[c]) \in Nat /\ (buf[c] # <<>> => Len(Tail(buf[c])) \in Nat)
  BY <1>2, ChannelFacts
<1>9. \A d \in Channels : Len(buf'[d]) <= Capacity(d)
  <2>1. Len(buf[c]) <= Capacity(c)
    BY <1>2 DEF FlowInv
  <2>2. buf[c] # <<>> => Len(Tail(buf[c])) <= Capacity(c)
    BY <1>7, <1>8, <2>1
  <2>. QED
    BY <1>6, <2>2 DEF FlowInv
<1>10. \A d \in Channels : \A i \in DOMAIN buf'[d] : MadeByNow(Producer(d), buf'[d][i])
  <2>1. \A d \in Channels : \A i \in DOMAIN buf[d] : MadeByNow(Producer(d), buf[d][i])
    BY MadeByNowIs DEF FlowInv
  <2>2. buf[c] # <<>> => \A i \in DOMAIN Tail(buf[c]) : MadeByNow(p, Tail(buf[c])[i])
    BY <1>2, <1>7, <2>1
  <2>. QED
    BY <1>6, <2>1, <2>2
<1>11. \A t \in Stages : \A i \in DOMAIN got'[t] : MadeByNow(t, got'[t][i])
  <2>1. /\ \A t \in Stages \ {r} : got'[t] = got[t]
        /\ got'[r] = Append(got[r], e) \/ got'[r] = got[r]
        /\ got[r] \in Seq(Item)
    BY <1>4, NotedIs
  <2>2. \A i \in DOMAIN got'[r] : (i \in DOMAIN got[r] /\ got'[r][i] = got[r][i]) \/ got'[r][i] = e
    BY <2>1
  <2>3. \A t \in Stages : \A i \in DOMAIN got[t] : MadeByNow(t, got[t][i])
    BY MadeByNowIs DEF FlowInv
  <2>4. MadeByNow(r, e)
    BY <1>3
  <2>. QED
    BY <2>1, <2>2, <2>3, <2>4
<1>12. Sends(TodoOf(r, e), e)
  BY <1>4, TodoSends
<1>. DEFINE OK(t) == /\ \A i, j \in DOMAIN stage'[t].todo : i # j => stage'[t].todo[i][1] # stage'[t].todo[j][1]
                     /\ \A i \in DOMAIN stage'[t].todo : MadeByNow(t, stage'[t].todo[i][2])
<1>13. OK(r)
  BY <1>3, <1>4, <1>12 DEF Sends
<1>14. ASSUME NEW t \in Stages, stage'[t] = stage[t] PROVE OK(t)
  BY <1>14, MadeByNowIs DEF FlowInv
<1>15. ASSUME NEW i \in DOMAIN stage[p].todo, stage'[p].todo = RemoveAt(stage[p].todo, i) PROVE OK(p)
  BY <1>2, <1>15, LeftFlow
<1>16. \A t \in Stages : OK(t)
  <2>. HIDE DEF OK
  <2>. QED
    BY <1>13, <1>14, <1>15 DEF Takes
<1>. QED
  BY <1>1, <1>9, <1>10, <1>11, <1>16, FlowNext

\* Every step of a program preserves the invariant.
LEMMA FlowInvStep ==
  ASSUME ProgramInv, FlowInv, [Step]_programVars
  PROVE  FlowInv'
<1>1. ASSUME NEW s \in Stages, Makes(s) PROVE FlowInv'
  BY <1>1, MakesFlow
<1>2. ASSUME NEW s \in Stages, NEW i \in DOMAIN stage[s].todo, Puts(s, i) PROVE FlowInv'
  BY <1>2, PutsFlow
<1>3. ASSUME NEW r \in Stages, NEW c \in In(r), NEW e \in Item, Takes(r, c, e) PROVE FlowInv'
  BY <1>3, TakesFlow
<1>. QED
  BY <1>1, <1>2, <1>3, RestsFlow, StepEffect

\* A program starts with nothing in it.
LEMMA FlowInvInit == ProgramInit => FlowInv
<1>. SUFFICES ASSUME ProgramInit PROVE FlowInv
  OBVIOUS
<1>1. ProgramInv
  BY ProgramInvInit
<1>2. \A c \in Channels : buf[c] = <<>> /\ Capacity(c) \in Nat
  BY <1>1, ChannelFacts DEF ProgramInit
<1>3. \A s \in Stages : stage[s].todo = <<>> /\ got[s] = <<>>
  BY DEF ProgramInit
<1>4. Len(<<>>) = 0 /\ \A i : ~(i \in DOMAIN <<>>)
  OBVIOUS
<1>. QED
  BY <1>2, <1>3, <1>4 DEF FlowInv

\* Whatever the program: a channel never holds more than it was made for; and
\* what is in it, on its way to it or has been received comes from a generator
\* upstream, which has made it before - nothing is made up, or comes from
\* elsewhere.
THEOREM OnlyWhatIsMade == ProgramSpec => []FlowInv
BY ProgramInvariance, FlowInvInit, FlowInvStep, ProgramSteps, PTL DEF ProgramSpec

-----------------------------------------------------------------------------
(* How a step moves the elements.  *)

InBufNow(c, e)  == \E i \in DOMAIN buf'[c] : buf'[c][i] = e
InTodoNow(c, e) == \E i \in DOMAIN stage'[Producer(c)].todo : stage'[Producer(c)].todo[i] = <<c, e>>
AtNow(c, e)     == InBufNow(c, e) \/ InTodoNow(c, e)

\* What is where after a step that moves nothing.
LEMMA RestsMoves ==
  ASSUME ProgramInv, Rests, NEW d \in Channels, NEW f
  PROVE  /\ InBufNow(d, f) => InBuf(d, f)
         /\ InTodoNow(d, f) => InTodo(d, f)
         /\ At(d, f) => \/ AtNow(d, f)
                        \/ Kind(Producer(d)) = "overflow"
                        \/ /\ Kind(Producer(d)) = "iota" /\ graph[Producer(d)].out[1] \in closedCtrl
                           /\ stage'[Producer(d)].pc = "done" /\ InTodo(d, f)
<1>. DEFINE p == Producer(d)
<1>1. p \in Stages
  BY ChannelFacts
<1>. HIDE DEF p
<1>2. \/ stage'[p].todo = stage[p].todo
      \/ /\ stage'[p].todo = <<>>
         /\ \/ Kind(p) = "overflow"
            \/ Kind(p) = "iota" /\ graph[p].out[1] \in closedCtrl /\ stage'[p].pc = "done"
  BY <1>1 DEF Rests
<1>3. \A i : ~(i \in DOMAIN <<>>)
  OBVIOUS
<1>4. buf' = buf
  BY DEF Rests
<1>. QED
  BY <1>2, <1>3, <1>4 DEF InBufNow, InBuf, InTodoNow, InTodo, AtNow, At, p

\* What is where after a generator has made an element.
LEMMA MakesMoves ==
  ASSUME ProgramInv, NEW s \in Stages, Makes(s), NEW d \in Channels, NEW f
  PROVE  LET e == [gen |-> s, n |-> stage[s].count + 1]
         IN /\ InBufNow(d, f) <=> InBuf(d, f)
            /\ InTodoNow(d, f) <=> InTodo(d, f) \/ (d = graph[s].out[1] /\ f = e)
            /\ graph[s].out[1] \in Channels /\ Producer(graph[s].out[1]) = s
<1>. DEFINE e == [gen |-> s, n |-> stage[s].count + 1]
            o == graph[s].out[1]
<1>1. /\ buf' = buf /\ stage[s].todo = <<>> /\ stage'[s].todo = <<To(o, e)>> /\ Kind(s) \in Generators
      /\ \A t \in Stages \ {s} : stage'[t] = stage[t]
  BY DEF Makes
<1>2. Wired(graph) /\ Producer(d) \in Stages
  BY ProgramFacts, ChannelFacts
<1>3. o \in Channels /\ Producer(o) = s
  <2>1. Kind(s) \notin Terminators \cup {"split", "tee", "copy", "repeater"}
    BY <1>1 DEF Generators, Terminators
  <2>2. o \in Out(s)
    BY <1>2, <2>1, Shapes
  <2>. QED
    BY <1>2, <2>2, InAndOut
<1>. HIDE DEF e, o
<1>4. DOMAIN stage'[s].todo = {1} /\ stage'[s].todo[1] = <<o, e>> /\ \A i : ~(i \in DOMAIN stage[s].todo)
  BY <1>1 DEF To
<1>5. InTodoNow(d, f) <=> InTodo(d, f) \/ (d = o /\ f = e)
  <2>1. CASE Producer(d) = s
    BY <1>4, <2>1 DEF InTodoNow, InTodo
  <2>2. CASE Producer(d) # s
    BY <1>1, <1>2, <1>3, <2>2 DEF InTodoNow, InTodo
  <2>. QED
    BY <2>1, <2>2
<1>6. InBufNow(d, f) <=> InBuf(d, f)
  BY <1>1 DEF InBufNow, InBuf
<1>. QED
  BY <1>3, <1>5, <1>6 DEF e, o

\* What is where after an element has been put into a buffer.
LEMMA PutsMoves ==
  ASSUME ProgramInv, FlowInv, NEW s \in Stages, NEW i \in DOMAIN stage[s].todo, Puts(s, i),
         NEW d \in Channels, NEW f
  PROVE  LET c == stage[s].todo[i][1]
             e == stage[s].todo[i][2]
         IN /\ InBufNow(d, f) <=> InBuf(d, f) \/ (d = c /\ f = e)
            /\ InTodoNow(d, f) => InTodo(d, f) /\ d # c
            /\ InTodo(d, f) => InTodoNow(d, f) \/ (d = c /\ f = e)
            /\ InTodo(c, e) /\ c \in Channels
<1>. DEFINE q == stage[s].todo
            r == RemoveAt(q, i)
            c == q[i][1]
            e == q[i][2]
<1>1. /\ c \in Channels /\ Producer(c) = s /\ q \in Seq(Nat \X Item)
      /\ \A k \in DOMAIN q : Producer(q[k][1]) = s
  BY StageTypes
<1>2. /\ buf' = [buf EXCEPT ![c] = Append(buf[c], e)] /\ stage'[s].todo = r
      /\ \A t \in Stages \ {s} : stage'[t] = stage[t]
  BY DEF Puts
<1>3. \A k, l \in DOMAIN q : k # l => q[k][1] # q[l][1]
  BY DEF FlowInv
<1>4. Producer(d) \in Stages
  BY ChannelFacts
<1>5. q[i] = <<c, e>> /\ i \in DOMAIN q /\ e \in Item
  BY <1>1
<1>6. stage[s].todo = q
  OBVIOUS
<1>. HIDE DEF q
<1>7. /\ \A k \in DOMAIN q : k # i => \E j \in DOMAIN r : r[j] = q[k]
      /\ \A j \in DOMAIN r : \E k \in DOMAIN q : k # i /\ r[j] = q[k]
  BY <1>1, <1>5, RemovedLeaves
<1>. HIDE DEF r, c, e
<1>8. buf \in [Channels -> Seq(Item)]
  BY DEF ProgramInv, ProgramTypeOK
<1>9. InBufNow(d, f) <=> InBuf(d, f) \/ (d = c /\ f = e)
  <2>1. CASE d # c
    BY <1>1, <1>2, <1>8, <2>1 DEF InBufNow, InBuf
  <2>2. CASE d = c
    <3>. DEFINE b == buf[c]
    <3>1. b \in Seq(Item) /\ buf'[c] = Append(b, e)
      BY <1>1, <1>2, <1>8
    <3>. HIDE DEF b
    <3>2. /\ DOMAIN Append(b, e) = DOMAIN b \cup {Len(b) + 1} /\ Append(b, e)[Len(b) + 1] = e
          /\ \A j \in DOMAIN b : Append(b, e)[j] = b[j]
      BY <1>5, <3>1
    <3>. QED
      BY <2>2, <3>1, <3>2 DEF InBufNow, InBuf, b
  <2>. QED
    BY <2>1, <2>2
<1>10. InTodoNow(d, f) => InTodo(d, f) /\ d # c
  <2>1. CASE Producer(d) = s
    <3>1. ASSUME NEW j \in DOMAIN r, r[j] = <<d, f>> PROVE d # c /\ \E k \in DOMAIN q : q[k] = <<d, f>>
      <4>1. PICK k \in DOMAIN q : k # i /\ q[k] = <<d, f>>
        BY <1>7, <3>1
      <4>2. q[k][1] = d /\ q[i][1] = c
        BY <1>5, <4>1
      <4>. QED
        BY <1>3, <1>5, <4>1, <4>2
    <3>. QED
      BY <1>2, <1>6, <2>1, <3>1 DEF InTodoNow, InTodo
  <2>2. CASE Producer(d) # s
    BY <1>1, <1>2, <1>4, <2>2 DEF InTodoNow, InTodo
  <2>. QED
    BY <2>1, <2>2
<1>11. InTodo(d, f) => InTodoNow(d, f) \/ (d = c /\ f = e)
  <2>1. CASE Producer(d) = s
    <3>1. ASSUME NEW k \in DOMAIN q, q[k] = <<d, f>>, k # i PROVE InTodoNow(d, f)
      BY <1>2, <1>7, <2>1, <3>1 DEF InTodoNow
    <3>2. ASSUME q[i] = <<d, f>> PROVE d = c /\ f = e
      BY <1>5, <3>2
    <3>. QED
      BY <1>6, <2>1, <3>1, <3>2 DEF InTodo
  <2>2. CASE Producer(d) # s
    BY <1>2, <1>4, <2>2 DEF InTodoNow, InTodo
  <2>. QED
    BY <2>1, <2>2
<1>12. InTodo(c, e)
  BY <1>1, <1>5, <1>6 DEF InTodo
<1>. QED
  BY <1>1, <1>9, <1>10, <1>11, <1>12 DEF c, e, q

\* At channel c, element f is somewhere behind element e.
Behind(c, e, f) ==
  \/ InBuf(c, e) /\ InTodo(c, f)
  \/ \E j, k \in DOMAIN buf[c] : j < k /\ buf[c][j] = e /\ buf[c][k] = f

\* What can be in a channel after an element has been taken from it: what was
\* behind that one.
LEMMA TakesBuffers ==
  ASSUME ProgramInv, NEW r \in Stages, NEW c \in In(r), NEW e \in Item, Takes(r, c, e), NEW d \in Channels, NEW f
  PROVE  /\ InBufNow(d, f) => InBuf(d, f)
         /\ InBuf(d, f) => InBufNow(d, f) \/ (d = c /\ f = e)
         /\ InBufNow(c, f) /\ buf' # buf =>
              InBuf(c, e) /\ Behind(c, e, f)
<1>. DEFINE b == buf[c]
<1>1. buf \in [Channels -> Seq(Item)] /\ c \in Channels
  BY TakesFacts DEF ProgramInv, ProgramTypeOK
<1>2. buf' = buf \/ (b # <<>> /\ e = Head(b) /\ buf' = [buf EXCEPT ![c] = Tail(b)])
  BY DEF Takes
<1>3. buf'[d] = buf[d] \/ (d = c /\ b # <<>> /\ e = Head(b) /\ buf'[d] = Tail(b))
  BY <1>1, <1>2
<1>4. b \in Seq(Item)
  BY <1>1
<1>5. b = buf[c]
  OBVIOUS
<1>. HIDE DEF b
<1>6. b # <<>> => /\ \A i \in DOMAIN Tail(b) : i + 1 \in DOMAIN b /\ Tail(b)[i] = b[i + 1] /\ 1 < i + 1
                  /\ \A i \in DOMAIN b : i = 1 \/ (i - 1 \in DOMAIN Tail(b) /\ Tail(b)[i - 1] = b[i])
                  /\ 1 \in DOMAIN b /\ b[1] = Head(b)
  BY <1>4
<1>7. buf[d] = b \/ d # c
  BY <1>5
<1>8. InBufNow(d, f) => InBuf(d, f)
  <2>1. CASE buf'[d] = buf[d]
    BY <2>1 DEF InBufNow, InBuf
  <2>2. CASE d = c /\ b # <<>> /\ buf'[d] = Tail(b)
    BY <1>6, <1>7, <2>2 DEF InBufNow, InBuf
  <2>. QED
    BY <1>3, <2>1, <2>2
<1>9. InBuf(d, f) => InBufNow(d, f) \/ (d = c /\ f = e)
  <2>1. CASE buf'[d] = buf[d]
    BY <2>1 DEF InBufNow, InBuf
  <2>2. CASE d = c /\ b # <<>> /\ e = Head(b) /\ buf'[d] = Tail(b)
    <3>1. ASSUME NEW i \in DOMAIN b, b[i] = f PROVE InBufNow(d, f) \/ (d = c /\ f = e)
      <4>1. CASE i = 1
        BY <1>6, <2>2, <3>1, <4>1
      <4>2. CASE i # 1
        <5>1. i - 1 \in DOMAIN Tail(b) /\ Tail(b)[i - 1] = f
          BY <1>6, <2>2, <3>1, <4>2
        <5>2. i - 1 \in DOMAIN buf'[d] /\ buf'[d][i - 1] = f
          BY <2>2, <5>1
        <5>. QED
          BY <5>2 DEF InBufNow
      <4>. QED
        BY <4>1, <4>2
    <3>2. buf[d] = b
      BY <1>5, <2>2
    <3>. QED
      BY <3>1, <3>2 DEF InBuf
  <2>. QED
    BY <1>3, <2>1, <2>2
<1>10. ASSUME InBufNow(c, f), buf' # buf
       PROVE  InBuf(c, e) /\ Behind(c, e, f)
  <2>1. b # <<>> /\ e = Head(b) /\ buf'[c] = Tail(b)
    BY <1>1, <1>2, <1>10
  <2>2. PICK i \in DOMAIN Tail(b) : Tail(b)[i] = f
    BY <1>10, <2>1 DEF InBufNow
  <2>3. 1 \in DOMAIN b /\ i + 1 \in DOMAIN b /\ 1 < i + 1 /\ b[1] = e /\ b[i + 1] = f
    BY <1>6, <2>1, <2>2
  <2>. QED
    BY <1>5, <2>3 DEF InBuf, Behind
<1>. QED
  BY <1>8, <1>9, <1>10

\* What is where after an element has been taken.
LEMMA TakesMoves ==
  ASSUME ProgramInv, FlowInv, NEW r \in Stages, NEW c \in In(r), NEW e \in Item, Takes(r, c, e),
         NEW d \in Channels, NEW f
  PROVE  /\ InBufNow(d, f) => InBuf(d, f)
         /\ d \notin Out(r) => (InTodoNow(d, f) => InTodo(d, f))
         /\ d \in Out(r) => (InTodoNow(d, f) => f.gen = e.gen /\ Size(f) = Size(e))
         /\ At(d, f) => AtNow(d, f) \/ (d = c /\ f = e)
         /\ AtNow(c, f) => Behind(c, e, f)
<1>. DEFINE p == Producer(c)
            q == stage[p].todo
<1>1. /\ c \in Channels /\ Reader(c) = r /\ p \in Stages /\ p # r /\ Wired(graph) /\ c \notin Out(r)
      /\ buf[c] \in Seq(Item)
  BY TakesFacts
<1>2. /\ stage[r].todo = <<>> /\ stage[r].pc = "run" /\ stage'[r].todo = TodoOf(r, e)
  BY DEF Takes
<1>3. d \in Out(r) <=> Producer(d) = r
  BY <1>1, InAndOut, Ends
<1>4. Producer(d) \in Stages
  BY ChannelFacts
<1>5. /\ q \in Seq(Nat \X Item)
      /\ \A k, l \in DOMAIN q : k # l => q[k][1] # q[l][1]
      /\ \A k \in DOMAIN q : Producer(q[k][1]) = p
  BY <1>1, StageTypes DEF FlowInv
<1>6. stage[p].todo = q
  OBVIOUS
<1>. HIDE DEF q
<1>7. \/ \A t \in Stages \ {r} : stage'[t] = stage[t]
      \/ /\ buf' = buf /\ Capacity(c) = 0
         /\ \A t \in Stages \ {r, p} : stage'[t] = stage[t]
         /\ \E i \in DOMAIN q : q[i] = <<c, e>> /\ stage'[p].todo = RemoveAt(q, i)
  BY <1>6 DEF Takes, p
<1>. HIDE DEF p
<1>8. InBufNow(d, f) => InBuf(d, f)
  BY TakesBuffers
<1>9. ASSUME d \in Out(r), InTodoNow(d, f) PROVE f.gen = e.gen /\ Size(f) = Size(e)
  <2>1. Sends(TodoOf(r, e), e)
    BY <1>2, TodoSends
  <2>2. PICK i \in DOMAIN TodoOf(r, e) : TodoOf(r, e)[i] = <<d, f>>
    BY <1>2, <1>3, <1>9 DEF InTodoNow
  <2>3. TodoOf(r, e)[i][2] = f
    BY <2>2
  <2>. QED
    BY <2>1, <2>3 DEF Sends
<1>10. ASSUME NEW i \in DOMAIN q, q[i] = <<c, e>>, stage'[p].todo = RemoveAt(q, i), NEW x \in Channels
       PROVE  /\ Producer(x) = p => (InTodoNow(x, f) => InTodo(x, f) /\ x # c)
              /\ Producer(x) = p => (InTodo(x, f) => InTodoNow(x, f) \/ (x = c /\ f = e))
  <2>. SUFFICES ASSUME Producer(x) = p
                PROVE  /\ InTodoNow(x, f) => InTodo(x, f) /\ x # c
                       /\ InTodo(x, f) => InTodoNow(x, f) \/ (x = c /\ f = e)
    OBVIOUS
  <2>. DEFINE l == RemoveAt(q, i)
  <2>1. /\ \A k \in DOMAIN q : k # i => \E j \in DOMAIN l : l[j] = q[k]
        /\ \A j \in DOMAIN l : \E k \in DOMAIN q : k # i /\ l[j] = q[k]
    BY <1>5, <1>10, RemovedLeaves
  <2>2. stage'[p].todo = l
    BY <1>10
  <2>. HIDE DEF l
  <2>3. ASSUME NEW j \in DOMAIN l, l[j] = <<x, f>> PROVE x # c /\ \E k \in DOMAIN q : q[k] = <<x, f>>
    <3>1. PICK k \in DOMAIN q : k # i /\ q[k] = <<x, f>>
      BY <2>1, <2>3
    <3>2. q[k][1] = x /\ q[i][1] = c
      BY <1>10, <3>1
    <3>. QED
      BY <1>5, <3>1, <3>2
  <2>4. ASSUME NEW k \in DOMAIN q, q[k] = <<x, f>>, k # i PROVE InTodoNow(x, f)
    BY <2>1, <2>2, <2>4 DEF InTodoNow
  <2>5. ASSUME q[i] = <<x, f>> PROVE x = c /\ f = e
    BY <1>10, <2>5
  <2>. QED
    BY <1>6, <2>2, <2>3, <2>4, <2>5 DEF InTodo, InTodoNow
<1>11. ASSUME d \notin Out(r)
       PROVE  /\ InTodoNow(d, f) => InTodo(d, f)
              /\ InTodo(d, f) => InTodoNow(d, f) \/ (d = c /\ f = e)
  <2>1. CASE stage'[Producer(d)] = stage[Producer(d)]
    BY <2>1 DEF InTodo, InTodoNow
  <2>2. CASE stage'[Producer(d)] # stage[Producer(d)]
    <3>1. Producer(d) = p /\ \E i \in DOMAIN q : q[i] = <<c, e>> /\ stage'[p].todo = RemoveAt(q, i)
      BY <1>3, <1>4, <1>7, <1>11, <2>2
    <3>. QED
      BY <1>10, <3>1
  <2>. QED
    BY <2>1, <2>2
<1>12. ASSUME At(d, f) PROVE AtNow(d, f) \/ (d = c /\ f = e)
  <2>1. CASE InBuf(d, f)
    BY <2>1, TakesBuffers DEF AtNow
  <2>2. CASE InTodo(d, f)
    <3>1. d \notin Out(r)
      BY <1>2, <1>3, <2>2 DEF InTodo
    <3>. QED
      BY <1>11, <2>2, <3>1 DEF AtNow
  <2>. QED
    BY <1>12, <2>1, <2>2 DEF At
<1>13. ASSUME AtNow(c, f)
       PROVE  Behind(c, e, f)
  <2>1. CASE Capacity(c) = 0 /\ buf' = buf /\ \E i \in DOMAIN q : q[i] = <<c, e>> /\ stage'[p].todo = RemoveAt(q, i)
    <3>1. ~InTodoNow(c, f)
      BY <1>1, <1>10, <2>1 DEF p
    <3>2. Len(buf[c]) <= 0
      BY <1>1, <2>1 DEF FlowInv
    <3>3. buf[c] = <<>>
      BY <1>1, <3>2
    <3>4. ~InBufNow(c, f)
      BY <2>1, <3>3 DEF InBufNow
    <3>. QED
      BY <1>13, <3>1, <3>4 DEF AtNow
  <2>2. CASE buf[c] # <<>> /\ e = Head(buf[c]) /\ buf' = [buf EXCEPT ![c] = Tail(@)]
             /\ \A t \in Stages \ {r} : stage'[t] = stage[t]
    <3>1. buf \in [Channels -> Seq(Item)]
      BY DEF ProgramInv, ProgramTypeOK
    <3>2. 1 \in DOMAIN buf[c] /\ buf[c][1] = e /\ Len(Tail(buf[c])) # Len(buf[c])
      BY <1>1, <2>2
    <3>3. buf' # buf
      BY <1>1, <2>2, <3>1, <3>2
    <3>4. InBuf(c, e)
      BY <3>2 DEF InBuf
    <3>5. CASE InBufNow(c, f)
      BY <1>1, <3>3, <3>5, TakesBuffers
    <3>6. CASE InTodoNow(c, f)
      <4>1. InTodo(c, f)
        BY <1>1, <2>2, <3>6 DEF InTodoNow, InTodo, p
      <4>. QED
        BY <3>4, <4>1 DEF Behind
    <3>. QED
      BY <1>13, <3>5, <3>6 DEF AtNow
  <2>. QED
    BY <1>6, <2>1, <2>2 DEF Takes, p
<1>14. d \in Out(r) => (InTodoNow(d, f) => f.gen = e.gen /\ Size(f) = Size(e))
  BY <1>9
<1>15. d \notin Out(r) => (InTodoNow(d, f) => InTodo(d, f))
  BY <1>11
<1>16. At(d, f) => AtNow(d, f) \/ (d = c /\ f = e)
  BY <1>12
<1>17. AtNow(c, f) => Behind(c, e, f)
  BY <1>13
<1>. QED
  BY <1>8, <1>14, <1>15, <1>16, <1>17

-----------------------------------------------------------------------------
(* The order of the elements.  *)

\* No stage that joins streams has two from the same generator.
OneWay ==
  \A s \in Stages : \A c, d \in In(s) : c # d =>
    ~\E g \in Stages : Kind(g) \in Generators /\ Producer(c) \in Below(g) /\ Producer(d) \in Below(g)

\* Of each generator, what is further downstream was made earlier: within a
\* channel, between channels, and between a channel and what has been received.
OrderInv ==
  /\ \A c \in Channels : \A e, f \in Item : Behind(c, e, f) => Earlier(e, f)
  /\ \A c, d \in Channels : Producer(c) \in Below(Reader(d)) =>
       \A e, f \in Item : At(c, e) /\ At(d, f) => Earlier(e, f)
  /\ \A s \in Stages : \A i, j \in DOMAIN got[s] : i < j => Earlier(got[s][i], got[s][j])
  /\ \A s \in Stages, d \in Channels : s \in Below(Reader(d)) =>
       \A i \in DOMAIN got[s], f \in Item : At(d, f) => Earlier(got[s][i], f)

BehindNow(c, e, f) ==
  \/ InBufNow(c, e) /\ InTodoNow(c, f)
  \/ \E j, k \in DOMAIN buf'[c] : j < k /\ buf'[c][j] = e /\ buf'[c][k] = f

\* The invariant after a step, from what it says of the primed variables.
LEMMA OrderNext ==
  ASSUME graph' = graph,
         \A c \in Channels : \A e, f \in Item : BehindNow(c, e, f) => Earlier(e, f),
         \A c, d \in Channels : Producer(c) \in Below(Reader(d)) =>
           \A e, f \in Item : AtNow(c, e) /\ AtNow(d, f) => Earlier(e, f),
         \A s \in Stages : \A i, j \in DOMAIN got'[s] : i < j => Earlier(got'[s][i], got'[s][j]),
         \A s \in Stages, d \in Channels : s \in Below(Reader(d)) =>
           \A i \in DOMAIN got'[s], f \in Item : AtNow(d, f) => Earlier(got'[s][i], f)
  PROVE  OrderInv'
<1>1. Stages' = Stages /\ Channels' = Channels
  BY GraphStays
<1>2. \A c : Producer(c)' = Producer(c) /\ Reader(c)' = Reader(c)
  BY GraphStays
<1>3. \A t : Below(t)' = Below(t)
  BY GraphStaysBelow
<1>4. \A c, e : InBuf(c, e)' <=> InBufNow(c, e)
  BY DEF InBuf, InBufNow
<1>5. \A c, e : InTodo(c, e)' <=> InTodoNow(c, e)
  BY <1>2 DEF InTodo, InTodoNow
<1>6. \A c, e : At(c, e)' <=> AtNow(c, e)
  BY <1>4, <1>5 DEF At, AtNow
<1>7. \A c, e, f : Behind(c, e, f)' <=> BehindNow(c, e, f)
  BY <1>4, <1>5 DEF Behind, BehindNow
<1>8. (\A c \in Channels : \A e, f \in Item : Behind(c, e, f) => Earlier(e, f))'
  BY <1>1, <1>7 DEF Earlier, Size
<1>9. (\A c, d \in Channels : Producer(c) \in Below(Reader(d)) =>
        \A e, f \in Item : At(c, e) /\ At(d, f) => Earlier(e, f))'
  BY <1>1, <1>2, <1>3, <1>6 DEF Earlier, Size
<1>10. (\A s \in Stages : \A i, j \in DOMAIN got[s] : i < j => Earlier(got[s][i], got[s][j]))'
  BY <1>1 DEF Earlier, Size
<1>11. (\A s \in Stages, d \in Channels : s \in Below(Reader(d)) =>
        \A i \in DOMAIN got[s], f \in Item : At(d, f) => Earlier(got[s][i], f))'
  BY <1>1, <1>2, <1>3, <1>6 DEF Earlier, Size
<1>. QED
  BY <1>8, <1>9, <1>10, <1>11 DEF OrderInv

\* What is at a channel is an element.
LEMMA InBuffers ==
  ASSUME ProgramInv, NEW d \in Channels, NEW f, At(d, f)
  PROVE  f \in Item
<1>1. Producer(d) \in Stages /\ buf[d] \in Seq(Item)
  BY ChannelFacts
<1>2. stage[Producer(d)].todo \in Seq(Nat \X Item)
  BY <1>1, StageTypes
<1>. QED
  BY <1>1, <1>2 DEF At, InBuf, InTodo

\* A step that moves nothing keeps the order.
LEMMA RestsOrder ==
  ASSUME ProgramInv, OrderInv, graph' = graph, Rests
  PROVE  OrderInv'
<1>1. buf' = buf /\ got' = got
  BY DEF Rests
<1>2. \A d \in Channels, f \in Item : /\ InBufNow(d, f) => InBuf(d, f)
                                      /\ InTodoNow(d, f) => InTodo(d, f)
  BY RestsMoves
<1>3. \A d \in Channels, f \in Item : AtNow(d, f) => At(d, f)
  BY <1>2 DEF At, AtNow
<1>4. \A d \in Channels : \A e, f \in Item : BehindNow(d, e, f) => Behind(d, e, f)
  BY <1>1, <1>2 DEF Behind, BehindNow
<1>. QED
  BY <1>1, <1>3, <1>4, OrderNext DEF OrderInv

\* Where a generator stands, nothing of it is upstream.
LEMMA NothingAbove ==
  ASSUME Wired(graph), NEW s \in Stages, Kind(s) \in Generators, NEW d \in Channels
  PROVE  s \notin Below(Reader(d))
<1>1. In(s) = {} /\ Reader(d) \in Stages /\ d \in In(Reader(d))
  BY Shapes, Ends
<1>. QED
  BY <1>1, BelowThrough

\* A generator makes a number that is higher than all it has made.
LEMMA MakesOrder ==
  ASSUME ProgramInv, FlowInv, OrderInv, graph' = graph, NEW s \in Stages, Makes(s)
  PROVE  OrderInv'
<1>. DEFINE x == [gen |-> s, n |-> stage[s].count + 1]
            o == graph[s].out[1]
<1>1. Wired(graph) /\ stage[s].count \in Nat /\ s \in Nat
  BY ProgramFacts
<1>2. buf' = buf /\ got' = got /\ Kind(s) \in Generators
  BY DEF Makes
<1>3. \A d \in Channels, f \in Item : /\ InBufNow(d, f) <=> InBuf(d, f)
                                      /\ InTodoNow(d, f) <=> InTodo(d, f) \/ (d = o /\ f = x)
  BY MakesMoves
<1>4. Producer(o) = s \/ Channels = {}
  BY MakesMoves
<1>5. x.gen = s /\ Size(x) = stage[s].count + 1
  <2>1. x.n = stage[s].count + 1 /\ x.gen = s
    OBVIOUS
  <2>. QED
    BY <1>1, <2>1 DEF Size
<1>. HIDE DEF x, o
<1>6. \A d \in Channels, f \in Item : At(d, f) => Earlier(f, x)
  <2>. TAKE d \in Channels, f \in Item
  <2>. SUFFICES ASSUME At(d, f), f.gen = x.gen PROVE Size(f) < Size(x)
    BY DEF Earlier
  <2>1. Size(f) \in 1 .. stage[s].count
    BY <1>5, AtIsMade DEF MadeFor
  <2>. QED
    BY <1>1, <1>5, <2>1
<1>7. \A t \in Stages : \A i \in DOMAIN got[t] : Earlier(got[t][i], x)
  <2>. TAKE t \in Stages
  <2>. TAKE i \in DOMAIN got[t]
  <2>. SUFFICES ASSUME got[t][i].gen = x.gen PROVE Size(got[t][i]) < Size(x)
    BY DEF Earlier
  <2>1. Size(got[t][i]) \in 1 .. stage[s].count
    BY <1>5 DEF FlowInv, MadeFor
  <2>. QED
    BY <1>1, <1>5, <2>1
<1>8. \A d \in Channels, f \in Item : AtNow(d, f) => At(d, f) \/ (d = o /\ f = x)
  BY <1>3 DEF At, AtNow
<1>9. \A d \in Channels : \A e, f \in Item : BehindNow(d, e, f) => Behind(d, e, f) \/ (At(d, e) /\ f = x)
  BY <1>2, <1>3 DEF Behind, BehindNow, At
<1>10. \A d \in Channels : \A e, f \in Item : BehindNow(d, e, f) => Earlier(e, f)
  BY <1>6, <1>9 DEF OrderInv
<1>11. ASSUME NEW c \in Channels, NEW d \in Channels, Producer(c) \in Below(Reader(d)),
              NEW e \in Item, NEW f \in Item, AtNow(c, e), AtNow(d, f)
       PROVE  Earlier(e, f)
  <2>1. c # o
    BY <1>1, <1>2, <1>4, <1>11, NothingAbove
  <2>2. At(c, e)
    BY <1>8, <1>11, <2>1
  <2>. QED
    BY <1>6, <1>8, <1>11, <2>2 DEF OrderInv
<1>12. ASSUME NEW t \in Stages, NEW d \in Channels, t \in Below(Reader(d)),
              NEW i \in DOMAIN got[t], NEW f \in Item, AtNow(d, f)
       PROVE  Earlier(got[t][i], f)
  BY <1>7, <1>8, <1>12 DEF OrderInv
<1>. QED
  BY <1>2, <1>10, <1>11, <1>12, OrderNext DEF OrderInv

\* What is put into a buffer was behind what is in it.
LEMMA PutsOrder ==
  ASSUME ProgramInv, FlowInv, OrderInv, graph' = graph,
         NEW s \in Stages, NEW i \in DOMAIN stage[s].todo, Puts(s, i)
  PROVE  OrderInv'
<1>. DEFINE c == stage[s].todo[i][1]
            e == stage[s].todo[i][2]
<1>1. /\ got' = got /\ buf' = [buf EXCEPT ![c] = Append(buf[c], e)]
      /\ buf \in [Channels -> Seq(Item)] /\ e \in Item /\ c \in Channels
  <2>1. c \in Channels /\ stage[s].todo[i] \in Nat \X Item
    BY StageTypes
  <2>. QED
    BY <2>1 DEF Puts, ProgramInv, ProgramTypeOK
<1>2. \A d \in Channels, f \in Item : /\ InBufNow(d, f) <=> InBuf(d, f) \/ (d = c /\ f = e)
                                      /\ InTodoNow(d, f) => InTodo(d, f) /\ d # c
                                      /\ InTodo(c, e)
  BY PutsMoves
<1>. HIDE DEF c, e
<1>3. \A d \in Channels, f \in Item : AtNow(d, f) => At(d, f)
  BY <1>2 DEF At, AtNow
<1>4. ASSUME NEW d \in Channels, NEW x \in Item, NEW y \in Item, BehindNow(d, x, y)
      PROVE  Behind(d, x, y)
  <2>1. CASE InBufNow(d, x) /\ InTodoNow(d, y)
    BY <1>2, <2>1 DEF Behind
  <2>2. ASSUME NEW j \in DOMAIN buf'[d], NEW k \in DOMAIN buf'[d], j < k, buf'[d][j] = x, buf'[d][k] = y
        PROVE  Behind(d, x, y)
    <3>1. CASE d # c
      <4>1. buf'[d] = buf[d]
        BY <1>1, <3>1
      <4>. QED
        BY <2>2, <4>1 DEF Behind
    <3>2. CASE d = c
      <4>. DEFINE b == buf[c]
      <4>1. b \in Seq(Item) /\ buf'[c] = Append(b, e)
        BY <1>1
      <4>2. b = buf[d]
        BY <3>2
      <4>. HIDE DEF b
      <4>3. /\ j \in DOMAIN b /\ b[j] = x
            /\ (k \in DOMAIN b /\ b[k] = y) \/ y = e
        BY <1>1, <2>2, <3>2, <4>1
      <4>4. InBuf(d, x)
        BY <4>2, <4>3 DEF InBuf
      <4>. QED
        BY <1>2, <2>2, <3>2, <4>2, <4>3, <4>4 DEF Behind
    <3>. QED
      BY <3>1, <3>2
  <2>. QED
    BY <1>4, <2>1, <2>2 DEF BehindNow
<1>. QED
  BY <1>1, <1>3, <1>4, OrderNext DEF OrderInv

\* What a stage takes is ahead of whatever else the stage, or one upstream of it,
\* can yet come to: the streams it joins are of different generators.
LEMMA TakenIsAhead ==
  ASSUME ProgramInv, FlowInv, OneWay, OrderInv, NEW c \in Channels, NEW e \in Item, At(c, e),
         NEW d \in Channels, d # c, Reader(c) \in Below(Reader(d)), NEW f \in Item, At(d, f)
  PROVE  Earlier(e, f)
<1>1. SUFFICES ASSUME e.gen = f.gen PROVE Earlier(e, f)
  BY DEF Earlier
<1>. DEFINE g == e.gen
            r == Reader(c)
<1>2. /\ Wired(graph) /\ r \in Stages /\ c \in In(r)
      /\ Reader(d) \in Stages /\ d \in In(Reader(d))
  BY GraphIsWired, ChannelFacts DEF ProgramInv
<1>3. g \in Stages /\ Kind(g) \in Generators /\ Producer(c) \in Below(g) /\ Producer(d) \in Below(g)
  BY <1>1, AtIsMade DEF MadeFor
<1>4. CASE Reader(d) = r
  BY <1>2, <1>3, <1>4 DEF OneWay
<1>5. CASE Reader(d) # r
  <2>1. PICK b \in In(r) : Producer(b) \in Below(Reader(d))
    BY <1>2, <1>5, BelowThrough
  <2>2. CASE b = c
    BY <2>1, <2>2 DEF OrderInv
  <2>3. CASE b # c
    <3>1. Below(Reader(d)) \subseteq Below(Producer(d)) /\ Below(Producer(d)) \subseteq Below(g)
      BY <1>2, <1>3, ChannelBelow, BelowIsClosed
    <3>2. Producer(b) \in Below(g)
      BY <2>1, <3>1
    <3>. QED
      BY <1>2, <1>3, <2>1, <2>3, <3>2 DEF OneWay
  <2>. QED
    BY <2>2, <2>3
<1>. QED
  BY <1>4, <1>5

\* The order does not look at signs.
LEMMA SameSize ==
  ASSUME NEW e, NEW f, NEW x, f.gen = e.gen, Size(f) = Size(e)
  PROVE  /\ Earlier(e, x) => Earlier(f, x)
         /\ Earlier(x, e) => Earlier(x, f)
BY DEF Earlier

\* What is taken was ahead of what is left, and is behind what has gone before.
LEMMA TakesOrder ==
  ASSUME ProgramInv, FlowInv, OneWay, OrderInv, graph' = graph,
         NEW r \in Stages, NEW c \in In(r), NEW e \in Item, Takes(r, c, e)
  PROVE  OrderInv'
<1>1. /\ c \in Channels /\ Reader(c) = r /\ Wired(graph) /\ c \notin Out(r) /\ At(c, e)
      /\ Producer(c) \in Stages
  BY TakesFacts
<1>2. \A d \in Channels, f \in Item :
        /\ InBufNow(d, f) => InBuf(d, f)
        /\ d \notin Out(r) => (InTodoNow(d, f) => InTodo(d, f))
        /\ d \in Out(r) => (InTodoNow(d, f) => f.gen = e.gen /\ Size(f) = Size(e))
  BY TakesMoves
<1>3. \A f \in Item : AtNow(c, f) => Earlier(e, f)
  BY <1>1, TakesMoves DEF OrderInv
<1>. DEFINE Like(d, f) == d \in Out(r) /\ f.gen = e.gen /\ Size(f) = Size(e)
<1>4. \A d \in Channels, f \in Item : AtNow(d, f) => At(d, f) \/ Like(d, f)
  BY <1>2 DEF At, AtNow
<1>5. \A d \in Channels : d \in Out(r) => Producer(d) = r
  BY <1>1, InAndOut
\* What is below the reader of an output is ahead of what is taken.
<1>6. ASSUME NEW d \in Out(r), NEW t \in Below(Reader(d))
      PROVE  t \in Below(r)
  BY <1>1, <1>5, InAndOut, ChannelBelow
\* Whatever is behind stage r is behind what it takes.
<1>7. ASSUME NEW d \in Channels, r \in Below(Reader(d)), NEW f \in Item, AtNow(d, f)
      PROVE  Earlier(e, f)
  <2>1. CASE d = c
    BY <1>3, <1>7, <2>1
  <2>2. CASE d # c
    <3>1. d \notin Out(r)
      BY <1>5, <1>7, <1>1, ChannelBelow
    <3>2. At(d, f)
      BY <1>4, <1>7, <3>1
    <3>. QED
      BY <1>1, <1>7, <2>2, <3>2, TakenIsAhead
  <2>. QED
    BY <2>1, <2>2
<1>8. ASSUME NEW d \in Channels, NEW x \in Item, NEW y \in Item, BehindNow(d, x, y)
      PROVE  Earlier(x, y)
  <2>1. CASE InBufNow(d, x) /\ InTodoNow(d, y)
    <3>1. InBuf(d, x)
      BY <1>2, <2>1
    <3>2. CASE d \notin Out(r)
      BY <1>2, <2>1, <3>1, <3>2 DEF Behind, OrderInv
    <3>3. CASE d \in Out(r)
      <4>1. y.gen = e.gen /\ Size(y) = Size(e)
        BY <1>2, <2>1, <3>3
      <4>2. Producer(d) = r /\ r \in Below(r)
        BY <1>1, <1>5, <3>3, BelowIs
      <4>3. Earlier(x, e)
        BY <1>1, <3>1, <4>2 DEF OrderInv, At
      <4>. QED
        BY <4>1, <4>3, SameSize
    <3>. QED
      BY <3>2, <3>3
  <2>2. ASSUME NEW j \in DOMAIN buf'[d], NEW k \in DOMAIN buf'[d], j < k, buf'[d][j] = x, buf'[d][k] = y
        PROVE  Earlier(x, y)
    <3>. DEFINE b == buf[d]
    <3>1. b \in Seq(Item)
      BY DEF ProgramInv, ProgramTypeOK
    <3>2. buf'[d] = b \/ (b # <<>> /\ buf'[d] = Tail(b))
      BY <1>1 DEF Takes, ProgramInv, ProgramTypeOK
    <3>3. b = buf[d]
      OBVIOUS
    <3>. HIDE DEF b
    <3>4. CASE buf'[d] = b
      BY <2>2, <3>3, <3>4 DEF Behind, OrderInv
    <3>5. CASE b # <<>> /\ buf'[d] = Tail(b)
      <4>1. /\ j + 1 \in DOMAIN b /\ k + 1 \in DOMAIN b /\ j + 1 < k + 1
            /\ b[j + 1] = x /\ b[k + 1] = y
        BY <2>2, <3>1, <3>5
      <4>2. Behind(d, x, y)
        BY <3>3, <4>1 DEF Behind
      <4>. QED
        BY <4>2 DEF OrderInv
    <3>. QED
      BY <3>2, <3>4, <3>5
  <2>. QED
    BY <1>8, <2>1, <2>2 DEF BehindNow
<1>9. ASSUME NEW a \in Channels, NEW d \in Channels, Producer(a) \in Below(Reader(d)),
             NEW x \in Item, NEW y \in Item, AtNow(a, x), AtNow(d, y)
      PROVE  Earlier(x, y)
  <2>1. CASE Like(a, x)
    <3>1. r \in Below(Reader(d))
      BY <1>5, <1>9, <2>1
    <3>2. Earlier(e, y)
      BY <1>7, <1>9, <3>1
    <3>. QED
      BY <2>1, <3>2, SameSize
  <2>2. CASE At(a, x) /\ Like(d, y)
    <3>1. Producer(a) \in Below(r)
      BY <1>6, <1>9, <2>2
    <3>2. Earlier(x, e)
      BY <1>1, <2>2, <3>1 DEF OrderInv
    <3>. QED
      BY <2>2, <3>2, SameSize
  <2>3. CASE At(a, x) /\ At(d, y)
    BY <1>9, <2>3 DEF OrderInv
  <2>. QED
    BY <1>4, <1>9, <2>1, <2>2, <2>3
<1>10. /\ \A s \in Stages \ {r} : got'[s] = got[s]
       /\ got'[r] = IF Kind(r) \in Terminators THEN Append(got[r], e) ELSE got[r]
       /\ \A s \in Stages : got[s] \in Seq(Item)
  <2>1. got' = Noted(r, e)
    BY DEF Takes
  <2>. QED
    BY <2>1, NotedIs
<1>11. \A i \in DOMAIN got'[r] : \/ i \in DOMAIN got[r] /\ got'[r][i] = got[r][i]
                                 \/ i = Len(got[r]) + 1 /\ got'[r][i] = e /\ Kind(r) \in Terminators
  BY <1>10
<1>12. \A i \in DOMAIN got[r] : Earlier(got[r][i], e)
  <2>1. r \in Below(r)
    BY <1>1, BelowIs
  <2>. QED
    BY <1>1, <2>1 DEF OrderInv
<1>13. ASSUME NEW s \in Stages, NEW i \in DOMAIN got'[s], NEW j \in DOMAIN got'[s], i < j
       PROVE  Earlier(got'[s][i], got'[s][j])
  <2>1. CASE s # r
    BY <1>10, <1>13, <2>1 DEF OrderInv
  <2>2. CASE s = r
    <3>1. Len(got[r]) \in Nat /\ DOMAIN got[r] = 1 .. Len(got[r])
      BY <1>10
    <3>2. i \in DOMAIN got[r] /\ got'[r][i] = got[r][i]
      <4>1. CASE j \in DOMAIN got[r]
        BY <1>11, <1>13, <2>2, <3>1, <4>1
      <4>2. CASE j = Len(got[r]) + 1
        BY <1>11, <1>13, <2>2, <3>1, <4>2
      <4>. QED
        BY <1>11, <2>2, <4>1, <4>2
    <3>. QED
      BY <1>11, <1>12, <1>13, <2>2, <3>2 DEF OrderInv
  <2>. QED
    BY <2>1, <2>2
<1>14. ASSUME NEW s \in Stages, NEW d \in Channels, s \in Below(Reader(d)),
              NEW i \in DOMAIN got'[s], NEW f \in Item, AtNow(d, f)
       PROVE  Earlier(got'[s][i], f)
  <2>1. CASE s = r /\ got'[s][i] = e
    BY <1>7, <1>14, <2>1
  <2>2. CASE i \in DOMAIN got[s] /\ got'[s][i] = got[s][i]
    <3>1. CASE At(d, f)
      BY <1>14, <2>2, <3>1 DEF OrderInv
    <3>2. CASE Like(d, f)
      <4>1. s \in Below(r)
        BY <1>6, <1>14, <3>2
      <4>2. Earlier(got[s][i], e)
        BY <1>1, <2>2, <4>1 DEF OrderInv
      <4>. QED
        BY <2>2, <3>2, <4>2, SameSize
    <3>. QED
      BY <1>4, <1>14, <3>1, <3>2
  <2>. QED
    BY <1>10, <1>11, <1>14, <2>1, <2>2
<1>. QED
  BY <1>8, <1>9, <1>13, <1>14, OrderNext

\* Every step of a program keeps the order.
LEMMA OrderInvStep ==
  ASSUME ProgramInv, FlowInv, OneWay => OrderInv, [Step]_programVars
  PROVE  (OneWay => OrderInv)'
<1>1. graph' = graph
  BY StepEffect
<1>2. OneWay' <=> OneWay
  <2>1. Stages' = Stages /\ \A s : Kind(s)' = Kind(s) /\ In(s)' = In(s)
    BY <1>1, GraphStays
  <2>2. \A c : Producer(c)' = Producer(c)
    BY <1>1, GraphStays
  <2>3. \A t : Below(t)' = Below(t)
    BY <1>1, GraphStaysBelow
  <2>. QED
    BY <2>1, <2>2, <2>3 DEF OneWay
<1>3. ASSUME OneWay PROVE OrderInv'
  <2>1. OrderInv
    BY <1>3
  <2>2. ASSUME NEW s \in Stages, Makes(s) PROVE OrderInv'
    BY <1>1, <2>1, <2>2, MakesOrder
  <2>3. ASSUME NEW s \in Stages, NEW i \in DOMAIN stage[s].todo, Puts(s, i) PROVE OrderInv'
    BY <1>1, <2>1, <2>3, PutsOrder
  <2>4. ASSUME NEW r \in Stages, NEW c \in In(r), NEW e \in Item, Takes(r, c, e) PROVE OrderInv'
    BY <1>1, <1>3, <2>1, <2>4, TakesOrder
  <2>. QED
    BY <1>1, <2>1, <2>2, <2>3, <2>4, RestsOrder, StepEffect
<1>. QED
  BY <1>2, <1>3

\* A program starts with nothing in it.
LEMMA OrderInvInit == ProgramInit => OrderInv
<1>. SUFFICES ASSUME ProgramInit PROVE OrderInv
  OBVIOUS
<1>1. ProgramInv
  BY ProgramInvInit
<1>2. \A c \in Channels : buf[c] = <<>> /\ Producer(c) \in Stages
  BY <1>1, ChannelFacts DEF ProgramInit
<1>3. \A s \in Stages : stage[s].todo = <<>> /\ got[s] = <<>>
  BY DEF ProgramInit
<1>4. \A i : ~(i \in DOMAIN <<>>)
  OBVIOUS
<1>5. \A c \in Channels : \A e : ~InBuf(c, e) /\ ~InTodo(c, e)
  BY <1>2, <1>3, <1>4 DEF InBuf, InTodo
<1>6. \A c \in Channels : \A e, f \in Item : ~Behind(c, e, f)
  BY <1>2, <1>4, <1>5 DEF Behind
<1>. QED
  BY <1>3, <1>4, <1>5, <1>6 DEF OrderInv, At

\* Of each generator, a terminator receives the elements in the order they were
\* made, and none twice ...
InOrder ==
  OneWay => \A s \in Stages : \A i, j \in DOMAIN got[s] :
              i < j /\ got[s][i].gen = got[s][j].gen => Size(got[s][i]) < Size(got[s][j])

\* ... in every program in which no stage joins two streams that come from the same
\* generator: what is further downstream was made earlier.
THEOREM ElementsStayInOrder == ProgramSpec => []InOrder
<1>1. ProgramSpec => [](OneWay => OrderInv)
  BY ProgramInvariance, OnlyWhatIsMade, OrderInvInit, OrderInvStep, ProgramSteps, PTL DEF ProgramSpec
<1>2. (OneWay => OrderInv) => InOrder
  BY DEF OrderInv, InOrder, Earlier
<1>. QED
  BY <1>1, <1>2, PTL

-----------------------------------------------------------------------------
(* How stages end.  *)

\* Stage s becomes x: one that has returned stays as it is, one that returns now
\* has been told to, has reached its limit, or has nothing left to make or to read;
\* and so it is with one input of several.
Ending(s, x) ==
  /\ stage[s].pc = "done" => x = stage[s]
  /\ x.pc = "done" /\ stage[s].pc # "done" =>
       /\ x.count = stage[s].count
       /\ Kind(s) \in Sources => graph[s].out[1] \in closedCtrl
       /\ Kind(s) \in Generators => graph[s].out[1] \in closedCtrl \/ stage[s].count >= graph[s].n
       /\ Kind(s) \in Operators \cup Terminators => AtLimit(s) \/ \A c \in In(s) : buf[c] = <<>>
  /\ \A c \in stage[s].active \ x.active : buf[c] = <<>>

AllEnding == closedCtrl \subseteq closedCtrl' /\ \A s \in Stages : Ending(s, stage'[s])

\* A stage that does not change.
LEMMA Untouched ==
  ASSUME NEW s
  PROVE  Ending(s, stage[s])
BY DEF Ending

\* One stage changes, the others do not.
LEMMA OneEnds ==
  ASSUME ProgramInv, NEW s \in Stages, NEW x, stage' = [stage EXCEPT ![s] = x], Ending(s, x),
         closedCtrl \subseteq closedCtrl'
  PROVE  AllEnding
<1>1. stage'[s] = x /\ \A t \in Stages : t # s => stage'[t] = stage[t]
  BY DEF ProgramInv, ProgramTypeOK
<1>. QED
  BY <1>1, Untouched DEF AllEnding

\* A stage that runs and goes on reading what it reads.
LEMMA GoesOn ==
  ASSUME NEW s, NEW x, x.pc # "done", stage[s].pc # "done", x.active = stage[s].active
  PROVE  Ending(s, x)
BY DEF Ending

\* A stage returns that has a reason to.
LEMMA ReturnEnds ==
  ASSUME ProgramInv, NEW s \in Stages, NEW closes, Return(s, closes), closedCtrl' = closedCtrl,
         stage[s].pc = "run",
         Kind(s) \in Sources => graph[s].out[1] \in closedCtrl,
         Kind(s) \in Generators => graph[s].out[1] \in closedCtrl \/ stage[s].count >= graph[s].n,
         Kind(s) \in Operators \cup Terminators => AtLimit(s) \/ \A c \in In(s) : buf[c] = <<>>
  PROVE  AllEnding
<1>. DEFINE x == [stage[s] EXCEPT !.pc = "done", !.todo = <<>>]
<1>1. stage' = [stage EXCEPT ![s] = x]
  BY DEF Return
<1>2. <<>> \in Todos /\ stage[s] \in StageState
  BY StageTypes DEF Todos
<1>3. x.count = stage[s].count /\ x.active = stage[s].active
  BY <1>2 DEF StageState
<1>. HIDE DEF x
<1>4. Ending(s, x)
  BY <1>3 DEF Ending
<1>. QED
  BY <1>1, <1>4, OneEnds

\* The steps that move elements end no stage.
LEMMA ElementsEnd ==
  ASSUME ProgramInv, NEW s \in Stages,
         Send(s) \/ HandOver(s) \/ Drop(s) \/ Generate(s) \/ \E c \in In(s) : Receive(s, c)
  PROVE  AllEnding
<1>1. stage[s] \in StageState /\ stage \in [Stages -> StageState] /\ (stage[s].todo # <<>> => stage[s].pc = "run")
  BY StageTypes DEF ProgramInv, ProgramTypeOK
<1>2. ASSUME NEW r \in Stages, NEW c, Ready(r, c), NEW e \in Item
      PROVE  Ending(r, Taken(r, e)) /\ Taken(r, e) \in StageState
  <2>1. /\ Taken(r, e) \in StageState /\ Taken(r, e).pc = "run" /\ stage[r].pc = "run"
        /\ Taken(r, e).active = stage[r].active
    BY <1>2, TakenForm
  <2>. QED
    BY <2>1, GoesOn
<1>3. CASE Send(s) \/ Drop(s)
  <2>1. PICK q : /\ stage' = [stage EXCEPT ![s] = [stage[s] EXCEPT !.todo = q]]
                 /\ stage[s].todo # <<>> /\ closedCtrl' = closedCtrl
    <3>1. CASE Send(s)
      <4>1. PICK i \in Next1(s) : stage' = [stage EXCEPT ![s].todo = RemoveAt(@, i)] /\ closedCtrl' = closedCtrl
        BY <3>1 DEF Send
      <4>2. stage[s].todo # <<>>
        BY <4>1 DEF Next1
      <4>. QED
        BY <4>1, <4>2
    <3>2. CASE Drop(s)
      BY <3>2 DEF Drop, CanDrop
    <3>. QED
      BY <1>3, <3>1, <3>2
  <2>. DEFINE x == [stage[s] EXCEPT !.todo = q]
  <2>2. x.pc = "run" /\ x.active = stage[s].active /\ stage[s].pc = "run"
    BY <1>1, <2>1 DEF StageState
  <2>3. stage' = [stage EXCEPT ![s] = x]
    BY <2>1
  <2>. HIDE DEF x
  <2>. QED
    BY <2>1, <2>2, <2>3, GoesOn, OneEnds
<1>4. CASE HandOver(s)
  <2>1. PICK i \in Next1(s) :
          LET c == stage[s].todo[i][1]
              e == stage[s].todo[i][2]
              r == Reader(c)
          IN /\ CanHandOver(s, i)
             /\ stage' = [stage EXCEPT ![s].todo = RemoveAt(@, i), ![r] = Taken(r, e)]
             /\ closedCtrl' = closedCtrl
    BY <1>4 DEF HandOver
  <2>. DEFINE c == stage[s].todo[i][1]
              e == stage[s].todo[i][2]
              r == Reader(c)
              l == RemoveAt(stage[s].todo, i)
              y == [stage[s] EXCEPT !.todo = l]
  <2>2. i \in DOMAIN stage[s].todo /\ stage[s].todo # <<>>
    BY DEF Next1
  <2>3. c \in Channels /\ Producer(c) = s /\ e \in Item
    BY <2>2, StageTypes
  <2>4. r \in Stages /\ r # s /\ Ready(r, c)
    <3>1. Ready(r, c)
      BY <2>1 DEF CanHandOver
    <3>2. c \in Channels /\ Producer(c) = s /\ Wired(graph)
      BY <2>3, StageTypes
    <3>. HIDE DEF c, r
    <3>3. r = Reader(c)
      BY DEF c, r
    <3>4. r \in Stages /\ s < r /\ s \in Nat /\ r \in Nat
      BY <3>2, <3>3, Ends
    <3>. QED
      BY <3>1, <3>4
  <2>5. y.pc = "run" /\ y.active = stage[s].active /\ stage[s].pc = "run"
    BY <1>1, <2>2 DEF StageState
  <2>6. stage' = [stage EXCEPT ![s].todo = l, ![r] = Taken(r, e)]
    BY <2>1
  <2>. HIDE DEF c, e, r, l
  <2>7. /\ stage'[s] = y /\ stage'[r] = Taken(r, e)
        /\ \A t \in Stages : t # s /\ t # r => stage'[t] = stage[t]
    BY <1>1, <2>4, <2>6
  <2>. HIDE DEF y
  <2>8. Ending(s, y)
    BY <2>5, GoesOn
  <2>9. Ending(r, Taken(r, e))
    BY <1>2, <2>3, <2>4
  <2>. QED
    BY <2>1, <2>7, <2>8, <2>9, Untouched DEF AllEnding
<1>5. CASE Generate(s)
  <2>1. PICK q : /\ stage' = [stage EXCEPT ![s].todo = q, ![s].count = @ + 1]
                 /\ stage[s].pc = "run" /\ closedCtrl' = closedCtrl
    BY <1>5 DEF Generate, CanGenerate, AtSelect
  <2>. DEFINE x == [stage[s] EXCEPT !.todo = q, !.count = @ + 1]
  <2>2. x.pc = "run" /\ x.active = stage[s].active
    BY <1>1, <2>1 DEF StageState
  <2>3. stage' = [stage EXCEPT ![s] = x]
    BY <1>1, <2>1
  <2>. HIDE DEF x
  <2>. QED
    BY <2>1, <2>2, <2>3, GoesOn, OneEnds
<1>6. ASSUME NEW c \in In(s), Receive(s, c) PROVE AllEnding
  <2>1. /\ Ready(s, c) /\ buf[c] # <<>> /\ closedCtrl' = closedCtrl
        /\ stage' = [stage EXCEPT ![s] = Taken(s, Head(buf[c]))]
    BY <1>6 DEF Receive, CanReceive
  <2>2. Head(buf[c]) \in Item
    <3>1. c \in Channels
      BY StageTypes, InAndOut
    <3>2. buf[c] \in Seq(Item)
      BY <3>1, ChannelFacts
    <3>. QED
      BY <2>1, <3>2
  <2>3. Ending(s, Taken(s, Head(buf[c])))
    BY <1>2, <2>1, <2>2
  <2>. QED
    BY <2>1, <2>3, OneEnds
<1>. QED
  BY <1>3, <1>4, <1>5, <1>6

\* The steps that end a stage have their reason.
LEMMA ReturnsEnd ==
  ASSUME ProgramInv, NEW s \in Stages,
         Stop(s) \/ StopSource(s) \/ End(s) \/ ReachLimit(s) \/ LeaveLoop(s)
  PROVE  AllEnding
<1>1. Wired(graph) /\ Kind(s) \in Kinds
  BY ProgramFacts
<1>2. CASE Stop(s)
  <2>1. Return(s, Out(s)) /\ closedCtrl' = closedCtrl /\ stage[s].pc = "run" /\ Kind(s) \in Generators
    BY <1>2 DEF Stop, CanStop, AtSelect, Generators
  <2>2. Kind(s) \notin Sources \cup Operators \cup Terminators
    BY <2>1, KindsDiffer DEF Single
  <2>3. graph[s].out[1] \in closedCtrl \/ stage[s].count >= graph[s].n
    BY <1>2, StageTypes DEF Stop, CanStop, StageState
  <2>. QED
    BY <2>1, <2>2, <2>3, ReturnEnds
<1>3. CASE StopSource(s)
  <2>1. /\ Return(s, Out(s)) /\ closedCtrl' = closedCtrl /\ stage[s].pc = "run" /\ Kind(s) \in Sources
        /\ graph[s].out[1] \in closedCtrl
    BY <1>3 DEF StopSource, CanStopSource, AtSelect
  <2>2. Kind(s) \notin Generators \cup Operators \cup Terminators
    BY <2>1, KindsDiffer DEF Single
  <2>. QED
    BY <2>1, <2>2, ReturnEnds
<1>4. CASE End(s)
  <2>1. /\ Return(s, Out(s)) /\ closedCtrl' = closedCtrl /\ Kind(s) \in Operators \cup Terminators
        /\ \E c \in In(s) : Ready(s, c) /\ buf[c] = <<>>
    BY <1>4 DEF End, CanEnd
  <2>2. Kind(s) \notin Generators \cup Sources /\ In(s) = {graph[s].in[1]}
    BY <1>1, <2>1, KindsDiffer, Shapes DEF Single
  <2>3. stage[s].pc = "run" /\ \A c \in In(s) : buf[c] = <<>>
    BY <2>1, <2>2 DEF Ready, AtSelect
  <2>. QED
    BY <2>1, <2>2, <2>3, ReturnEnds
<1>5. CASE ReachLimit(s)
  <2>1. /\ Return(s, Out(s)) /\ closedCtrl' = closedCtrl /\ stage[s].pc = "run" /\ AtLimit(s)
        /\ Kind(s) \notin Generators \cup Sources
    BY <1>5 DEF ReachLimit, CanReachLimit, AtSelect, AtLimit, Sources, Generators
  <2>. QED
    BY <2>1, ReturnEnds
<1>6. CASE LeaveLoop(s)
  <2>1. /\ Return(s, {}) /\ closedCtrl' = closedCtrl /\ stage[s].pc = "run" /\ Kind(s) = "repeater"
    BY <1>6 DEF LeaveLoop, CanLeaveLoop, AtSelect
  <2>2. Kind(s) \notin Generators \cup Sources \cup Operators \cup Terminators
    BY <2>1, KindsDiffer DEF Single
  <2>. QED
    BY <2>1, <2>2, ReturnEnds
<1>. QED
  BY <1>2, <1>3, <1>4, <1>5, <1>6

\* A stage with several inputs, or a repeater, stops looking at one.
LEMMA InputsEnd ==
  ASSUME ProgramInv, NEW s \in Stages,
         (\E c \in In(s) : DropInput(s, c)) \/ RelayStop(s) \/ CloseRepeater(s) \/ EndChildren(s)
  PROVE  AllEnding
<1>1. stage[s] \in StageState /\ s \in Nat /\ Wired(graph) /\ stage[s].active \subseteq In(s)
  BY StageTypes, ProgramFacts DEF ReadsOpen
<1>2. Mergers \cap (Generators \cup Sources \cup Operators \cup Terminators) = {}
  BY KindsDiffer DEF Single
<1>3. ASSUME NEW c \in In(s), DropInput(s, c) PROVE AllEnding
  <2>. DEFINE left == stage[s].active \ {c}
              end  == left = {} /\ (Kind(s) = "join" \/ ~stage[s].ctrl)
              x == [stage[s] EXCEPT !.active = left, !.pc = IF end THEN "done" ELSE @]
  <2>1. /\ stage' = [stage EXCEPT ![s] = x] /\ closedCtrl' = closedCtrl
        /\ Kind(s) \in Mergers /\ buf[c] = <<>> /\ stage[s].pc = "run"
    BY <1>3 DEF DropInput, CanDropInput, Ready, AtSelect
  <2>. HIDE DEF end
  <2>2. x.active = stage[s].active \ {c} /\ x.count = stage[s].count
    BY <1>1 DEF StageState
  <2>. HIDE DEF x
  <2>3. Ending(s, x)
    BY <1>2, <2>1, <2>2 DEF Ending
  <2>. QED
    BY <2>1, <2>3, OneEnds
<1>4. CASE RelayStop(s)
  <2>. DEFINE end == Kind(s) = "joiner" /\ stage[s].active = {}
              x == [stage[s] EXCEPT !.ctrl = FALSE, !.pc = IF end THEN "done" ELSE @]
  <2>1. /\ stage' = [stage EXCEPT ![s] = x] /\ closedCtrl \subseteq closedCtrl'
        /\ Kind(s) \in Mergers /\ stage[s].pc = "run"
    BY <1>4 DEF RelayStop, CanRelayStop, AtSelect, CloseInputs
  <2>. HIDE DEF end
  <2>2. x.active = stage[s].active /\ x.count = stage[s].count
    BY <1>1 DEF StageState
  <2>. HIDE DEF x
  <2>3. Ending(s, x)
    BY <1>2, <2>1, <2>2 DEF Ending
  <2>. QED
    BY <2>1, <2>3, OneEnds
<1>5. CASE CloseRepeater(s)
  <2>. DEFINE x == [stage[s] EXCEPT !.ctrl = FALSE]
  <2>1. /\ stage' = [stage EXCEPT ![s] = x] /\ closedCtrl \subseteq closedCtrl'
        /\ Kind(s) = "repeater" /\ stage[s].pc = "run"
    BY <1>5 DEF CloseRepeater, CanCloseRepeater, AtSelect, CloseInputs
  <2>2. x.active = stage[s].active /\ x.pc = "run"
    BY <1>1, <2>1 DEF StageState
  <2>. HIDE DEF x
  <2>. QED
    BY <2>1, <2>2, GoesOn, OneEnds
<1>6. CASE EndChildren(s)
  <2>. DEFINE x == [stage[s] EXCEPT !.active = {}]
  <2>1. /\ stage' = [stage EXCEPT ![s] = x] /\ closedCtrl' = closedCtrl
        /\ Kind(s) = "repeater" /\ \E c \in In(s) : Ready(s, c) /\ buf[c] = <<>>
    BY <1>6 DEF EndChildren, CanEndChildren
  <2>2. x.active = {} /\ x.pc = stage[s].pc /\ x.count = stage[s].count
    BY <1>1 DEF StageState
  <2>. HIDE DEF x
  <2>3. In(s) = {graph[s].in[1]}
    BY <1>1, <2>1, Shapes DEF Single
  <2>4. stage[s].pc = "run" /\ \A c \in stage[s].active : buf[c] = <<>>
    BY <1>1, <2>1, <2>3 DEF Ready, AtSelect
  <2>5. Ending(s, x)
    BY <2>2, <2>4 DEF Ending
  <2>. QED
    BY <2>1, <2>5, OneEnds
<1>. QED
  BY <1>3, <1>4, <1>5, <1>6

\* The owners of the streams end no stage, but for a subscriber that leaves.
LEMMA OwnersEnd ==
  ASSUME ProgramInv, OwnerStep \/ (\E s \in Stages : \E c \in Out(s) : RemoveChild(s, c)) \/ UNCHANGED programVars
  PROVE  AllEnding
<1>1. ASSUME stage' = stage, closedCtrl \subseteq closedCtrl' PROVE AllEnding
  BY <1>1, Untouched DEF AllEnding
<1>2. ASSUME NEW s \in Stages, NEW on \in BOOLEAN, Turn(s, on) PROVE AllEnding
  <2>. DEFINE x == [stage[s] EXCEPT !.on = on]
  <2>1. stage' = [stage EXCEPT ![s] = x] /\ closedCtrl' = closedCtrl /\ stage[s].pc = "run"
    BY <1>2 DEF Turn, AtSelect
  <2>2. x.active = stage[s].active /\ x.pc = "run"
    BY <2>1, StageTypes DEF StageState
  <2>. HIDE DEF x
  <2>. QED
    BY <2>1, <2>2, GoesOn, OneEnds
<1>3. ASSUME NEW s \in Stages, Leave(s) PROVE AllEnding
  <2>. DEFINE x == [stage[s] EXCEPT !.pc = "left"]
  <2>1. stage' = [stage EXCEPT ![s] = x] /\ closedCtrl' = closedCtrl /\ stage[s].pc = "run"
    BY <1>3 DEF Leave, AtSelect
  <2>2. x.active = stage[s].active /\ x.pc = "left"
    BY <2>1, StageTypes DEF StageState
  <2>. HIDE DEF x
  <2>. QED
    BY <2>1, <2>2, GoesOn, OneEnds
<1>4. ASSUME NEW k, CloseCtrl(k) PROVE AllEnding
  BY <1>1, <1>4 DEF CloseCtrl
<1>5. ASSUME NEW s \in Stages, NEW c, AddChild(s, c) \/ RemoveChild(s, c) PROVE AllEnding
  BY <1>1, <1>5 DEF AddChild, RemoveChild
<1>. QED
  BY <1>1, <1>2, <1>3, <1>4, <1>5 DEF OwnerStep, programVars

\* So no step ends a stage without a reason.
LEMMA StepEnds ==
  ASSUME ProgramInv, [Step]_programVars
  PROVE  AllEnding
<1>1. ASSUME NEW s \in Stages, StageStep(s) PROVE AllEnding
  BY <1>1, ElementsEnd, ReturnsEnd, InputsEnd, OwnersEnd DEF StageStep, GoOn
<1>. QED
  BY <1>1, OwnersEnd DEF Step

\* A stage that has returned, or that does not look at an input any more, has left
\* nothing in it: unless it is a limit, or a source that was told to stop.  A
\* generator that was not told to has made everything.
Drained ==
  /\ \A s \in Stages : stage[s].pc = "done" /\ Kind(s) \in Operators \cup Terminators /\ ~AtLimit(s) =>
       \A c \in In(s) : buf[c] = <<>>
  /\ \A s \in Stages : \A c \in In(s) \ stage[s].active : buf[c] = <<>>
  /\ \A s \in Stages : stage[s].pc = "done" /\ Kind(s) \in Sources => graph[s].out[1] \in closedCtrl
  /\ \A s \in Stages : stage[s].pc = "done" /\ Kind(s) \in Generators =>
       graph[s].out[1] \in closedCtrl \/ stage[s].count >= graph[s].n

\* Nothing is put into a channel that is closed.
LEMMA StaysEmpty ==
  ASSUME ProgramInv, [Step]_programVars, NEW c \in Channels, buf[c] = <<>>, chan'[c] = "closed"
  PROVE  buf'[c] = <<>>
<1>1. buf \in [Channels -> Seq(Item)]
  BY DEF ProgramInv, ProgramTypeOK
<1>2. CASE Rests \/ \E s \in Stages : Makes(s)
  BY <1>2 DEF Rests, Makes
<1>3. ASSUME NEW s \in Stages, NEW i \in DOMAIN stage[s].todo, Puts(s, i) PROVE buf'[c] = <<>>
  <2>. DEFINE d == stage[s].todo[i][1]
  <2>1. buf' = [buf EXCEPT ![d] = Append(@, stage[s].todo[i][2])] /\ chan' = chan
    BY <1>3 DEF Puts
  <2>2. d \in Channels /\ chan[d] = "open"
    BY StageTypes
  <2>. QED
    BY <1>1, <2>1, <2>2
<1>4. ASSUME NEW r \in Stages, NEW d \in In(r), NEW e \in Item, Takes(r, d, e) PROVE buf'[c] = <<>>
  <2>1. d \in Channels
    BY <1>4, TakesFacts
  <2>2. buf' = buf \/ (buf[d] # <<>> /\ buf' = [buf EXCEPT ![d] = Tail(@)])
    BY <1>4 DEF Takes
  <2>. QED
    BY <1>1, <2>1, <2>2
<1>. QED
  BY <1>2, <1>3, <1>4, StepEffect

\* The same after a step.
DrainedNow ==
  /\ \A s \in Stages : stage'[s].pc = "done" /\ Kind(s) \in Operators \cup Terminators /\ ~(AtLimit(s)') =>
       \A c \in In(s) : buf'[c] = <<>>
  /\ \A s \in Stages : \A c \in In(s) \ stage'[s].active : buf'[c] = <<>>
  /\ \A s \in Stages : stage'[s].pc = "done" /\ Kind(s) \in Sources => graph[s].out[1] \in closedCtrl'
  /\ \A s \in Stages : stage'[s].pc = "done" /\ Kind(s) \in Generators =>
       graph[s].out[1] \in closedCtrl' \/ stage'[s].count >= graph[s].n

\* The invariant after a step, from what it says of the primed variables.
LEMMA DrainedNext ==
  ASSUME graph' = graph, DrainedNow
  PROVE  Drained'
<1>1. Stages' = Stages /\ \A s : Kind(s)' = Kind(s) /\ In(s)' = In(s)
  BY GraphStays
<1>. QED
  BY <1>1 DEF Drained, DrainedNow

\* Every step of a program leaves what is drained empty.
LEMMA DrainedStep ==
  ASSUME ProgramInv, Drained, [Step]_programVars
  PROVE  Drained'
<1>1. graph' = graph /\ ProgramInv' /\ closedCtrl \subseteq closedCtrl' /\ \A s \in Stages : Ending(s, stage'[s])
  BY StepEffect, ProgramInvStep, StepEnds DEF AllEnding
<1>2. Stages' = Stages /\ Channels' = Channels /\ \A s : Kind(s)' = Kind(s) /\ In(s)' = In(s)
  BY <1>1, GraphStays
<1>3. \A s \in Stages : ReadsOpen(s)' /\ ReturnsAtEnd(s)' /\ In(s) \subseteq Channels
  <2>1. \A s \in Stages : StageOK(s)'
    BY <1>1, <1>2 DEF ProgramInv
  <2>. QED
    BY <2>1, Around DEF StageOK
<1>4. ASSUME NEW s \in Stages, stage'[s].pc = "done", Kind(s) \in Operators \cup Terminators, ~(AtLimit(s)'),
             NEW c \in In(s)
      PROVE  buf'[c] = <<>>
  <2>1. chan'[c] = "closed" /\ c \in Channels
    BY <1>2, <1>3, <1>4 DEF ReturnsAtEnd
  <2>2. stage'[s].count = stage[s].count
    BY <1>1, <1>4 DEF Ending
  <2>3. ~AtLimit(s)
    BY <1>1, <1>2, <1>4, <2>2 DEF AtLimit
  <2>4. buf[c] = <<>>
    BY <1>1, <1>4, <2>3 DEF Ending, Drained
  <2>. QED
    BY <2>1, <2>4, StaysEmpty
<1>5. ASSUME NEW s \in Stages, NEW c \in In(s) \ stage'[s].active
      PROVE  buf'[c] = <<>>
  <2>1. chan'[c] = "closed" /\ c \in Channels
    BY <1>2, <1>3, <1>5 DEF ReadsOpen
  <2>2. buf[c] = <<>>
    BY <1>1, <1>5 DEF Ending, Drained
  <2>. QED
    BY <2>1, <2>2, StaysEmpty
<1>6. ASSUME NEW s \in Stages, stage'[s].pc = "done", Kind(s) \in Sources
      PROVE  graph[s].out[1] \in closedCtrl'
  BY <1>1, <1>6 DEF Ending, Drained
<1>7. ASSUME NEW s \in Stages, stage'[s].pc = "done", Kind(s) \in Generators
      PROVE  graph[s].out[1] \in closedCtrl' \/ stage'[s].count >= graph[s].n
  BY <1>1, <1>7 DEF Ending, Drained
<1>. QED
  BY <1>1, <1>4, <1>5, <1>6, <1>7, DrainedNext DEF DrainedNow

\* A program starts with no stage ended.
LEMMA DrainedInit == ProgramInit => Drained
<1>. SUFFICES ASSUME ProgramInit PROVE Drained
  OBVIOUS
<1>1. \A s \in Stages : stage[s].pc = "run" /\ stage[s].active = In(s)
  BY DEF ProgramInit
<1>. QED
  BY <1>1 DEF Drained

-----------------------------------------------------------------------------
(* Everything arrives.  *)

\* What there is to read is read.
LEMMA AllRead ==
  ASSUME ProgramInv, FlowInv, Drained, Quiescent, closedCtrl = {}, Deaf = {}, NEW c \in Channels
  PROVE  buf[c] = <<>>
<1>. DEFINE r == Reader(c)
<1>1. /\ r \in Stages /\ c \in In(r) /\ Kind(r) \in Kinds \ Generators
      /\ stage[r].pc \in {"run", "done", "left"} /\ ReadsOpen(r) /\ ReturnsAtEnd(r)
      /\ graph[r].n \in Nat /\ stage[r].count \in Nat
      /\ buf[c] \in Seq(Item) /\ chan[c] \in {"new", "open", "closed"} /\ ChannelOK(c)
  BY ChannelFacts, ProgramFacts DEF ProgramInv
<1>. HIDE DEF r
<1>2. SUFFICES ASSUME buf[c] # <<>> PROVE FALSE
  OBVIOUS
<1>3. c \in stage[r].active
  BY <1>1, <1>2 DEF Drained
<1>4. stage[r].pc = "run"
  <2>1. stage[r].pc # "left"
    BY <1>1 DEF Deaf
  <2>2. ASSUME stage[r].pc = "done" PROVE FALSE
    <3>1. Kind(r) \notin Mergers \cup {"repeater"}
      BY <1>1, <1>3, <2>2 DEF ReturnsAtEnd
    <3>2. Kind(r) \notin Sources
      BY <1>1, <2>2 DEF Drained
    <3>3. Kind(r) \in Operators \cup Terminators
      BY <1>1, <3>1, <3>2 DEF Kinds
    <3>4. AtLimit(r)
      BY <1>1, <1>2, <2>2, <3>3 DEF Drained
    <3>. QED
      BY <1>1, <2>2, <3>4 DEF AtLimit, Deaf
  <2>. QED
    BY <1>1, <2>1, <2>2
<1>5. stage[r].todo = <<>>
  <2>1. ~Wrapped(r)
    BY <1>1 DEF Wrapped
  <2>. QED
    BY <1>1, <2>1, WaitsForTheDeaf DEF Waits
<1>6. chan[c] # "new"
  <2>1. Len(buf[c]) <= Capacity(c) /\ Len(buf[c]) # 0
    BY <1>1, <1>2 DEF FlowInv
  <2>2. chan[c] = "new" => Capacity(c) = 0
    BY <1>1 DEF ChannelOK, Capacity
  <2>. QED
    BY <1>1, <2>1, <2>2
<1>7. Kind(r) = "valve" => stage[r].on
  BY <1>1 DEF Deaf
<1>8. Kind(r) = "limit" => stage[r].count < graph[r].n
  BY <1>1, <1>4, <1>5 DEF Quiescent, CanReachLimit, AtSelect
<1>9. CanReceive(r, c)
  BY <1>2, <1>3, <1>4, <1>5, <1>6, <1>7, <1>8 DEF CanReceive, Ready, AtSelect
<1>. QED
  BY <1>1, <1>9 DEF Quiescent

\* ... and nobody has anything to send.
LEMMA AllSent ==
  ASSUME ProgramInv, FlowInv, Drained, Quiescent, closedCtrl = {}, Deaf = {}, NEW s \in Stages
  PROVE  stage[s].todo = <<>>
<1>1. SUFFICES ASSUME Waits(s) PROVE FALSE
  BY DEF Waits
<1>2. Wrapped(s)
  BY <1>1, WaitsForTheDeaf
<1>3. PICK i \in DOMAIN stage[s].todo : i \in Next1(s)
  <2>1. stage[s].todo \in Seq(Nat \X Item) /\ stage[s].todo # <<>>
    BY <1>1, StageTypes DEF Waits
  <2>2. 1 \in DOMAIN stage[s].todo
    BY <2>1
  <2>. QED
    BY <2>2 DEF Next1
<1>. DEFINE c == stage[s].todo[i][1]
<1>4. c \in Channels /\ Producer(c) = s
  BY <1>3, NotReady
<1>5. buf[c] = <<>> /\ Capacity(c) > 0
  <2>1. Kind(s) \in Generators /\ BufferCap > 0
    BY <1>2, BufferCapIsPositive DEF Wrapped
  <2>2. Kind(s) \notin {"buffer", "overflow", "valve", "throttle", "limit", "repeater"} \cup Sources
    BY <2>1 DEF Generators, Sources
  <2>. HIDE DEF c
  <2>3. Capacity(c) = BufferCap
    BY <1>4, <2>2 DEF Capacity
  <2>. QED
    BY <1>4, <2>1, <2>3, AllRead
<1>6. CanSend(s, i)
  BY <1>5 DEF CanSend
<1>. QED
  BY <1>3, <1>6 DEF Quiescent

\* In a program that stands still, of which nothing has been closed and in which
\* everybody reads, no element is left on its way.
NothingStays == Quiescent /\ closedCtrl = {} /\ Deaf = {} => \A c \in Channels : \A e \in Item : ~At(c, e)

\* The invariants leave nothing on its way in such a program.
LEMMA NothingStaysIs ==
  ASSUME ProgramInv, FlowInv, Drained
  PROVE  NothingStays
<1>1. SUFFICES ASSUME Quiescent, closedCtrl = {}, Deaf = {}, NEW c \in Channels, NEW e \in Item PROVE ~At(c, e)
  BY DEF NothingStays
<1>2. buf[c] = <<>> /\ stage[Producer(c)].todo = <<>>
  BY <1>1, AllRead, AllSent, ChannelFacts
<1>3. \A i : ~(i \in DOMAIN <<>>)
  OBVIOUS
<1>. QED
  BY <1>2, <1>3 DEF At, InBuf, InTodo

-----------------------------------------------------------------------------
(* Where an element is sure to come to.  *)

\* An element that is at channel p[1] with number p[2] comes, when it is taken, to
\* channel q[1] with number q[2].
ComesTo(open, p, q) ==
  q[1] \in Out(Reader(p[1])) /\ Forwards(Reader(p[1]), p[2], q[1], q[2], open)
Places == Channels \X Int
Arrows(open) == {a \in Places \X Places : ComesTo(open, a[1], a[2])}

\* The channels it comes to, one after the other, and with which numbers.
Ahead(open, c, n) == Reached(Places, Arrows(open), <<c, n>>)

\* An element comes to where it is, and to where its reader sends it.
LEMMA AheadIs ==
  ASSUME Wired(graph), NEW open, NEW c \in Channels, NEW n \in Int
  PROVE  /\ <<c, n>> \in Ahead(open, c, n)
         /\ \A q \in Ahead(open, c, n) :
              \/ q = <<c, n>>
              \/ \E d \in Out(Reader(c)), m \in Int :
                   d \in Channels /\ Forwards(Reader(c), n, d, m, open) /\ q \in Ahead(open, d, m)
<1>. DEFINE R == Arrows(open)
            x == <<c, n>>
<1>1. R \in SUBSET (Places \X Places) /\ x \in Places
  BY DEF Arrows, Places
<1>2. Ahead(open, c, n) = {x} \cup UNION {Reached(Places, R, p[2]) : p \in {y \in R : y[1] = x}}
  <2>1. Ahead(open, c, n) = Reached(Places, R, x)
    BY DEF Ahead
  <2>. HIDE DEF R, x
  <2>. QED
    BY <1>1, <2>1, ReachedIs
<1>3. ASSUME NEW q \in Ahead(open, c, n), q # x
      PROVE  \E d \in Out(Reader(c)), m \in Int :
               d \in Channels /\ Forwards(Reader(c), n, d, m, open) /\ q \in Ahead(open, d, m)
  <2>1. PICK p \in R : p[1] = x /\ q \in Reached(Places, R, p[2])
    <3>. HIDE DEF R, x
    <3>. QED
      BY <1>2, <1>3
  <2>2. /\ p[2] \in Places /\ p[2][1] \in Out(Reader(c))
        /\ Forwards(Reader(c), n, p[2][1], p[2][2], open)
    BY <2>1 DEF Arrows, ComesTo
  <2>3. p[2] = <<p[2][1], p[2][2]>> /\ p[2][1] \in Channels /\ p[2][2] \in Int
    BY <2>2 DEF Places
  <2>4. q \in Ahead(open, p[2][1], p[2][2])
    BY <2>1, <2>3 DEF Ahead
  <2>. QED
    BY <2>2, <2>3, <2>4
<1>. QED
  BY <1>2, <1>3

\* What is forwarded keeps its number, its sign aside.
LEMMA ForwardsSize ==
  ASSUME NEW s, NEW n \in Int, NEW d, NEW m \in Int, NEW open, Forwards(s, n, d, m, open)
  PROVE  m = n \/ m = -n
BY DEF Forwards, Mergers

\* It keeps it all the way, and comes to stages below.
LEMMA AheadBelow ==
  ASSUME Wired(graph), NEW open, NEW c \in Channels, NEW n \in Int, NEW q \in Ahead(open, c, n)
  PROVE  /\ q[1] \in Channels /\ q[2] \in Int /\ (q[2] = n \/ q[2] = -n)
         /\ Reader(q[1]) \in Below(Reader(c))
<1>. DEFINE P(b) == \A k \in Int : \A y \in Ahead(open, b, k) :
                      /\ y[1] \in Channels /\ y[2] \in Int /\ (y[2] = k \/ y[2] = -k)
                      /\ Reader(y[1]) \in Below(Reader(b))
            Bad == {b \in Channels : ~P(b)}
            T == {Reader(b) : b \in Bad}
<1>1. SUFFICES ASSUME Bad # {} PROVE FALSE
  OBVIOUS
<1>2. T \subseteq Stages /\ T # {}
  <2>. HIDE DEF P
  <2>. QED
    BY <1>1, Ends
<1>3. PICK x \in T : \A y \in T : y <= x
  <2>. HIDE DEF T
  <2>. QED
    BY <1>2, LastOf
<1>4. PICK b \in Bad : x = Reader(b)
  OBVIOUS
<1>5. b \in Channels /\ ~P(b)
  OBVIOUS
<1>6. Reader(b) \in Stages /\ Reader(b) \in Nat
  BY <1>5, Ends
<1>7. ASSUME NEW d \in Out(Reader(b)), d \in Channels
      PROVE  P(d) /\ Reader(d) \in Below(Reader(b)) /\ Below(Reader(d)) \subseteq Below(Reader(b))
  <2>1. Producer(d) = Reader(b) /\ Reader(d) \in Stages /\ Reader(b) < Reader(d) /\ Reader(d) \in Nat
    BY <1>6, <1>7, Ends
  <2>2. ~(d \in Bad)
    <3>1. Reader(d) \in T => Reader(d) <= Reader(b)
      BY <1>3, <1>4
    <3>2. Reader(d) \notin T
      <4>. HIDE DEF T
      <4>. QED
        BY <1>6, <2>1, <3>1
    <3>. QED
      BY <3>2
  <2>3. P(d)
    BY <1>7, <2>2
  <2>. HIDE DEF P
  <2>. QED
    BY <1>7, <2>1, <2>3, ChannelBelow
<1>8. ASSUME NEW k \in Int, NEW y \in Ahead(open, b, k)
      PROVE  /\ y[1] \in Channels /\ y[2] \in Int /\ (y[2] = k \/ y[2] = -k)
             /\ Reader(y[1]) \in Below(Reader(b))
  <2>1. CASE y = <<b, k>>
    BY <1>5, <1>6, <2>1, BelowIs
  <2>2. CASE \E d \in Out(Reader(b)), m \in Int :
               d \in Channels /\ Forwards(Reader(b), k, d, m, open) /\ y \in Ahead(open, d, m)
    <3>1. PICK d \in Out(Reader(b)), m \in Int :
            d \in Channels /\ Forwards(Reader(b), k, d, m, open) /\ y \in Ahead(open, d, m)
      BY <2>2
    <3>2. m = k \/ m = -k
      BY <3>1, ForwardsSize
    <3>3. /\ y[1] \in Channels /\ y[2] \in Int /\ (y[2] = m \/ y[2] = -m)
          /\ Reader(y[1]) \in Below(Reader(d))
      BY <1>7, <3>1
    <3>4. Reader(y[1]) \in Below(Reader(b))
      <4>. HIDE DEF P
      <4>. QED
        BY <1>7, <3>1, <3>3
    <3>. QED
      BY <3>2, <3>3, <3>4
  <2>. QED
    BY <1>5, <2>1, <2>2, AheadIs
<1>. QED
  BY <1>5, <1>8

\* Where an element comes to is read off the graph.
LEMMA AheadStays ==
  ASSUME graph' = graph, NEW open
  PROVE  \A c, n : Ahead(open, c, n)' = Ahead(open, c, n)
<1>1. /\ Channels' = Channels
      /\ \A s : Kind(s)' = Kind(s) /\ Out(s)' = Out(s)
      /\ \A c : Reader(c)' = Reader(c)
  BY GraphStays
<1>2. \A s, n, d, m : Forwards(s, n, d, m, open)' = Forwards(s, n, d, m, open)
  BY DEF Forwards, Kind
<1>3. Places' = Places
  BY <1>1 DEF Places
<1>4. Arrows(open)' = Arrows(open)
  <2>1. \A p, q : ComesTo(open, p, q)' <=> ComesTo(open, p, q)
    BY <1>1, <1>2 DEF ComesTo
  <2>. QED
    BY <1>1, <1>3, <2>1 DEF Arrows
<1>. QED
  BY <1>3, <1>4 DEF Ahead, Reached

-----------------------------------------------------------------------------
(* Nothing vanishes.  *)

\* An element of generator g is on its way to channel q[1], where it will have the
\* number q[2]; what an overflow has to send it may yet drop.
OnWay(open, q, g) ==
  \E c \in Channels, n \in Int :
    /\ Kind(Producer(c)) # "overflow" /\ At(c, [gen |-> g, n |-> n])
    /\ q \in Ahead(open, c, n)

\* Terminator s has received it.
Had(s, g, m) == \E i \in DOMAIN got[s] : got[s][i] = [gen |-> g, n |-> m]

\* An iota that was told to stop returns, with an element not sent.
GivesUp(g, n) ==
  /\ g \in Stages /\ Kind(g) = "iota" /\ graph[g].out[1] \in closedCtrl
  /\ \E c \in Out(g) : InTodo(c, [gen |-> g, n |-> n])
  /\ stage'[g].pc = "done"

\* The same after a step.
OnWayNow(open, q, g) ==
  \E c \in Channels, n \in Int :
    /\ Kind(Producer(c)) # "overflow" /\ AtNow(c, [gen |-> g, n |-> n])
    /\ q \in Ahead(open, c, n)
HadNow(s, g, m) == \E i \in DOMAIN got'[s] : got'[s][i] = [gen |-> g, n |-> m]

\* What is on its way after a step, from what it says of the primed variables.
LEMMA OnWayNext ==
  ASSUME graph' = graph, NEW open, NEW q, NEW g, OnWayNow(open, q, g)
  PROVE  OnWay(open, q, g)'
<1>1. /\ Channels' = Channels
      /\ \A s : Kind(s)' = Kind(s)
      /\ \A c : Producer(c)' = Producer(c)
  BY GraphStays
<1>2. PICK c \in Channels, n \in Int :
        /\ Kind(Producer(c)) # "overflow" /\ AtNow(c, [gen |-> g, n |-> n])
        /\ q \in Ahead(open, c, n)
  BY DEF OnWayNow
<1>3. At(c, [gen |-> g, n |-> n])'
  BY <1>1, <1>2 DEF At, AtNow, InBuf, InTodo, InBufNow, InTodoNow
<1>4. q \in Ahead(open, c, n)'
  BY <1>2, AheadStays
<1>5. Kind(Producer(c))' # "overflow" /\ c \in Channels'
  BY <1>1, <1>2
<1>. QED
  BY <1>3, <1>4, <1>5 DEF OnWay

\* What a generator has to send is its own.
LEMMA ItsOwn ==
  ASSUME ProgramInv, FlowInv, NEW c \in Channels, Kind(Producer(c)) \in Generators, NEW e, InTodo(c, e)
  PROVE  e.gen = Producer(c)
<1>. DEFINE p == Producer(c)
<1>1. p \in Stages /\ Wired(graph)
  BY ChannelFacts, GraphIsWired, Ends DEF ProgramInv
<1>2. PICK i \in DOMAIN stage[p].todo : stage[p].todo[i] = <<c, e>>
  BY DEF InTodo
<1>3. e.gen \in Stages /\ p \in Below(e.gen)
  BY <1>1, <1>2 DEF FlowInv, MadeFor
<1>4. In(p) = {}
  BY <1>1, Shapes
<1>5. ASSUME p # e.gen PROVE FALSE
  BY <1>1, <1>3, <1>4, <1>5, BelowThrough
<1>. QED
  BY <1>5

\* What a stage takes it has received, or sends on.
LEMMA TakenGoesOn ==
  ASSUME ProgramInv, FlowInv, NEW r \in Stages, NEW c \in In(r), NEW g, NEW n \in Int,
         NEW e \in Item, e = [gen |-> g, n |-> n], Takes(r, c, e),
         NEW open, \A s \in Stages : open \cap Out(s) \subseteq Children(s),
         NEW q \in Ahead(open, c, n), Kind(Reader(q[1])) \in Terminators
  PROVE  OnWayNow(open, q, g) \/ HadNow(Reader(q[1]), g, q[2])
<1>1. /\ c \in Channels /\ Reader(c) = r /\ Wired(graph)
  BY TakesFacts
<1>2. stage[r].pc = "run" /\ stage'[r].todo = TodoOf(r, e) /\ got' = Noted(r, e)
  BY DEF Takes
<1>3. CASE q = <<c, n>>
  <2>1. got'[r] = Append(got[r], e) /\ got[r] \in Seq(Item) /\ Reader(q[1]) = r /\ q[2] = n
    BY <1>1, <1>2, <1>3, NotedIs
  <2>2. Len(got[r]) + 1 \in DOMAIN got'[r] /\ got'[r][Len(got[r]) + 1] = e
    BY <2>1
  <2>. QED
    BY <2>1, <2>2 DEF HadNow
<1>4. CASE \E d \in Out(r), m \in Int : d \in Channels /\ Forwards(r, n, d, m, open) /\ q \in Ahead(open, d, m)
  <2>1. PICK d \in Out(r), m \in Int : d \in Channels /\ Forwards(r, n, d, m, open) /\ q \in Ahead(open, d, m)
    BY <1>4
  <2>2. e.n = n /\ e.gen = g
    OBVIOUS
  <2>3. \E i \in DOMAIN TodoOf(r, e) : TodoOf(r, e)[i] = <<d, [gen |-> g, n |-> m]>>
    <3>1. open \cap Out(r) \subseteq Children(r)
      OBVIOUS
    <3>2. Forwards(r, e.n, d, m, open)
      BY <2>1, <2>2
    <3>3. LET t == TodoOf(r, e) IN \E i \in DOMAIN t : t[i] = <<d, [gen |-> e.gen, n |-> m]>>
      BY <1>2, <3>1, <3>2, TodoForwards
    <3>. QED
      BY <2>2, <3>3
  <2>4. Producer(d) = r
    BY <1>1, <2>1, InAndOut
  <2>5. AtNow(d, [gen |-> g, n |-> m])
    BY <1>2, <2>3, <2>4 DEF AtNow, InTodoNow
  <2>6. Kind(r) # "overflow"
    BY <2>1 DEF Forwards, Mergers
  <2>. QED
    BY <2>1, <2>4, <2>5, <2>6 DEF OnWayNow
<1>. QED
  BY <1>1, <1>3, <1>4, AheadIs

\* A step leaves an element on its way, delivers it, or is the one of an iota.
LEMMA StepCarries ==
  ASSUME ProgramInv, FlowInv, [Step]_programVars,
         NEW open, \A s \in Stages : open \cap Out(s) \subseteq Children(s),
         NEW g, NEW c \in Channels, NEW n \in Int,
         Kind(Producer(c)) # "overflow", At(c, [gen |-> g, n |-> n]),
         NEW q \in Ahead(open, c, n), Kind(Reader(q[1])) \in Terminators
  PROVE  \/ OnWayNow(open, q, g)
         \/ HadNow(Reader(q[1]), g, q[2])
         \/ GivesUp(g, n)
<1>. DEFINE f == [gen |-> g, n |-> n]
<1>1. f \in Item
  BY InBuffers
<1>2. Producer(c) \in Stages /\ c \in Out(Producer(c)) /\ Wired(graph)
  BY ChannelFacts, GraphIsWired, Ends DEF ProgramInv
<1>3. AtNow(c, f) => OnWayNow(open, q, g)
  BY DEF OnWayNow
<1>4. f.gen = g
  OBVIOUS
<1>5. At(c, f)
  OBVIOUS
<1>6. f = [gen |-> g, n |-> n]
  OBVIOUS
<1>. HIDE DEF f
<1>7. CASE Rests
  <2>1. \/ AtNow(c, f)
        \/ /\ Kind(Producer(c)) = "iota" /\ graph[Producer(c)].out[1] \in closedCtrl
           /\ stage'[Producer(c)].pc = "done" /\ InTodo(c, f)
    BY <1>5, <1>7, RestsMoves
  <2>2. ASSUME Kind(Producer(c)) = "iota", InTodo(c, f) PROVE Producer(c) = g
    BY <1>4, <2>2, ItsOwn DEF Generators
  <2>. QED
    BY <1>2, <1>3, <1>6, <2>1, <2>2 DEF GivesUp
<1>8. ASSUME NEW s \in Stages, Makes(s) PROVE AtNow(c, f)
  <2>1. (InBufNow(c, f) <=> InBuf(c, f)) /\ (InTodo(c, f) => InTodoNow(c, f))
    BY <1>8, MakesMoves
  <2>. QED
    BY <1>5, <2>1 DEF At, AtNow
<1>9. ASSUME NEW s \in Stages, NEW i \in DOMAIN stage[s].todo, Puts(s, i) PROVE AtNow(c, f)
  <2>. DEFINE d == stage[s].todo[i][1]
              e == stage[s].todo[i][2]
  <2>1. /\ InBufNow(c, f) <=> InBuf(c, f) \/ (c = d /\ f = e)
        /\ InTodo(c, f) => InTodoNow(c, f) \/ (c = d /\ f = e)
    BY <1>9, PutsMoves
  <2>. QED
    BY <1>5, <2>1 DEF At, AtNow
<1>10. ASSUME NEW r \in Stages, NEW d \in In(r), NEW e \in Item, Takes(r, d, e)
       PROVE  OnWayNow(open, q, g) \/ HadNow(Reader(q[1]), g, q[2])
  <2>1. AtNow(c, f) \/ (c = d /\ f = e)
    BY <1>5, <1>10, TakesMoves
  <2>2. CASE c = d /\ f = e
    BY <1>6, <1>10, <2>2, TakenGoesOn
  <2>. QED
    BY <1>3, <2>1, <2>2
<1>. QED
  BY <1>3, <1>7, <1>8, <1>9, <1>10, StepEffect

\* Whatever the program, whoever stops and whatever is closed: what a generator makes
\* is then on its way; and an element on its way to a terminator, through streams
\* that are open, stays on its way until the terminator receives it.  Only an iota
\* that is told to stop gives one up.
NothingVanishes ==
  /\ \A g \in Stages : Kind(g) \in Generators /\ stage'[g].count # stage[g].count =>
       \A open \in SUBSET Channels, q \in Places :
         q \in Ahead(open, graph[g].out[1], stage'[g].count) => OnWay(open, q, g)'
  /\ \A open \in SUBSET {c \in Channels : chan[c] = "open"}, q \in Places, g \in Stages :
       Kind(Reader(q[1])) \in Terminators /\ OnWay(open, q, g) =>
         \/ OnWay(open, q, g)'
         \/ Had(Reader(q[1]), g, q[2])'
         \/ \E n \in Int : GivesUp(g, n)

\* Nobody else makes the elements of a generator.
LEMMA OwnCount ==
  ASSUME ProgramInv, [Step]_programVars, NEW g \in Stages, Kind(g) \in Generators
  PROVE  stage'[g].count = stage[g].count \/ Makes(g)
<1>1. CASE Rests
  BY <1>1 DEF Rests
<1>2. ASSUME NEW s \in Stages, Makes(s) PROVE stage'[g].count = stage[g].count \/ Makes(g)
  BY <1>2 DEF Makes
<1>3. ASSUME NEW s \in Stages, NEW i \in DOMAIN stage[s].todo, Puts(s, i)
      PROVE  stage'[g].count = stage[g].count
  BY <1>3 DEF Puts
<1>4. ASSUME NEW r \in Stages, NEW c \in In(r), NEW e \in Item, Takes(r, c, e)
      PROVE  stage'[g].count = stage[g].count
  <2>1. Kind(r) \notin Generators
    BY <1>4, TakesFacts
  <2>. QED
    BY <1>4, <2>1 DEF Takes
<1>. QED
  BY <1>1, <1>2, <1>3, <1>4, StepEffect

\* What a generator has made is on its way to wherever it is sure to come.
LEMMA MadeIsOnWay ==
  ASSUME ProgramInv, NEW g \in Stages, Makes(g), NEW open,
         NEW q \in Ahead(open, graph[g].out[1], stage'[g].count)
  PROVE  OnWayNow(open, q, g)
<1>. DEFINE o == graph[g].out[1]
            k == stage'[g].count
            e == [gen |-> g, n |-> k]
<1>1. Kind(g) \in Generators /\ k = stage[g].count + 1
  BY DEF Makes
<1>2. k \in Int /\ Kind(g) # "overflow" /\ Wired(graph)
  BY <1>1, ProgramFacts DEF Generators
<1>3. o \in Channels /\ Producer(o) = g
  <2>1. Kind(g) \notin Terminators \cup {"split", "tee", "copy", "repeater"}
    BY <1>1 DEF Generators, Terminators
  <2>. QED
    BY <1>2, <2>1, Shapes, InAndOut
<1>4. InTodoNow(o, e) <=> InTodo(o, e) \/ (o = graph[g].out[1] /\ e = [gen |-> g, n |-> stage[g].count + 1])
  BY <1>3, MakesMoves
<1>5. AtNow(o, e)
  BY <1>1, <1>4 DEF AtNow
<1>. QED
  BY <1>2, <1>3, <1>5 DEF OnWayNow

\* No step of a program lets an element vanish.
LEMMA VanishesNot ==
  ASSUME ProgramInv, FlowInv, [Step]_programVars
  PROVE  NothingVanishes
<1>1. graph' = graph
  BY StepEffect
<1>2. ASSUME NEW g \in Stages, Kind(g) \in Generators, stage'[g].count # stage[g].count,
             NEW open, NEW q, q \in Ahead(open, graph[g].out[1], stage'[g].count)
      PROVE  OnWay(open, q, g)'
  <2>1. Makes(g)
    BY <1>2, OwnCount
  <2>. QED
    BY <1>1, <1>2, <2>1, MadeIsOnWay, OnWayNext
<1>3. ASSUME NEW open, open \subseteq {c \in Channels : chan[c] = "open"}, NEW q \in Places, NEW g \in Stages,
             Kind(Reader(q[1])) \in Terminators, OnWay(open, q, g)
      PROVE  \/ OnWay(open, q, g)'
             \/ Had(Reader(q[1]), g, q[2])'
             \/ \E n \in Int : GivesUp(g, n)
  <2>1. PICK c \in Channels, n \in Int :
          /\ Kind(Producer(c)) # "overflow" /\ At(c, [gen |-> g, n |-> n])
          /\ q \in Ahead(open, c, n)
    BY <1>3 DEF OnWay
  <2>2. \A s \in Stages : open \cap Out(s) \subseteq Children(s)
    BY <1>3 DEF Children
  <2>3. \/ OnWayNow(open, q, g)
        \/ HadNow(Reader(q[1]), g, q[2])
        \/ GivesUp(g, n)
    BY <1>3, <2>1, <2>2, StepCarries
  <2>4. HadNow(Reader(q[1]), g, q[2]) => Had(Reader(q[1]), g, q[2])'
    <3>1. Reader(q[1])' = Reader(q[1])
      BY <1>1, GraphStays
    <3>. QED
      BY <3>1 DEF Had, HadNow
  <2>. QED
    BY <1>1, <2>1, <2>3, <2>4, OnWayNext
<1>. QED
  BY <1>2, <1>3 DEF NothingVanishes

\* That holds of every step of every program.
THEOREM ElementsDoNotVanish == ProgramSpec => [][NothingVanishes]_programVars
<1>1. ProgramInv /\ FlowInv /\ [Step]_programVars => [NothingVanishes]_programVars
  BY VanishesNot
<1>. QED
  BY <1>1, ProgramInvariance, OnlyWhatIsMade, ProgramSteps, PTL DEF ProgramSpec

-----------------------------------------------------------------------------
(* Everything that was made arrives.  *)

\* A generator has to send what it made last.
SendsLast ==
  \A c \in Channels, e \in Item : Kind(Producer(c)) \in Generators /\ InTodo(c, e) =>
    e.n = stage[Producer(c)].count

\* Every step of a program keeps it so.
LEMMA SendsLastStep ==
  ASSUME ProgramInv, FlowInv, SendsLast, [Step]_programVars
  PROVE  SendsLast'
<1>1. graph' = graph
  BY StepEffect
<1>2. ASSUME NEW c \in Channels, NEW e \in Item, Kind(Producer(c)) \in Generators, InTodoNow(c, e)
      PROVE  e.n = stage'[Producer(c)].count
  <2>. DEFINE p == Producer(c)
  <2>1. p \in Stages /\ c \in Out(p) /\ Wired(graph)
    BY ChannelFacts, GraphIsWired, Ends DEF ProgramInv
  <2>2. InTodo(c, e) => e.n = stage[p].count
    BY <1>2 DEF SendsLast
  <2>3. CASE Rests
    <3>1. InTodo(c, e)
      BY <1>2, <2>3, RestsMoves
    <3>. QED
      BY <2>1, <2>2, <2>3, <3>1 DEF Rests
  <2>4. ASSUME NEW s \in Stages, Makes(s) PROVE e.n = stage'[p].count
    <3>1. InTodo(c, e) \/ (c = graph[s].out[1] /\ e = [gen |-> s, n |-> stage[s].count + 1])
      BY <1>2, <2>4, MakesMoves
    <3>2. stage[s].todo = <<>> /\ stage'[s].count = stage[s].count + 1 /\ \A t \in Stages \ {s} : stage'[t] = stage[t]
      BY <2>4 DEF Makes
    <3>3. p = s => ~InTodo(c, e)
      BY <3>2 DEF InTodo
    <3>4. c = graph[s].out[1] => p = s
      BY <2>4, MakesMoves
    <3>. QED
      BY <2>1, <2>2, <3>1, <3>2, <3>3, <3>4
  <2>5. ASSUME NEW s \in Stages, NEW i \in DOMAIN stage[s].todo, Puts(s, i) PROVE e.n = stage'[p].count
    <3>1. InTodo(c, e)
      BY <1>2, <2>5, PutsMoves
    <3>2. stage'[p].count = stage[p].count
      BY <2>1, <2>5 DEF Puts
    <3>. QED
      BY <2>2, <3>1, <3>2
  <2>6. ASSUME NEW r \in Stages, NEW d \in In(r), NEW x \in Item, Takes(r, d, x) PROVE e.n = stage'[p].count
    <3>1. Kind(r) \notin Generators
      BY <2>6, TakesFacts
    <3>2. c \notin Out(r)
      BY <1>2, <2>1, <3>1, Ends
    <3>3. InTodo(c, e)
      BY <1>2, <2>6, <3>2, TakesMoves
    <3>4. stage'[p].count = stage[p].count
      BY <1>2, <2>1, <2>6, <3>1 DEF Takes
    <3>. QED
      BY <2>2, <3>3, <3>4
  <2>. QED
    BY <2>3, <2>4, <2>5, <2>6, StepEffect
<1>3. /\ Channels' = Channels /\ \A s : Kind(s)' = Kind(s) /\ \A c : Producer(c)' = Producer(c)
  BY <1>1, GraphStays
<1>4. \A c, e : InTodo(c, e)' => InTodoNow(c, e)
  BY <1>3 DEF InTodo, InTodoNow
<1>. QED
  BY <1>2, <1>3, <1>4 DEF SendsLast

\* At first no generator has anything to send.
LEMMA SendsLastInit == ProgramInit => SendsLast
<1>. SUFFICES ASSUME ProgramInit PROVE SendsLast
  OBVIOUS
<1>1. ProgramInv
  BY ProgramInvInit
<1>2. \A c \in Channels : stage[Producer(c)].todo = <<>>
  BY <1>1, ChannelFacts DEF ProgramInit
<1>3. \A i : ~(i \in DOMAIN <<>>)
  OBVIOUS
<1>. QED
  BY <1>2, <1>3 DEF SendsLast, InTodo

\* The last number of an iota that was told to stop may not have been sent.
GaveUp(g, k) ==
  /\ Kind(g) = "iota" /\ stage[g].pc = "done" /\ graph[g].out[1] \in closedCtrl
  /\ k = stage[g].count

\* Element k of generator g is sure to come to q, where a terminator reads it.
SureOf(g, k, q) ==
  /\ Kind(g) \in Generators /\ k \in 1 .. stage[g].count
  /\ Kind(Reader(q[1])) \in Terminators /\ q \in Ahead({}, graph[g].out[1], k)

\* What has been made is on its way to every terminator it is sure to come to, or
\* has been received.
Conserved ==
  \A g \in Stages, q \in Places, k \in Nat :
    SureOf(g, k, q) /\ ~GaveUp(g, k) => OnWay({}, q, g) \/ Had(Reader(q[1]), g, q[2])

\* What has been received stays.
LEMMA HadStays ==
  ASSUME ProgramInv, [Step]_programVars, NEW s \in Stages, NEW g, NEW m, Had(s, g, m)
  PROVE  HadNow(s, g, m)
<1>1. PICK i \in DOMAIN got[s] : got[s][i] = [gen |-> g, n |-> m]
  BY DEF Had
<1>2. got[s] \in Seq(Item)
  BY DEF ProgramInv, ProgramTypeOK
<1>3. got'[s] = got[s] \/ \E e \in Item : got'[s] = Append(got[s], e)
  <2>1. CASE Rests
    BY <2>1 DEF Rests
  <2>2. ASSUME NEW t \in Stages, Makes(t) PROVE got'[s] = got[s]
    BY <2>2 DEF Makes
  <2>3. ASSUME NEW t \in Stages, NEW j \in DOMAIN stage[t].todo, Puts(t, j) PROVE got'[s] = got[s]
    BY <2>3 DEF Puts
  <2>4. ASSUME NEW r \in Stages, NEW c \in In(r), NEW e \in Item, Takes(r, c, e)
        PROVE  got'[s] = got[s] \/ got'[s] = Append(got[s], e)
    <3>1. got' = Noted(r, e)
      BY <2>4 DEF Takes
    <3>2. /\ \A t \in Stages \ {r} : Noted(r, e)[t] = got[t]
          /\ Noted(r, e)[r] = IF Kind(r) \in Terminators THEN Append(got[r], e) ELSE got[r]
      BY NotedIs
    <3>3. CASE s = r
      BY <3>1, <3>2, <3>3
    <3>4. CASE s # r
      BY <3>1, <3>2, <3>4
    <3>. QED
      BY <3>3, <3>4
  <2>. QED
    BY <2>1, <2>2, <2>3, <2>4, StepEffect
<1>4. i \in DOMAIN got'[s] /\ got'[s][i] = got[s][i]
  <2>. DEFINE b == got[s]
  <2>1. b \in Seq(Item) /\ i \in DOMAIN b /\ (got'[s] = b \/ \E e \in Item : got'[s] = Append(b, e))
    BY <1>1, <1>2, <1>3
  <2>2. b = got[s]
    OBVIOUS
  <2>. HIDE DEF b
  <2>3. \A e \in Item : i \in DOMAIN Append(b, e) /\ Append(b, e)[i] = b[i]
    BY <2>1
  <2>. QED
    BY <2>1, <2>2, <2>3
<1>. QED
  BY <1>1, <1>4 DEF HadNow

\* An iota that has given up stays so.
LEMMA GaveUpStays ==
  ASSUME ProgramInv, [Step]_programVars, NEW g \in Stages, NEW k, GaveUp(g, k)
  PROVE  GaveUp(g, k)'
<1>1. graph' = graph
  BY StepEffect
<1>2. stage'[g] = stage[g] /\ closedCtrl \subseteq closedCtrl'
  BY StepEnds DEF AllEnding, Ending, GaveUp
<1>3. Kind(g)' = Kind(g)
  BY <1>1, GraphStays
<1>. QED
  BY <1>1, <1>2, <1>3 DEF GaveUp

\* A generator that gives up was sending the last one it made.
LEMMA GivesUpLast ==
  ASSUME ProgramInv, FlowInv, SendsLast, [Step]_programVars, NEW g, NEW n \in Int, GivesUp(g, n)
  PROVE  g \in Stages /\ n = stage[g].count /\ GaveUp(g, n)'
<1>1. graph' = graph
  BY StepEffect
<1>2. /\ g \in Stages /\ Kind(g) = "iota" /\ graph[g].out[1] \in closedCtrl /\ stage'[g].pc = "done"
  BY DEF GivesUp
<1>3. PICK c \in Out(g) : InTodo(c, [gen |-> g, n |-> n])
  BY DEF GivesUp
<1>4. c \in Channels /\ Producer(c) = g /\ g \in Nat
  BY <1>2, InAndOut, ProgramFacts
<1>5. [gen |-> g, n |-> n] \in Item
  BY <1>4 DEF Item
<1>6. n = stage[g].count
  BY <1>2, <1>3, <1>4, <1>5 DEF SendsLast, Generators
<1>7. closedCtrl \subseteq closedCtrl' /\ Kind(g)' = Kind(g)
  BY <1>1, StepEnds, GraphStays DEF AllEnding
<1>8. stage'[g].count = stage[g].count
  <2>1. Makes(g) => stage[g].todo = <<>>
    BY DEF Makes
  <2>2. stage[g].todo # <<>>
    BY <1>3, <1>4 DEF InTodo
  <2>. QED
    BY <1>2, <2>1, <2>2, OwnCount DEF Generators
<1>. QED
  BY <1>1, <1>2, <1>6, <1>7, <1>8 DEF GaveUp

\* Every step of a program keeps what has been made.
LEMMA ConservedStep ==
  ASSUME ProgramInv, FlowInv, SendsLast, Conserved, [Step]_programVars
  PROVE  Conserved'
<1>1. graph' = graph /\ Wired(graph)
  BY StepEffect, GraphIsWired DEF ProgramInv
<1>2. /\ Stages' = Stages /\ Channels' = Channels
      /\ \A s : Kind(s)' = Kind(s)
      /\ \A c : Reader(c)' = Reader(c)
  BY <1>1, GraphStays
<1>3. SUFFICES ASSUME NEW g \in Stages, NEW q \in Places, NEW k \in Nat, SureOf(g, k, q)', ~(GaveUp(g, k)')
               PROVE  OnWayNow({}, q, g) \/ HadNow(Reader(q[1]), g, q[2])
  <2>1. Places' = Places
    BY <1>2 DEF Places
  <2>2. \A q, g : OnWayNow({}, q, g) => OnWay({}, q, g)'
    BY <1>1, OnWayNext
  <2>3. \A q, g : HadNow(Reader(q[1]), g, q[2]) => Had(Reader(q[1]), g, q[2])'
    BY <1>2 DEF Had, HadNow
  <2>. QED
    BY <1>2, <1>3, <2>1, <2>2, <2>3 DEF Conserved
<1>4. /\ Kind(g) \in Generators /\ k \in 1 .. stage'[g].count
      /\ Kind(Reader(q[1])) \in Terminators /\ q \in Ahead({}, graph[g].out[1], k)
  BY <1>1, <1>2, <1>3, AheadStays DEF SureOf
<1>5. q[1] \in Channels /\ Reader(q[1]) \in Stages /\ stage[g].count \in Nat /\ stage'[g].count \in Nat
  BY <1>1, <1>4, Ends, CountsGrow DEF Places
<1>6. \A s \in Stages : {} \cap Out(s) \subseteq Children(s)
  OBVIOUS
<1>8. CASE k \in 1 .. stage[g].count
  <2>1. SureOf(g, k, q) /\ ~GaveUp(g, k)
    BY <1>3, <1>4, <1>8, GaveUpStays DEF SureOf
  <2>2. CASE Had(Reader(q[1]), g, q[2])
    BY <1>5, <2>2, HadStays
  <2>3. CASE OnWay({}, q, g)
    <3>1. PICK c \in Channels, n \in Int :
            /\ Kind(Producer(c)) # "overflow" /\ At(c, [gen |-> g, n |-> n])
            /\ q \in Ahead({}, c, n)
      BY <2>3 DEF OnWay
    <3>2. \/ OnWayNow({}, q, g)
          \/ HadNow(Reader(q[1]), g, q[2])
          \/ GivesUp(g, n)
      BY <1>4, <1>6, <3>1, StepCarries
    <3>3. ASSUME GivesUp(g, n) PROVE FALSE
      <4>1. n = stage[g].count /\ GaveUp(g, n)'
        BY <3>3, GivesUpLast
      <4>2. (q[2] = n \/ q[2] = -n) /\ (q[2] = k \/ q[2] = -k)
        <5>1. graph[g].out[1] \in Channels
          <6>1. Kind(g) \notin Terminators \cup {"split", "tee", "copy", "repeater"}
            BY <1>4 DEF Generators, Terminators
          <6>. QED
            BY <1>1, <6>1, Shapes, InAndOut
        <5>. QED
          BY <1>1, <1>4, <3>1, <5>1, AheadBelow
      <4>3. k = n
        BY <1>5, <1>8, <4>1, <4>2
      <4>. QED
        BY <1>3, <4>1, <4>3
    <3>. QED
      BY <3>2, <3>3
  <2>. QED
    BY <2>1, <2>2, <2>3 DEF Conserved
<1>9. CASE k \notin 1 .. stage[g].count
  <2>1. Makes(g)
    BY <1>4, <1>5, <1>9, OwnCount
  <2>2. stage'[g].count = stage[g].count + 1
    BY <2>1 DEF Makes
  <2>3. k = stage[g].count + 1
    BY <1>4, <1>5, <1>9, <2>2
  <2>. QED
    BY <1>4, <2>1, <2>2, <2>3, MadeIsOnWay
<1>. QED
  BY <1>8, <1>9

\* At first nothing has been made.
LEMMA ConservedInit == ProgramInit => Conserved
<1>. SUFFICES ASSUME ProgramInit PROVE Conserved
  OBVIOUS
<1>1. \A g \in Stages : stage[g].count = 0
  BY DEF ProgramInit
<1>2. \A k \in Nat : ~(k \in 1 .. 0)
  OBVIOUS
<1>. QED
  BY <1>1, <1>2 DEF Conserved, SureOf

\* Whatever the program: when it stands still, nothing of it has been closed and
\* everybody reads, all that the generators were to make has been received by
\* every terminator it was sure to come to.
EverythingArrives ==
  Quiescent /\ closedCtrl = {} /\ Deaf = {} =>
    \A g \in Stages, q \in Places :
      /\ Kind(g) \in Generators \ {"null"} => stage[g].count >= graph[g].n
      /\ \A k \in Nat : SureOf(g, k, q) => Had(Reader(q[1]), g, q[2])

\* When nothing stays on its way, it has been received.
LEMMA ArrivesIs ==
  ASSUME ProgramInv, FlowInv, Drained, Conserved
  PROVE  EverythingArrives
<1>1. SUFFICES ASSUME Quiescent, closedCtrl = {}, Deaf = {}, NEW g \in Stages, NEW q \in Places
               PROVE  /\ Kind(g) \in Generators \ {"null"} => stage[g].count >= graph[g].n
                      /\ \A k \in Nat : SureOf(g, k, q) => Had(Reader(q[1]), g, q[2])
  BY DEF EverythingArrives
<1>2. ASSUME Kind(g) \in Generators \ {"null"} PROVE stage[g].count >= graph[g].n
  <2>1. /\ stage[g].pc \in {"run", "done", "left"} /\ stage[g].count \in Nat /\ graph[g].n \in Nat
        /\ ReturnsAtEnd(g)
    BY ProgramFacts
  <2>2. stage[g].pc # "left"
    BY <1>2, <2>1 DEF ReturnsAtEnd, Generators
  <2>3. CASE stage[g].pc = "done"
    BY <1>1, <1>2, <2>3 DEF Drained
  <2>4. CASE stage[g].pc = "run"
    <3>1. AtSelect(g)
      BY <1>1, <2>4, AllSent DEF AtSelect
    <3>2. ~CanGenerate(g)
      BY <1>1 DEF Quiescent
    <3>. QED
      BY <1>1, <1>2, <2>1, <3>1, <3>2 DEF CanGenerate
  <2>. QED
    BY <2>1, <2>2, <2>3, <2>4
<1>3. ASSUME NEW k \in Nat, SureOf(g, k, q) PROVE Had(Reader(q[1]), g, q[2])
  <2>1. ~GaveUp(g, k)
    BY <1>1 DEF GaveUp
  <2>2. ASSUME OnWay({}, q, g) PROVE FALSE
    <3>1. PICK c \in Channels, n \in Int : At(c, [gen |-> g, n |-> n])
      BY <2>2 DEF OnWay
    <3>2. [gen |-> g, n |-> n] \in Item
      BY <3>1, InBuffers
    <3>. QED
      BY <1>1, <3>1, <3>2, NothingStaysIs DEF NothingStays
  <2>. QED
    BY <1>3, <2>1, <2>2 DEF Conserved
<1>. QED
  BY <1>2, <1>3

\* So it is in every state of every program.
LEMMA ConservedAlways == ProgramSpec => [](SendsLast /\ Conserved)
<1>1. ProgramInit => SendsLast /\ Conserved
  BY SendsLastInit, ConservedInit
<1>2. ProgramInv /\ FlowInv /\ (SendsLast /\ Conserved) /\ [Step]_programVars => (SendsLast /\ Conserved)'
  BY SendsLastStep, ConservedStep
<1>. QED
  BY <1>1, <1>2, ProgramInvariance, OnlyWhatIsMade, ProgramSteps, PTL DEF ProgramSpec

\* So it is in every state of every program.
LEMMA DrainedAlways == ProgramSpec => []Drained
BY DrainedInit, DrainedStep, ProgramInvariance, ProgramSteps, PTL DEF ProgramSpec

\* That holds in every state of every program of pkg/stream: no operator, joiner or
\* terminator loses an element that it has received, or ends before it has read all.
THEOREM EverythingArrivesAlways == ProgramSpec => []EverythingArrives
<1>1. ProgramInv /\ FlowInv /\ Drained /\ (SendsLast /\ Conserved) => EverythingArrives
  BY ArrivesIs
<1>. QED
  BY <1>1, ProgramInvariance, OnlyWhatIsMade, ConservedAlways, DrainedAlways, PTL

\* Until then there are no gaps, where no stage joins two streams of the same
\* generator: a terminator that has received an element has received whatever was
\* made before it, and was sure to come.
NoGaps ==
  OneWay =>
    \A s, g \in Stages, q \in Places, k \in Nat :
      SureOf(g, k, q) /\ q[1] \in In(s) =>
        \A i \in DOMAIN got[s] : got[s][i].gen = g /\ k < Size(got[s][i]) => Had(s, g, q[2])

\* What is missing would be upstream, but order keeps it ahead of what has come.
LEMMA NoGapsIs ==
  ASSUME ProgramInv, FlowInv, OneWay => OrderInv, Conserved
  PROVE  NoGaps
<1>1. SUFFICES ASSUME OneWay, NEW s \in Stages, NEW g \in Stages, NEW q \in Places, NEW k \in Nat,
                      SureOf(g, k, q), q[1] \in In(s),
                      NEW i \in DOMAIN got[s], got[s][i].gen = g, k < Size(got[s][i])
               PROVE  Had(s, g, q[2])
  BY DEF NoGaps
<1>. DEFINE e == got[s][i]
<1>2. Wired(graph) /\ e \in Item
  BY GraphIsWired DEF ProgramInv, ProgramTypeOK
<1>3. Reader(q[1]) = s
  BY <1>1, <1>2, InAndOut
<1>4. Size(e) \in 1 .. stage[g].count /\ stage[g].count \in Nat
  <2>1. MadeFor(s, e)
    BY DEF FlowInv
  <2>. QED
    BY <1>1, <2>1, ProgramFacts DEF MadeFor
<1>5. ~GaveUp(g, k)
  BY <1>1, <1>4 DEF GaveUp
<1>6. ASSUME OnWay({}, q, g) PROVE FALSE
  <2>1. PICK c \in Channels, n \in Int : At(c, [gen |-> g, n |-> n]) /\ q \in Ahead({}, c, n)
    BY <1>6 DEF OnWay
  <2>. DEFINE f == [gen |-> g, n |-> n]
  <2>2. f \in Item
    BY <2>1, InBuffers
  <2>3. (q[2] = n \/ q[2] = -n) /\ s \in Below(Reader(c))
    BY <1>2, <1>3, <2>1, AheadBelow
  <2>4. q[2] = k \/ q[2] = -k
    <3>1. graph[g].out[1] \in Channels
      <4>1. Kind(g) \notin Terminators \cup {"split", "tee", "copy", "repeater"}
        BY <1>1 DEF SureOf, Generators, Terminators
      <4>. QED
        BY <1>2, <4>1, Shapes, InAndOut
    <3>. QED
      BY <1>1, <1>2, <3>1, AheadBelow DEF SureOf
  <2>5. Earlier(e, f)
    BY <1>1, <2>1, <2>2, <2>3 DEF OrderInv
  <2>6. Size(e) < Size(f)
    BY <1>1, <2>5 DEF Earlier
  <2>7. Size(f) = k
    BY <2>3, <2>4 DEF Size
  <2>. QED
    BY <1>1, <1>4, <2>6, <2>7
<1>. QED
  BY <1>1, <1>3, <1>5, <1>6 DEF Conserved

\* That holds in every state of every program of pkg/stream.
THEOREM ResultsHaveNoGaps == ProgramSpec => []NoGaps
<1>1. ProgramSpec => [](OneWay => OrderInv)
  BY ProgramInvariance, OnlyWhatIsMade, OrderInvInit, OrderInvStep, ProgramSteps, PTL DEF ProgramSpec
<1>2. ProgramInv /\ FlowInv /\ (OneWay => OrderInv) /\ (SendsLast /\ Conserved) => NoGaps
  BY NoGapsIs
<1>. QED
  BY <1>1, <1>2, ProgramInvariance, OnlyWhatIsMade, ConservedAlways, PTL
=============================================================================
