------------------------------ MODULE Records ------------------------------
(***************************************************************************)
(* The records of pkg/sys/perf: how the attributes of an event are         *)
(* written for the kernel, and how a record of a ring buffer is read back. *)
(*                                                                         *)
(* Data is a sequence of words of eight bytes, numbers here.  The header   *)
(* is one word, as are the two 32-bit halves of TID and CPU; a name or raw *)
(* data is the words it fills, padding included.  What the kernel writes   *)
(* is external: KernelRecord, from the layout the attributes ask for.      *)
(***************************************************************************)
EXTENDS Integers, Sequences, FiniteSets, SequencesExt, Functions

\* The parts of a sample, in the order the kernel writes them.
SampleLayout == <<"IDENTIFIER", "IP", "TID", "TIME", "ADDR", "ID", "STREAM_ID", "CPU",
                  "PERIOD", "READ", "CALLCHAIN", "RAW", "BRANCH_STACK">>
Unsupported == {"REGS_USER", "STACK_USER", "WEIGHT", "DATA_SRC", "TRANSACTION", "REGS_INTR"}

\* The parts of a sample_id, which ends every other record.
IDLayout == <<"TID", "TIME", "ID", "STREAM_ID", "CPU", "IDENTIFIER">>

Present(layout, sampleType) == SelectSeq(layout, LAMBDA f : f \in sampleType)

-----------------------------------------------------------------------------
(* EventAttr: the fields that are checked, and the set of those that are on. *)

FixupEventAttr(attr) ==
  [attr EXCEPT !.type = "TRACEPOINT", !.samplePeriod = 1, !.wakeupWatermark = 1,
               !.sampleType = @ \cup {"STREAM_ID", "IDENTIFIER", "TIME"},
               !.flags = (@ \ {"Pinned", "Freq", "UseClockID"}) \cup {"Disabled", "Watermark"}]

\* What the kernel is given: of each union the member that is set, and an
\* error where the other one is set as well.
WriteAttr(attr) ==
  LET freq      == "Freq" \in attr.flags
      watermark == "Watermark" \in attr.flags
      invalid   == \/ freq /\ attr.samplePeriod # 0
                   \/ ~freq /\ attr.sampleFreq # 0
                   \/ attr.preciseIP > 3
                   \/ watermark /\ attr.wakeupEvents # 0
                   \/ ~watermark /\ attr.wakeupWatermark # 0
  IN [ok |-> ~invalid,
      period |-> IF freq THEN attr.sampleFreq ELSE attr.samplePeriod,
      wakeup |-> IF watermark THEN attr.wakeupWatermark ELSE attr.wakeupEvents,
      breakpoint |-> <<IF attr.config1 # 0 THEN attr.config1 ELSE attr.bpAddr,
                       IF attr.config2 # 0 THEN attr.config2 ELSE attr.bpLen>>,
      type |-> attr.type, config |-> attr.config, flags |-> attr.flags,
      sampleType |-> attr.sampleType, readFormat |-> attr.readFormat]

-----------------------------------------------------------------------------
(* Reading.  A position counts the words before it; a word that the data    *)
(* does not have reads as 0, as the errors of binary.Read are dropped.      *)

Peek(data, at) == IF at < Len(data) THEN data[at + 1] ELSE 0

RecordTypes == <<"FORK", "EXIT", "COMM", "SAMPLE", "LOST", "OTHER">>
TypeCode(type) == CHOOSE i \in DOMAIN RecordTypes : RecordTypes[i] = type
HeaderWord(type, size) == size * 8 + TypeCode(type)
Header(word) == [type |-> RecordTypes[word % 8], size |-> word \div 8]

\* The struct that a branch is read into has no exported field: binary.Read
\* panics when the three words of one are there.  When they are not, its error
\* is dropped and a branch of zeros is kept.
BranchPanics(f, data, at) == f = "BRANCH_STACK" /\ Peek(data, at) > 0 /\ at + 4 <= Len(data)
BranchEntries(nr) == [i \in 1..nr |-> <<0, 0, 0>>]

\* CounterGroup: how many words are its times, and how many words there are
\* (8 bits of nr are enough here).
CounterTimes(format) ==
  (IF "TOTAL_TIME_ENABLED" \in format THEN 1 ELSE 0) + (IF "TOTAL_TIME_RUNNING" \in format THEN 1 ELSE 0)

\* Mutant: the ids of the values are not read.
CounterExtentWithoutIDs(format, nr) ==
  1 + CounterTimes(format) + (IF "GROUP" \in format THEN nr ELSE 0)

CounterExtent(format, nr) ==
  LET value == IF "ID" \in format THEN 2 ELSE 1
  IN IF "GROUP" \in format THEN 1 + CounterTimes(format) + nr * value
                           ELSE value + CounterTimes(format)

\* ... and what is kept of them: the values of a group are read and dropped.
CounterKept(format, words) ==
  IF "GROUP" \in format THEN SubSeq(words, 2, 1 + CounterTimes(format)) ELSE words

\* The words that part f of a sample has from a position on.
Extent(f, attr, data, at) ==
  CASE f = "READ"                  -> CounterExtent(attr.readFormat, Peek(data, at))
    [] f \in {"CALLCHAIN", "RAW"}  -> 1 + Peek(data, at)
    [] f = "BRANCH_STACK"          -> 1 + 3 * Peek(data, at)
    [] OTHER                       -> 1

Kept(f, attr, words) ==
  CASE f = "READ"                  -> CounterKept(attr.readFormat, words)
    [] f \in {"CALLCHAIN", "RAW"}  -> Tail(words)
    [] f = "BRANCH_STACK"          -> BranchEntries(words[1])
    [] OTHER                       -> words

Words(data, at, n) == [i \in 1..n |-> Peek(data, at + i - 1)]

ReadParts(layout, attr, data, at) ==
  FoldLeft(LAMBDA s, f : LET n == Extent(f, attr, data, s.at)
                         IN [at     |-> s.at + n,
                             rec    |-> (f :> Kept(f, attr, Words(data, s.at, n))) @@ s.rec,
                             panics |-> s.panics \/ BranchPanics(f, data, s.at)],
           [at |-> at, rec |-> <<>>, panics |-> FALSE], Present(layout, attr.sampleType))

\* What a reader returns: where it stopped, what it read, and its error.
Result(at, rec, err) == [at |-> at, rec |-> rec, err |-> err]
NoAttr == [sampleType |-> {}, none |-> TRUE]

\* The parts that were read, or what they end in.
PartsRead(attr, parts) ==
  Result(parts.at, parts.rec, IF parts.panics \/ attr.sampleType \cap Unsupported # {} THEN "panic" ELSE "")

\* SampleRecord.read: without attributes, those of the event the first word
\* names.
ReadSampleRecord(data, at, eventAttr, formatMap) ==
  LET known == eventAttr # NoAttr \/ Peek(data, at) \in DOMAIN formatMap
      attr  == IF eventAttr # NoAttr THEN eventAttr ELSE formatMap[Peek(data, at)]
  IN IF ~known THEN Result(at + 1, <<>>, "unknown")
     ELSE IF eventAttr = NoAttr /\ "IDENTIFIER" \notin attr.sampleType THEN Result(at + 1, <<>>, "panic")
     ELSE PartsRead(attr, ReadParts(SampleLayout, attr, data, at))

\* SampleID.read and getSize.
ReadSampleID(data, at, attr) ==
  LET parts == ReadParts(IDLayout, attr, data, at) IN Result(parts.at, parts.rec, "")
SampleIDSize(attr) == IF attr.sampleIDAll THEN Len(Present(IDLayout, attr.sampleType)) ELSE 0

\* SampleID.maybeRead: the id is the last word of the record, but it is read
\* from a place that is as far beyond that as `at' is from `start'.
MaybeReadSampleID(data, start, at, size, eventAttr, formatMap) ==
  LET id == Peek(data, at + size - 1)
  IN IF eventAttr # NoAttr
     THEN IF eventAttr.sampleIDAll THEN ReadSampleID(data, at, eventAttr) ELSE Result(at, <<>>, "")
     ELSE IF at - start = size THEN Result(at, <<>>, "")
     ELSE IF at - start > size THEN Result(at, <<>>, "panic")
     ELSE IF id \notin DOMAIN formatMap THEN Result(at, <<>>, "unknown")
     ELSE IF ~formatMap[id].sampleIDAll \/ "IDENTIFIER" \notin formatMap[id].sampleType
     THEN Result(at, <<>>, "panic")
     ELSE ReadSampleID(data, at, formatMap[id])

\* The words of the fixed part of the other records.  The name of a COMM ends
\* in the first word that holds a NUL: an odd one.
BodyExtent(type, data, at) ==
  CASE type \in {"FORK", "EXIT"} -> 3
    [] type = "LOST"             -> 2
    [] type = "COMM"             ->
         IF \E i \in 1..Len(data) : i > at + 1 /\ data[i] % 2 = 1
         THEN (CHOOSE i \in 1..Len(data) : /\ i > at + 1 /\ data[i] % 2 = 1
                                           /\ \A j \in (at + 2)..(i - 1) : data[j] % 2 = 0) - at
         ELSE Len(data) - at + 1

\* A record as it was read from position `start' on, and where the next one
\* begins: when it was not read to its end, where its header says.
SampleRead(header, start, read) ==
  [type |-> header.type, record |-> read.rec.record, id |-> read.rec.id, err |-> read.err,
   at |-> IF read.err = "" THEN read.at ELSE start + header.size]

\* Sample.read: a record from a position on, and where the next one begins.
ReadSample(data, start, eventAttr, formatMap) ==
  LET header == Header(Peek(data, start))
      at     == start + 1
      sample == ReadSampleRecord(data, at, eventAttr, formatMap)
      body   == at + BodyExtent(header.type, data, at)
      id     == MaybeReadSampleID(data, start, body, header.size, eventAttr, formatMap)
      other  == header.size - 1 - (IF eventAttr = NoAttr THEN 0 ELSE SampleIDSize(eventAttr))
      short  == "short"
      read   ==
        CASE header.type = "SAMPLE" -> [sample EXCEPT !.rec = [record |-> @, id |-> Restrict(@, DOMAIN @ \cap
                                          {"TID", "TIME", "ID", "STREAM_ID", "CPU"})]]
          [] header.type = "OTHER"  ->
               Result(at + other, [record |-> Words(data, at, other), id |-> <<>>],
                      IF at + other > Len(data) THEN short ELSE "")
          [] OTHER                  ->
               IF body > Len(data) THEN Result(body, [record |-> <<>>, id |-> <<>>], short)
               ELSE Result(id.at, [record |-> Words(data, at, body - at), id |-> id.rec], id.err)
  IN SampleRead(header, start, read)

-----------------------------------------------------------------------------
(* External: what the kernel writes for an event with such attributes.      *)

\* The words of a part, from what the event is and when it happened.  At some
\* times there is no branch to record.
KernelPart(f, attr, id, time) ==
  CASE f \in {"IDENTIFIER", "ID", "STREAM_ID"} -> <<id>>
    [] f = "READ"                  ->
         (IF "GROUP" \in attr.readFormat THEN <<1>> ELSE <<>>) \o
         [i \in 1..(1 + Cardinality(attr.readFormat \ {"GROUP"})) |-> time]
    [] f \in {"CALLCHAIN", "RAW"}  -> <<1, time>>
    [] f = "BRANCH_STACK"          -> IF time % 4 = 0 THEN <<0>> ELSE <<1, time, time, 3>>
    [] OTHER                       -> <<time>>

KernelParts(layout, attr, id, time) ==
  LET present == Present(layout, attr.sampleType)
  IN FlattenSeq([i \in DOMAIN present |-> KernelPart(present[i], attr, id, time)])

\* The times are even.
KernelBody(type, id, time) ==
  CASE type \in {"FORK", "EXIT"} -> <<time, time, time>>
    [] type = "LOST"             -> <<id, time>>
    [] type = "COMM"             -> <<time, time, time + 1>>
    [] type = "OTHER"            -> <<time>>

KernelRecord(type, attr, id, time) ==
  LET body == IF type = "SAMPLE" THEN KernelParts(SampleLayout, attr, id, time)
              ELSE KernelBody(type, id, time) \o
                   (IF attr.sampleIDAll THEN KernelParts(IDLayout, attr, id, time) ELSE <<>>)
  IN <<HeaderWord(type, Len(body) + 1)>> \o body
=============================================================================
