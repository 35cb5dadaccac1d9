---------------------------- MODULE RingBuffers ----------------------------
(***************************************************************************)
(* How pkg/sys/perf reads the ring buffers of the CPUs: the kernel writes  *)
(* records at the head of a ring, the goroutine in Run() polls, reads the  *)
(* rings that are ready up to the head it has seen, gives the space back   *)
(* and hands one list of samples to the goroutine that sorts it by time    *)
(* and dispatches it.                                                      *)
(*                                                                         *)
(* EventMonitor has the registry of events and the shutdown; here are the  *)
(* words, the positions and the times.  The kernel is external: it never   *)
(* fills a ring completely, counts what it has no space for and reports    *)
(* that in a LOST record before the next record it has space for.          *)
(***************************************************************************)
EXTENDS Records, FiniteSets

CONSTANTS
  Rings,        \* the group leaders, one for each CPU
  Size,         \* words of a ring
  TimeBase,     \* ring :> the wall clock when it was made
  RunningFor,   \* ring :> the time its event had been running then
  ChanCap,      \* capacity of dispatchChan
  Streams,      \* stream id :> the attributes its event was registered with
  Removable,    \* those whose event may be removed
  Sources,      \* what the kernel writes: a ring, a stream and a type of record
  TimeWidth,    \* times are counted modulo this number (2^64 in the code)
  MaxWrites     \* bound: records that are written

ASSUME SizeIsPositive == Size \in Nat \ {0}
ASSUME WritesAreNat == MaxWrites \in Nat /\ ChanCap \in Nat \ {0}
ASSUME SourcesHaveRings == \A s \in Sources : s[1] \in Rings
ASSUME StreamsHaveIDs == 0 \notin DOMAIN Streams
ASSUME ClocksAreTimes ==
  /\ TimeWidth \in Nat \ {0}
  /\ TimeBase \in [Rings -> Nat] /\ RunningFor \in [Rings -> Nat]

VARIABLES
  \* the rings, shared with the kernel
  data,          \* ring :> its words
  head,          \* ring :> metadata.DataHead
  tail,          \* ring :> metadata.DataTail
  lost,          \* ring :> what could not be written since the last LOST record
  woken,         \* rings poll() will report
  now,           \* the clock of the kernel
  \* the monitor
  timeOffset,    \* ring :> perfEventGroup.timeOffset
  order,         \* ring :> its place in pollfds
  formatMap,     \* stream id :> its attributes: eventAttrMap
  eventIDMap,    \* the stream ids that have an event
  ready,         \* the readyfds left to read
  loaded,        \* ring.read has loaded the head
  dataHead,      \* ... which was this
  first,         \* len(monitor.samples) when the ring was begun
  lastIndex, lastTimestamp,
  samples, pendingSamples,
  dispatchChan,
  batch,         \* what is left of the list that is being dispatched
  snapshot,      \* the copy of eventIDMap it is dispatched with
  \* what was written and dispatched, for the properties
  written,       \* ring :> the records the kernel has written, in order
  got,           \* ring :> the samples read from it, in order
  round,         \* the time when poll() last returned
  dispatched     \* the samples given to the subscriber, in order

kernelVars == <<data, head, lost, now, written>>
runVars    == <<tail, ready, loaded, dataHead, first, lastIndex, lastTimestamp, samples, pendingSamples, got, round>>
dispatchVars == <<batch, snapshot, dispatched>>
vars == <<kernelVars, runVars, dispatchVars, woken, timeOffset, order, formatMap, eventIDMap, dispatchChan>>

-----------------------------------------------------------------------------
(* A ring of words, with positions that only grow. *)

\* The words from position `from' to position `to', which f is given.
Available(r, from, to) ==
  LET begin == from % Size
      end   == to % Size
  IN IF end >= begin THEN [i \in 1..(end - begin) |-> data[r][begin + i - 1]]
     ELSE [i \in 1..(Size - begin) |-> data[r][begin + i - 1]] \o [i \in 1..end |-> data[r][i - 1]]

\* Where the record after this one begins: there is none after one that panics.
Following(words, read) == IF read.err = "panic" THEN Len(words) ELSE read.at

\* readSamples: every record of the words, each from where the last one ended.
ReadAll(words, eventAttr, formats) ==
  LET from[i \in 1..Len(words)] ==
        IF i = 1 THEN 0
        ELSE LET last == from[i - 1]
             IN IF last < Len(words) THEN Following(words, ReadSample(words, last, eventAttr, formats))
                ELSE Len(words)
      count == Cardinality({i \in 1..Len(words) : from[i] < Len(words)})
  IN [i \in 1..count |-> ReadSample(words, from[i], eventAttr, formats)]

TimeOf(sample) == IF "TIME" \in DOMAIN sample.id THEN sample.id["TIME"][1] ELSE 0
StreamOf(sample) == IF "STREAM_ID" \in DOMAIN sample.id THEN sample.id["STREAM_ID"][1] ELSE 0

\* The time on the wall clock of a time on the clock of a CPU.
Normalized(r, time) == (TimeBase[r] + ((time - timeOffset[r]) % TimeWidth)) % TimeWidth

\* cpuTimeOffset: from the record of a reference event that has just been
\* opened, and the time its ring's event has been running.
ReferenceAttr == [sampleType |-> {"TIME"}, readFormat |-> {}, sampleIDAll |-> FALSE]
CpuTimeOffset(words, running) ==
  (TimeOf(ReadAll(words, ReferenceAttr, <<>>)[1]) - running) % TimeWidth

ReferenceRecord == KernelRecord("SAMPLE", ReferenceAttr, 0, 2)

\* External: the record of an event of a stream.
RecordOf(id, type, time) ==
  KernelRecord(type, [sampleIDAll |-> Streams[id].sampleIDAll] @@ WriteAttr(FixupEventAttr(Streams[id])), id, time)

\* Whatever their layout is, records are words.
ASSUME RecordsAreWords ==
  /\ ReferenceRecord \in Seq(Nat)
  /\ \A id \in DOMAIN Streams, type \in {"LOST"} \cup {s[3] : s \in Sources}, time \in 0..(2 * MaxWrites + 3) :
        RecordOf(id, type, time) \in Seq(Nat)

\* The groups have been made, the reference records read, and the events of
\* Streams registered: those whose attributes can be written.
Init ==
  /\ data = [r \in Rings |-> [i \in 0..(Size - 1) |-> 0]]
  /\ head = [r \in Rings |-> Len(ReferenceRecord)]
  /\ tail = head
  /\ lost = [r \in Rings |-> 0]
  /\ woken = {}
  /\ now = 2
  /\ timeOffset = [r \in Rings |-> CpuTimeOffset(ReferenceRecord, RunningFor[r])]
  /\ order \in Injection(Rings, 1..Cardinality(Rings))
  /\ formatMap = [id \in {i \in DOMAIN Streams : WriteAttr(FixupEventAttr(Streams[i])).ok}
                    |-> FixupEventAttr(Streams[id])]
  /\ eventIDMap = DOMAIN formatMap
  /\ ready = {} /\ loaded = FALSE /\ dataHead = 0
  /\ first = 0 /\ lastIndex = 0 /\ lastTimestamp = 0
  /\ samples = <<>> /\ pendingSamples = <<>>
  /\ dispatchChan = <<>>
  /\ batch = <<>> /\ snapshot = {}
  /\ written = [r \in Rings |-> <<>>]
  /\ got = written
  /\ round = 0
  /\ dispatched = <<>>

-----------------------------------------------------------------------------
(* External: the kernel. *)

Space(r) == Size - 1 - (head[r] - tail[r])
Writes == now \div 2 - 1

\* A record of an event, after a LOST record if there is something to report.
\* Without space for both it is lost.
KernelWrite(r, id, type) ==
  LET time    == now + 2
      report  == IF lost[r] = 0 THEN <<>> ELSE RecordOf(id, "LOST", time)
      words   == report \o RecordOf(id, type, time)
      entry(t) == [type |-> t, id |-> id, time |-> time]
  IN /\ Writes < MaxWrites
     /\ id \in DOMAIN formatMap
     /\ now' = time
     /\ IF Len(words) <= Space(r)
        THEN /\ data' = [data EXCEPT ![r] =
                  [i \in 0..(Size - 1) |->
                     LET k == (i - head[r]) % Size IN IF k < Len(words) THEN words[k + 1] ELSE @[i]]]
             /\ head' = [head EXCEPT ![r] = @ + Len(words)]
             /\ lost' = [lost EXCEPT ![r] = 0]
             /\ written' = [written EXCEPT ![r] =
                  @ \o (IF lost[r] = 0 THEN <<>> ELSE <<entry("LOST")>>) \o <<entry(type)>>]
             /\ woken' = woken \cup {r}
        ELSE /\ lost' = [lost EXCEPT ![r] = @ + 1]
             /\ UNCHANGED <<data, head, written, woken>>
     /\ UNCHANGED <<runVars, dispatchVars, timeOffset, order, formatMap, eventIDMap, dispatchChan>>

-----------------------------------------------------------------------------
(* The goroutine in Run(). *)

Polling == ready = {} /\ samples = <<>>

\* poll() returns: the rings that have been woken, which it does not report
\* again before they are woken again.
Poll ==
  /\ Polling
  /\ woken # {}
  /\ ready' = woken
  /\ woken' = {}
  /\ round' = now
  /\ lastIndex' = 0 /\ lastTimestamp' = 0 /\ first' = 0
  /\ UNCHANGED <<kernelVars, dispatchVars, tail, loaded, dataHead, samples, pendingSamples, got,
                 timeOffset, order, formatMap, eventIDMap, dispatchChan>>

\* The ring that is being read: the first one in pollfds of those left.
Turn(r) == r \in ready /\ \A q \in ready \ {r} : order[r] < order[q]

\* ringBuffer.read loads the head: at first, and again after each turn.
LoadHead(r) ==
  /\ Turn(r)
  /\ ~loaded
  /\ loaded' = TRUE
  /\ dataHead' = head[r]
  /\ UNCHANGED <<kernelVars, dispatchVars, tail, ready, first, lastIndex, lastTimestamp, samples,
                 pendingSamples, got, round, woken, timeOffset, order, formatMap, eventIDMap, dispatchChan>>

\* What becomes of a record that was read from a ring.
Sample(r, read) == [read |-> read, time |-> TimeOf(read), ring |-> r, round |-> round]

Panics(read) == \E i \in DOMAIN read : read[i].err = "panic"

\* There is something between tail and head: the samples are read and the
\* space is given back.
ReadRing(r) ==
  LET read == ReadAll(Available(r, tail[r], dataHead), NoAttr, formatMap)
  IN /\ Turn(r)
     /\ loaded /\ dataHead > tail[r]
     /\ ~Panics(read)
     /\ samples' = samples \o [i \in DOMAIN read |-> Sample(r, read[i])]
     /\ got' = [got EXCEPT ![r] = @ \o read]
     /\ tail' = [tail EXCEPT ![r] = dataHead]
     /\ loaded' = FALSE
     /\ UNCHANGED <<kernelVars, dispatchVars, ready, dataHead, first, lastIndex, lastTimestamp,
                    pendingSamples, round, woken, timeOffset, order, formatMap, eventIDMap, dispatchChan>>

\* ... or a record panics, and that ends the program.
ReadPanics(r) ==
  LET read == ReadAll(Available(r, tail[r], dataHead), NoAttr, formatMap)
  IN /\ Turn(r)
     /\ loaded /\ dataHead > tail[r]
     /\ Panics(read)
     /\ got' = [got EXCEPT ![r] = @ \o read]
     /\ UNCHANGED <<kernelVars, dispatchVars, tail, ready, loaded, dataHead, first, lastIndex, lastTimestamp,
                    samples, pendingSamples, round, woken, timeOffset, order, formatMap, eventIDMap,
                    dispatchChan>>

Panicked == \E r \in Rings : Panics(got[r])

\* The ring is empty: the times of its samples are normalized, and as many
\* samples are set aside, from the end, as are later than the last one of the
\* first ring.  The first sample of the ring is not looked at.
RingDone(r) ==
  LET timed  == [i \in DOMAIN samples |->
                   IF i > first THEN [samples[i] EXCEPT !.time = Normalized(r, @)] ELSE samples[i]]
      later  == {i \in (lastIndex + 2)..Len(samples) : timed[i].time > lastTimestamp}
      keep   == IF first = 0 THEN Len(samples) ELSE Len(samples) - Cardinality(later)
  IN /\ Turn(r)
     /\ loaded /\ dataHead = tail[r]
     /\ lastTimestamp' = IF first = 0 /\ samples # <<>> THEN timed[Len(samples)].time ELSE lastTimestamp
     /\ samples' = SubSeq(timed, 1, keep)
     /\ pendingSamples' = pendingSamples \o SubSeq(timed, keep + 1, Len(samples))
     /\ lastIndex' = keep
     /\ first' = keep
     /\ ready' = ready \ {r}
     /\ loaded' = FALSE
     /\ UNCHANGED <<kernelVars, dispatchVars, tail, dataHead, got, round, woken, timeOffset, order, formatMap,
                    eventIDMap, dispatchChan>>

\* Mutant: pendingSamples is not emptied.
SendSamplesAgain ==
  /\ ready = {}
  /\ samples # <<>>
  /\ Len(dispatchChan) < ChanCap
  /\ dispatchChan' = Append(dispatchChan, samples \o pendingSamples)
  /\ samples' = <<>>
  /\ UNCHANGED <<kernelVars, dispatchVars, tail, ready, loaded, dataHead, first, lastIndex, lastTimestamp,
                 pendingSamples, got, round, woken, timeOffset, order, formatMap, eventIDMap>>

\* The samples, with those set aside, are handed to the dispatcher.
SendSamples ==
  /\ ready = {}
  /\ samples # <<>>
  /\ Len(dispatchChan) < ChanCap
  /\ dispatchChan' = Append(dispatchChan, samples \o pendingSamples)
  /\ samples' = <<>>
  /\ pendingSamples' = <<>>
  /\ UNCHANGED <<kernelVars, dispatchVars, tail, ready, loaded, dataHead, first, lastIndex, lastTimestamp, got,
                 round, woken, timeOffset, order, formatMap, eventIDMap>>

-----------------------------------------------------------------------------
(* The goroutine in dispatchSamples(). *)

Receive ==
  /\ batch = <<>>
  /\ dispatchChan # <<>>
  /\ batch' = Head(dispatchChan)
  /\ snapshot' = eventIDMap
  /\ dispatchChan' = Tail(dispatchChan)
  /\ UNCHANGED <<kernelVars, runVars, dispatched, woken, timeOffset, order, formatMap, eventIDMap>>

\* Mutant: the list is not sorted.
EarliestRead(list) == IF list = <<>> THEN {} ELSE {1}

\* Where a sorted list may begin: sort.Sort orders by time and leaves equal
\* times in any order.
Earliest(list) == {i \in DOMAIN list : \A j \in DOMAIN list : list[i].time <= list[j].time}

\* The next sample goes to the subscriber, unless the stream it names has no
\* event: then the map is loaded again, and the sample dropped if that does
\* not help.
Dispatch ==
  \E i \in Earliest(batch) :
     LET known == StreamOf(batch[i].read) \in snapshot
     IN /\ batch' = RemoveAt(batch, i)
        /\ snapshot' = IF known THEN snapshot ELSE eventIDMap
        /\ dispatched' = IF StreamOf(batch[i].read) \in snapshot \cup eventIDMap
                         THEN Append(dispatched, batch[i]) ELSE dispatched
        /\ UNCHANGED <<kernelVars, runVars, woken, timeOffset, order, formatMap, eventIDMap, dispatchChan>>

\* An event is removed: its streams leave one map, then the other.
RemoveAttrs(id) ==
  /\ id \in DOMAIN formatMap
  /\ formatMap' = Restrict(formatMap, DOMAIN formatMap \ {id})
  /\ UNCHANGED <<kernelVars, runVars, dispatchVars, woken, timeOffset, order, eventIDMap, dispatchChan>>

RemoveIDs(id) ==
  /\ id \in eventIDMap \ DOMAIN formatMap
  /\ eventIDMap' = eventIDMap \ {id}
  /\ UNCHANGED <<kernelVars, runVars, dispatchVars, woken, timeOffset, order, formatMap, dispatchChan>>

-----------------------------------------------------------------------------
RunStep == Poll \/ SendSamples \/ \E r \in Rings : LoadHead(r) \/ ReadRing(r) \/ ReadPanics(r) \/ RingDone(r)
DispatchStep == Receive \/ Dispatch

Next ==
  /\ ~Panicked
  /\ \/ RunStep
     \/ DispatchStep
     \/ \E s \in Sources : KernelWrite(s[1], s[2], s[3])
     \/ \E id \in Removable : RemoveAttrs(id) \/ RemoveIDs(id)

Spec == Init /\ [][Next]_vars

-----------------------------------------------------------------------------
(* Properties. *)

\* Whether the kernel has recorded branches with a sample.
HasBranches(w) ==
  LET attr == FixupEventAttr(Streams[w.id])
  IN "BRANCH_STACK" \in attr.sampleType /\ KernelPart("BRANCH_STACK", attr, w.id, w.time) # <<0>>

\* What has become of part f of a sample that has none: the values of a group of
\* counters are dropped.
PartIsKept(f, attr, w, words) ==
  CASE f = "READ" /\ "GROUP" \in attr.readFormat -> TRUE
    [] f \in {"CALLCHAIN", "RAW"} -> words = <<w.time>>
    [] f = "BRANCH_STACK"         -> words = <<>>
    [] OTHER                      -> words = KernelPart(f, attr, w.id, w.time)

SampleIsKept(w, g) ==
  LET attr == FixupEventAttr(Streams[w.id])
  IN \A f \in attr.sampleType : PartIsKept(f, attr, w, g.record[f])

\* Every record of a ring is read once, in the order it was written, across the
\* end of the ring and after records that cannot be read, and all of them when
\* the tail is at the head; a sample whose event is still registered is read as
\* the kernel wrote it, and what names its stream has the time it was written at.
\* Nothing panics but a sample with branches, and that always does
\* (ringBuffer.read, SampleRecord.read, Sample.read, cpuTimeOffset).
ReadsBack ==
  \A r \in Rings :
     /\ timeOffset[r] = (2 - RunningFor[r]) % TimeWidth
     /\ Len(got[r]) <= Len(written[r])
     /\ tail[r] = head[r] => Len(got[r]) = Len(written[r])
     /\ \A i \in DOMAIN got[r] :
          LET w == written[r][i]
              g == got[r][i]
          IN /\ g.type = w.type
             /\ g.err = "panic" => w.type = "SAMPLE" /\ HasBranches(w)
             /\ w.type = "SAMPLE" /\ w.id \in DOMAIN formatMap => g.err = IF HasBranches(w) THEN "panic" ELSE ""
             /\ w.type = "SAMPLE" /\ g.err = "" => SampleIsKept(w, g)
             /\ StreamOf(g) # 0 => TimeOf(g) = w.time

\* Samples are dispatched in the order of their normalized times, whatever CPU
\* they come from: one that is dispatched after a later one was written after
\* the poll of the round in which that one was read (readRingBuffers,
\* dispatchSamples).
DispatchedInOrder ==
  \A i, j \in DOMAIN dispatched :
     i < j /\ dispatched[i].time > dispatched[j].time => TimeOf(dispatched[j].read) > dispatched[i].round

\* No record is forgotten, in a ring or in the monitor.  Samples that are set aside
\* because another CPU may yet report earlier ones do not outlive the round: Run
\* never polls with pendingSamples, and what it does with them then
\* (flushPendingSamples) is never done.  And though poll() reports a ring only when
\* it has been written to since the last report, and the loop of ringBuffer.read
\* ends with a head that may be old, every ring is empty while Run has nothing to
\* wake up for.
NothingIsForgotten ==
  Polling =>
    /\ pendingSamples = <<>>
    /\ woken = {} => \A r \in Rings : tail[r] = head[r]
=============================================================================
