------------------------- MODULE EventMonitorProofs -------------------------
(***************************************************************************)
(* Proofs about EventMonitor, for any set of groups, of descriptors and of *)
(* tracepoints and any bounds.                                             *)
(***************************************************************************)
EXTENDS EventMonitor, FiniteSetTheorems, TLAPS

\* Which steps change which group of variables: all the others leave it alone.
RegistryStep ==
  \/ Register
  \/ OpStep
  \/ \E e \in DOMAIN events : UnregisterEvent(e) \/ CloseRemove(e)

GoroutineStep ==
  \/ RunStart \/ RunStep \/ RunPollFails \/ RunClosePipe \/ RunSignal
  \/ DispatchStep \/ Stop \/ CloseStop

RegistryStays ==
  /\ UNCHANGED <<registryVars, DOMAIN perf, kprobes, nextStream>>
  /\ \A fd \in DOMAIN perf : perf'[fd].stream = perf[fd].stream

LEMMA RegistryChanges == TypeOK /\ [Next]_vars => RegistryStep \/ RegistryStays
<1>. SUFFICES ASSUME TypeOK, [Next]_vars, ~RegistryStep PROVE RegistryStays
  OBVIOUS
<1>1. CASE UNCHANGED <<registryVars, perf, kprobes, nextStream>>
  BY <1>1 DEF RegistryStays
<1>2. ASSUME NEW fds, NEW on \in BOOLEAN, Switch(fds, on) PROVE RegistryStays
  <2>1. ASSUME NEW fd \in DOMAIN perf PROVE perf'[fd].stream = perf[fd].stream
    <3>1. perf[fd] \in [stream : Stream, name : Name, group : Groups, on : BOOLEAN]
      BY <2>1 DEF TypeOK, KernelTypeOK
    <3>2. perf'[fd] = perf[fd] \/ perf'[fd] = [perf[fd] EXCEPT !.on = on]
      BY <1>2, <2>1 DEF Switch
    <3>. QED
      BY <3>1, <3>2
  <2>. QED
    BY <1>2, <2>1 DEF Switch, RegistryStays
<1>3. CASE Control
  BY <1>2, <1>3 DEF Control, Enable, Disable, EnableAll, DisableAll
<1>4. CASE RunStep
  BY <1>1, <1>4 DEF RunStep, RunSpawn, RunPoll, RunRead, RunSend, RunHangup, RunWait, kernelVars
<1>5. CASE DispatchStep
  BY <1>1, <1>5 DEF DispatchStep, DispatchReceive, DispatchDone, DispatchReturn, DispatchNext,
                    DispatchSample, kernelVars
<1>6. CASE CloseStep
  BY <1>1, <1>6 DEF CloseStep, CloseWait, CloseLock, CloseFree, RegistryStep, kernelVars
<1>7. CASE \/ RunStart \/ RunPollFails \/ RunClosePipe \/ RunSignal \/ Stop \/ CloseStop
           \/ \E fd \in DOMAIN perf : WriteSample(fd)
  BY <1>1, <1>7 DEF RunStart, RunPollFails, RunClosePipe, RunSignal, Stop, CloseStop,
                    WriteSample, kernelVars
<1>8. CASE UNCHANGED vars
  BY <1>1, <1>8 DEF vars, kernelVars
<1>. QED
  BY <1>3, <1>4, <1>5, <1>6, <1>7, <1>8 DEF Next, RegistryStep

LEMMA GoroutinesChange ==
  [Next]_vars => \/ GoroutineStep
                 \/ UNCHANGED <<runVars, dispatchVars, chanVars>>
<1>. SUFFICES ASSUME [Next]_vars, ~GoroutineStep
              PROVE  UNCHANGED <<runVars, dispatchVars, chanVars>>
  OBVIOUS
<1>1. CASE Control
  BY <1>1 DEF Control, Enable, Disable, EnableAll, DisableAll, Switch
<1>2. CASE Register
  BY <1>2 DEF Register, RegisterTracepoint, RegisterKprobe, RegisterBegin
<1>3. CASE OpStep
  BY <1>3 DEF OpStep, Open, RegisterOpen, RegisterFail, RegisterAttrs, RegisterCommit,
              RemoveAttrs, RemoveIDs, RemoveDecoder
<1>4. CASE CloseStep
  BY <1>4 DEF CloseStep, CloseWait, CloseLock, CloseFree, CloseRemove, RemoveBegin
<1>5. CASE \/ \E fd \in DOMAIN perf : WriteSample(fd)
           \/ \E e \in DOMAIN events : UnregisterEvent(e)
  BY <1>5 DEF WriteSample, UnregisterEvent, RemoveBegin
<1>6. CASE UNCHANGED vars
  BY <1>6 DEF vars
<1>. QED
  BY <1>1, <1>2, <1>3, <1>4, <1>5, <1>6 DEF Next, GoroutineStep

-----------------------------------------------------------------------------
LEMMA GroupCount == Cardinality(Groups) \in Nat
BY GroupsExist, FS_CardinalityType

LEMMA MergeType ==
  ASSUME NEW f, NEW g, NEW S, NEW T,
         DOMAIN f \subseteq S, DOMAIN g \subseteq S,
         \A x \in DOMAIN f : f[x] \in T,
         \A x \in DOMAIN g : g[x] \in T
  PROVE  /\ DOMAIN Merge(f, g) = DOMAIN f \cup DOMAIN g
         /\ DOMAIN Merge(f, g) \subseteq S
         /\ \A x \in DOMAIN Merge(f, g) : Merge(f, g)[x] \in T
BY DEF Merge

LEMMA WithoutType ==
  ASSUME NEW f, NEW S, NEW T, NEW D,
         DOMAIN f \subseteq S,
         \A x \in DOMAIN f : f[x] \in T
  PROVE  /\ DOMAIN Without(f, D) = DOMAIN f \ D
         /\ DOMAIN Without(f, D) \subseteq S
         /\ \A x \in DOMAIN Without(f, D) : Without(f, D)[x] \in T
BY DEF Without

LEMMA RegistryTypes == TypeOK /\ RegistryStep => RegistryTypeOK'
<1>. SUFFICES ASSUME TypeOK, RegistryStep PROVE RegistryTypeOK'
  OBVIOUS
<1>. USE BoundsAreNat DEF EventID, Name
<1>1. ASSUME NEW name, NEW kprobe \in BOOLEAN, RegisterBegin(name, kprobe),
             name \in Name, kprobe => name \in EventID
      PROVE  RegistryTypeOK'
  <2>1. /\ DOMAIN decoders' \subseteq Name
        /\ \A n \in DOMAIN decoders' : decoders'[n] \in EventID
    BY <1>1 DEF RegisterBegin, Merge, TypeOK, RegistryTypeOK
  <2>. QED
    BY <1>1, <2>1 DEF RegisterBegin, NoOp, TypeOK, RegistryTypeOK
<1>2. CASE Register
  <2>1. RegisterKprobe => nextEventID \in EventID
    BY DEF RegisterKprobe, RegisterBegin, TypeOK, RegistryTypeOK
  <2>. QED
    BY <1>1, <1>2, <2>1 DEF Register, RegisterTracepoint, RegisterKprobe, KprobeName
<1>3. CASE Open
  <2>. PICK fdOf \in [Groups -> Fds], enabled \in BOOLEAN :
         \E streamOf \in [Groups -> nextStream .. nextStream + Cardinality(Groups) - 1] :
           RegisterOpen(fdOf, streamOf, enabled)
    BY <1>3 DEF Open
  <2>. PICK streamOf \in [Groups -> nextStream .. nextStream + Cardinality(Groups) - 1] :
         RegisterOpen(fdOf, streamOf, enabled)
    OBVIOUS
  <2>1. RangeOf(fdOf) \subseteq Fds /\ RangeOf(streamOf) \subseteq Stream
    BY GroupCount DEF RangeOf, RegisterOpen, Stream, TypeOK, KernelTypeOK
  <2>2. /\ DOMAIN owner' \subseteq Stream
        /\ \A s \in DOMAIN owner' : owner'[s] \in EventID
    BY <2>1 DEF RegisterOpen, Merge, TypeOK, RegistryTypeOK
  <2>. QED
    BY <2>1, <2>2 DEF RegisterOpen, Merge, TypeOK, RegistryTypeOK
<1>4. CASE RegisterFail
  BY <1>4 DEF RegisterFail, Without, NoOp, TypeOK, RegistryTypeOK
<1>5. CASE RegisterAttrs
  <2>. DEFINE idOf == [fd \in op.fds |-> perf[fd].stream]
  <2>1. \A fd \in op.fds : idOf[fd] \in Stream
    BY <1>5 DEF RegisterAttrs, TypeOK, RegistryTypeOK, KernelTypeOK
  <2>2. RangeOf(idOf) \subseteq Stream
    BY <2>1 DEF RangeOf
  <2>3. /\ DOMAIN eventids' \subseteq Fds
        /\ \A fd \in DOMAIN eventids' : eventids'[fd] \in Stream
    BY <1>5, <2>1 DEF RegisterAttrs, Merge, TypeOK, RegistryTypeOK
  <2>4. op' = [op EXCEPT !.pc = "commit", !.streams = RangeOf(idOf)]
        /\ eventAttrMap' = eventAttrMap \cup RangeOf(idOf)
        /\ nextEventID' = nextEventID + 1
        /\ nextEventID <= MaxEventID
        /\ op.pc = "attrs"
        /\ UNCHANGED <<events, eventfds, eventIDMap, decoders, owner>>
    BY <1>5 DEF RegisterAttrs, TypeOK, RegistryTypeOK
  <2>. HIDE DEF idOf
  <2>5. /\ op' \in [pc : {"free", "open", "attrs", "commit", "unattr", "unid", "undecode"},
                    name : Name \cup {0}, kprobe : BOOLEAN,
                    fds : SUBSET Fds, streams : SUBSET Stream]
        /\ op'.pc = "commit" /\ op'.name = op.name /\ op'.kprobe = op.kprobe
    BY <2>2, <2>4 DEF TypeOK, RegistryTypeOK
  <2>6. nextEventID' \in 1 .. MaxEventID + 1 /\ nextEventID' > 1
    BY <2>4 DEF TypeOK, RegistryTypeOK
  <2>7. /\ eventAttrMap' \subseteq Stream
        /\ op'.name \in Name
        /\ op'.kprobe => op'.name \in EventID
    BY <2>2, <2>4, <2>5 DEF TypeOK, RegistryTypeOK
  <2>. QED
    BY <2>3, <2>4, <2>5, <2>6, <2>7 DEF TypeOK, RegistryTypeOK
<1>6. CASE RegisterCommit
  BY <1>6 DEF RegisterCommit, Merge, NoOp, TypeOK, RegistryTypeOK
<1>7. ASSUME NEW e \in DOMAIN events, RemoveBegin(e) PROVE RegistryTypeOK'
  <2>1. events[e].name \in Name /\ events[e].kprobe \in BOOLEAN
        /\ (events[e].kprobe => events[e].name \in EventID)
    BY DEF TypeOK, RegistryTypeOK
  <2>2. {eventids[fd] : fd \in events[e].fds \cap DOMAIN eventids} \subseteq Stream
    BY DEF TypeOK, RegistryTypeOK
  <2>. QED
    BY <1>7, <2>1, <2>2 DEF RemoveBegin, Without, TypeOK, RegistryTypeOK
<1>8. CASE RemoveAttrs
  BY <1>8 DEF RemoveAttrs, TypeOK, RegistryTypeOK
<1>9. CASE RemoveIDs
  BY <1>9 DEF RemoveIDs, Without, TypeOK, RegistryTypeOK
<1>10. CASE RemoveDecoder
  BY <1>10 DEF RemoveDecoder, Without, NoOp, TypeOK, RegistryTypeOK
<1>. QED
  BY <1>2, <1>3, <1>4, <1>5, <1>6, <1>7, <1>8, <1>9, <1>10
     DEF RegistryStep, OpStep, UnregisterEvent, CloseRemove

LEMMA KernelTypes == TypeOK /\ [Next]_vars => KernelTypeOK'
<1>. SUFFICES ASSUME TypeOK, [Next]_vars PROVE KernelTypeOK'
  OBVIOUS
<1>. USE BoundsAreNat, GroupsExist DEF EventID, Stream, Name
<1>1. CASE Register
  <2>1. ASSUME NEW name, NEW kprobe, RegisterBegin(name, kprobe) PROVE nextEventID \in EventID
    BY <2>1 DEF RegisterBegin, TypeOK, RegistryTypeOK
  <2>2. CASE RegisterKprobe
    <3>1. kprobes' = kprobes \cup {nextEventID} /\ UNCHANGED <<perf, ring, nextStream, now>>
      BY <2>2, Zenon DEF RegisterKprobe, RegisterBegin, KprobeName
    <3>. QED
      BY <2>1, <2>2, <3>1 DEF RegisterKprobe, TypeOK, KernelTypeOK
  <2>3. ASSUME NEW name \in Tracepoints, RegisterTracepoint(name) PROVE KernelTypeOK'
    BY <2>3 DEF RegisterTracepoint, RegisterBegin, TypeOK, KernelTypeOK
  <2>. QED
    BY <1>1, <2>2, <2>3 DEF Register
<1>2. CASE Open
  <2>. PICK fdOf \in [Groups -> Fds], enabled \in BOOLEAN :
         \E streamOf \in [Groups -> nextStream .. nextStream + Cardinality(Groups) - 1] :
           RegisterOpen(fdOf, streamOf, enabled)
    BY <1>2 DEF Open
  <2>. PICK streamOf \in [Groups -> nextStream .. nextStream + Cardinality(Groups) - 1] :
         RegisterOpen(fdOf, streamOf, enabled)
    OBVIOUS
  <2>1. nextStream' \in 1 .. MaxStream + 1
    BY GroupCount DEF RegisterOpen, TypeOK, KernelTypeOK
  <2>2. /\ DOMAIN perf' \subseteq Fds
        /\ \A fd \in DOMAIN perf' :
             perf'[fd] \in [stream : Stream, name : Name, group : Groups, on : BOOLEAN]
    <3>. DEFINE opened == [fd \in RangeOf(fdOf) |->
                 LET g == CHOOSE x \in Groups : fdOf[x] = fd
                 IN  [stream |-> streamOf[g], name |-> op.name, group |-> g, on |-> enabled]]
    <3>1. ASSUME NEW fd \in RangeOf(fdOf)
          PROVE  opened[fd] \in [stream : Stream, name : Name, group : Groups, on : BOOLEAN]
      <4>. DEFINE g == CHOOSE x \in Groups : fdOf[x] = fd
      <4>1. g \in Groups
        BY DEF RangeOf
      <4>2. streamOf[g] \in Stream
        BY <4>1, GroupCount DEF RegisterOpen, TypeOK, KernelTypeOK
      <4>3. op.name \in Name
        BY DEF RegisterOpen, TypeOK, RegistryTypeOK
      <4>. QED
        BY <4>1, <4>2, <4>3
    <3>2. RangeOf(fdOf) \subseteq Fds
      BY DEF RangeOf
    <3>3. perf' = Merge(perf, opened)
      BY DEF RegisterOpen
    <3>. HIDE DEF opened
    <3>4. DOMAIN opened = RangeOf(fdOf)
      BY DEF opened
    <3>. QED
      BY <3>1, <3>2, <3>3, <3>4 DEF Merge, TypeOK, KernelTypeOK
  <2>. QED
    BY <2>1, <2>2 DEF RegisterOpen, TypeOK, KernelTypeOK
<1>3. CASE RegisterFail
  BY <1>3 DEF RegisterFail, Without, TypeOK, KernelTypeOK
<1>4. CASE RegisterAttrs \/ RegisterCommit \/ RemoveAttrs \/ RemoveIDs
  BY <1>4 DEF RegisterAttrs, RegisterCommit, RemoveAttrs, RemoveIDs, kernelVars,
              TypeOK, KernelTypeOK
<1>5. ASSUME NEW e \in DOMAIN events, RemoveBegin(e) PROVE KernelTypeOK'
  BY <1>5 DEF RemoveBegin, Without, TypeOK, KernelTypeOK
<1>6. CASE RemoveDecoder
  BY <1>6 DEF RemoveDecoder, TypeOK, KernelTypeOK
<1>7. ASSUME NEW fds, NEW on \in BOOLEAN, Switch(fds, on) PROVE KernelTypeOK'
  BY <1>7 DEF Switch, TypeOK, KernelTypeOK
<1>8. ASSUME NEW fd \in DOMAIN perf, WriteSample(fd) PROVE KernelTypeOK'
  <2>1. perf[fd] \in [stream : Stream, name : Name, group : Groups, on : BOOLEAN]
    BY DEF TypeOK, KernelTypeOK
  <2>2. [stream |-> perf[fd].stream, name |-> perf[fd].name, time |-> now + 1] \in Sample
    BY <1>8, <2>1 DEF WriteSample, Sample, Time, TypeOK, KernelTypeOK
  <2>. QED
    BY <1>8, <2>1, <2>2 DEF WriteSample, TypeOK, KernelTypeOK
<1>9. ASSUME NEW g \in Groups, RunRead(g) PROVE KernelTypeOK'
  BY <1>9 DEF RunRead, TypeOK, KernelTypeOK
<1>10. CASE CloseFree
  BY <1>10 DEF CloseFree, TypeOK, KernelTypeOK
<1>11. CASE UNCHANGED kernelVars
  BY <1>11 DEF kernelVars, TypeOK, KernelTypeOK
<1>12. CASE Control
  BY <1>7, <1>12 DEF Control, Enable, Disable, EnableAll, DisableAll
<1>13. CASE OpStep
  BY <1>2, <1>3, <1>4, <1>6, <1>13 DEF OpStep
<1>14. CASE RunStep
  BY <1>9, <1>11, <1>14 DEF RunStep, RunSpawn, RunPoll, RunSend, RunHangup, RunWait
<1>15. CASE DispatchStep
  BY <1>11, <1>15 DEF DispatchStep, DispatchReceive, DispatchDone, DispatchReturn, DispatchNext,
                      DispatchSample
<1>16. CASE CloseStep
  BY <1>5, <1>10, <1>11, <1>16 DEF CloseStep, CloseWait, CloseLock, CloseRemove
<1>17. CASE RunStart \/ RunPollFails \/ RunClosePipe \/ RunSignal \/ Stop \/ CloseStop
  BY <1>11, <1>17 DEF RunStart, RunPollFails, RunClosePipe, RunSignal, Stop, CloseStop
<1>18. CASE UNCHANGED vars
  BY <1>11, <1>18 DEF vars
<1>. QED
  BY <1>1, <1>5, <1>8, <1>12, <1>13, <1>14, <1>15, <1>16, <1>17, <1>18
     DEF Next, UnregisterEvent

LEMMA CloseTypes == TypeOK /\ [Next]_vars => CloseTypeOK'
<1>. SUFFICES ASSUME TypeOK, [Next]_vars PROVE CloseTypeOK'
  OBVIOUS
<1>1. CASE CloseStep
  BY <1>1 DEF CloseStep, CloseWait, CloseLock, CloseFree, CloseRemove, RemoveBegin, closeVars,
              TypeOK, CloseTypeOK
<1>2. CASE CloseStop
  BY <1>2 DEF CloseStop, TypeOK, CloseTypeOK
<1>3. CASE UNCHANGED closeVars
  BY <1>3 DEF closeVars, TypeOK, CloseTypeOK
<1>4. CASE OpStep
  BY <1>3, <1>4 DEF OpStep, Open, RegisterOpen, RegisterFail, RegisterAttrs, RegisterCommit,
                    RemoveAttrs, RemoveIDs, RemoveDecoder
<1>5. CASE RunStep
  BY <1>3, <1>5 DEF RunStep, RunSpawn, RunPoll, RunRead, RunSend, RunHangup, RunWait
<1>6. CASE DispatchStep
  BY <1>3, <1>6 DEF DispatchStep, DispatchReceive, DispatchDone, DispatchReturn, DispatchNext,
                    DispatchSample
<1>7. CASE Register \/ Control
  BY <1>3, <1>7 DEF Register, RegisterTracepoint, RegisterKprobe, RegisterBegin,
                    Control, Enable, Disable, EnableAll, DisableAll, Switch
<1>8. CASE \/ \E fd \in DOMAIN perf : WriteSample(fd)
           \/ \E e \in DOMAIN events : UnregisterEvent(e)
           \/ RunStart \/ RunPollFails \/ RunClosePipe \/ RunSignal \/ Stop
  BY <1>3, <1>8 DEF WriteSample, UnregisterEvent, RemoveBegin, RunStart, RunPollFails,
                    RunClosePipe, RunSignal, Stop
<1>9. CASE UNCHANGED vars
  BY <1>3, <1>9 DEF vars
<1>. QED
  BY <1>1, <1>2, <1>4, <1>5, <1>6, <1>7, <1>8, <1>9 DEF Next

LEMMA GoroutineTypes ==
  TypeOK /\ [Next]_vars => RunTypeOK' /\ DispatchTypeOK' /\ ChanTypeOK'
<1>. DEFINE Types == RunTypeOK /\ DispatchTypeOK /\ ChanTypeOK
<1>. SUFFICES ASSUME TypeOK, [Next]_vars PROVE Types'
  OBVIOUS
<1>. USE BoundsAreNat DEF EventID, Stream, Name, Sample, Time
<1>1. CASE RunStart \/ RunPollFails \/ RunClosePipe \/ RunSignal \/ Stop \/ CloseStop
  BY <1>1 DEF RunStart, RunPollFails, RunClosePipe, RunSignal, Stop, CloseStop,
              dispatchVars, chanVars, TypeOK, RunTypeOK, DispatchTypeOK, ChanTypeOK
<1>2. CASE RunSpawn
  BY <1>2 DEF RunSpawn, TypeOK, RunTypeOK, DispatchTypeOK, ChanTypeOK
<1>3. CASE RunPoll \/ RunHangup \/ RunWait
  BY <1>3 DEF RunPoll, RunHangup, RunWait, dispatchVars, chanVars,
              TypeOK, RunTypeOK, DispatchTypeOK, ChanTypeOK
<1>4. ASSUME NEW g \in Groups, RunRead(g) PROVE Types'
  BY <1>4 DEF RunRead, dispatchVars, chanVars,
              TypeOK, RunTypeOK, DispatchTypeOK, ChanTypeOK, KernelTypeOK
<1>5. CASE RunSend
  <2>1. CASE UNCHANGED dispatchChan
    BY <1>5, <2>1 DEF RunSend, dispatchVars, TypeOK, RunTypeOK, DispatchTypeOK, ChanTypeOK
  <2>2. CASE Len(dispatchChan) < ChanCap /\ dispatchChan' = Append(dispatchChan, samples)
    <3>1. samples \in SUBSET Sample /\ dispatchChan \in Seq(SUBSET Sample)
      BY DEF TypeOK, RunTypeOK, ChanTypeOK
    <3>2. dispatchChan' \in Seq(SUBSET Sample) /\ Len(dispatchChan') <= ChanCap
      BY <2>2, <3>1
    <3>. QED
      BY <1>5, <3>2 DEF RunSend, dispatchVars, TypeOK, RunTypeOK, DispatchTypeOK, ChanTypeOK
  <2>. QED
    BY <1>5, <2>1, <2>2 DEF RunSend
<1>6. CASE DispatchReceive
  <2>1. /\ dispatchChan \in Seq(SUBSET Sample)
        /\ dispatchChan # <<>>
    BY <1>6 DEF DispatchReceive, TypeOK, ChanTypeOK
  <2>2. /\ Head(dispatchChan) \subseteq Sample
        /\ Tail(dispatchChan) \in Seq(SUBSET Sample)
        /\ Len(Tail(dispatchChan)) <= Len(dispatchChan)
    BY <2>1
  <2>. QED
    BY <1>6, <2>1, <2>2 DEF DispatchReceive, runVars, TypeOK, RunTypeOK, DispatchTypeOK, ChanTypeOK,
                       RegistryTypeOK
<1>7. CASE DispatchDone \/ DispatchReturn \/ DispatchNext
  BY <1>7 DEF DispatchDone, DispatchReturn, DispatchNext, runVars, chanVars, NoCall,
              TypeOK, RunTypeOK, DispatchTypeOK, ChanTypeOK
<1>8. ASSUME NEW s \in batch, DispatchSample(s) PROVE Types'
  <2>. DEFINE known == IF s.stream \in DOMAIN snapshot THEN snapshot ELSE eventIDMap
  <2>1. DOMAIN known \subseteq Stream /\ \A x \in DOMAIN known : known[x] \in EventID
    BY DEF TypeOK, DispatchTypeOK, RegistryTypeOK
  <2>2. s.stream \in Stream
    BY DEF TypeOK, DispatchTypeOK
  <2>3. (IF s.name \in DOMAIN decoders THEN decoders[s.name] ELSE 0) \in 0 .. MaxEventID
    BY DEF TypeOK, RegistryTypeOK
  <2>4. /\ batch' \subseteq batch
        /\ snapshot' = known
        /\ dispatchPC' \in {"dispatch", "call"}
        /\ UNCHANGED <<runVars, chanVars>>
    BY <1>8 DEF DispatchSample
  <2>5. call' \in [event : 0 .. MaxEventID, stream : 0 .. MaxStream, decoder : 0 .. MaxEventID]
    <3>1. CASE UNCHANGED call
      BY <3>1 DEF TypeOK, DispatchTypeOK
    <3>2. CASE /\ s.stream \in DOMAIN known
               /\ call' = [event |-> known[s.stream], stream |-> s.stream,
                           decoder |-> IF s.name \in DOMAIN decoders THEN decoders[s.name] ELSE 0]
      BY <2>1, <2>2, <2>3, <3>2
    <3>. QED
      BY <1>8, <3>1, <3>2 DEF DispatchSample
  <2>. HIDE DEF known
  <2>. QED
    BY <2>1, <2>4, <2>5 DEF runVars, chanVars, TypeOK, RunTypeOK, DispatchTypeOK, ChanTypeOK
<1>9. CASE UNCHANGED <<runVars, dispatchVars, chanVars>>
  BY <1>9 DEF runVars, dispatchVars, chanVars, TypeOK, RunTypeOK, DispatchTypeOK, ChanTypeOK
<1>. QED
  BY <1>1, <1>2, <1>3, <1>4, <1>5, <1>6, <1>7, <1>8, <1>9, GoroutinesChange
     DEF GoroutineStep, RunStep, DispatchStep

\* TypeOK: every variable keeps its type.  The variables are those of
\* EventMonitor, the goroutines and the kernel in pkg/sys/perf/monitor.go.
THEOREM TypeInvariant == Spec => []TypeOK
<1>1. Init => TypeOK
  <2>. SUFFICES ASSUME Init PROVE TypeOK
    OBVIOUS
  <2>. USE BoundsAreNat DEF Init
  <2>1. RegistryTypeOK
    <3>1. DOMAIN EmptyMap = {}
      BY DEF EmptyMap
    <3>2. nextEventID \in 1 .. MaxEventID + 1
      OBVIOUS
    <3>. QED
      <4>1. op \in [pc : {"free", "open", "attrs", "commit", "unattr", "unid", "undecode"},
                    name : Name \cup {0}, kprobe : BOOLEAN,
                    fds : SUBSET Fds, streams : SUBSET Stream]
        BY DEF NoOp
      <4>2. op.pc = "free" /\ op.kprobe = FALSE
        BY DEF NoOp
      <4>. QED
        BY <3>1, <3>2, <4>1, <4>2 DEF RegistryTypeOK
  <2>2. RunTypeOK /\ CloseTypeOK
    BY DEF RunTypeOK, CloseTypeOK
  <2>3. ChanTypeOK
    <3>1. dispatchChan \in Seq(SUBSET Sample)
      OBVIOUS
    <3>2. Len(dispatchChan) <= ChanCap
      OBVIOUS
    <3>3. chanOpen \in BOOLEAN
      OBVIOUS
    <3>. QED
      BY <3>1, <3>2, <3>3 DEF ChanTypeOK
  <2>4. DispatchTypeOK
    <3>1. call \in [event : 0 .. MaxEventID, stream : 0 .. MaxStream, decoder : 0 .. MaxEventID]
      BY DEF NoCall
    <3>. QED
      BY <3>1 DEF DispatchTypeOK, EmptyMap
  <2>5. KernelTypeOK
    BY DEF KernelTypeOK, EmptyMap
  <2>. QED
    BY <2>1, <2>2, <2>3, <2>4, <2>5 DEF TypeOK
<1>2. TypeOK /\ [Next]_vars => TypeOK'
  <2>1. TypeOK /\ RegistryStays => RegistryTypeOK'
    BY DEF RegistryStays, registryVars, TypeOK, RegistryTypeOK
  <2>. QED
    BY <2>1, RegistryChanges, RegistryTypes, KernelTypes, CloseTypes, GoroutineTypes DEF TypeOK
<1>. QED
  BY <1>1, <1>2, PTL DEF Spec

-----------------------------------------------------------------------------
(* QuietWhenStopped *)

\* How far Run and the dispatcher are, seen from one another: the dispatcher
\* exists once Run has started it and ends after the channel is closed, empty.
Handshake ==
  /\ isRunning <=> runPC \notin {"none", "done"}
  /\ runPC \in {"none", "spawn"} => dispatchPC = "none"
  /\ runPC \in {"poll", "read"} => chanOpen
  /\ dispatchPC \in {"none", "done"} => dispatchChan = <<>>
  /\ dispatchPC = "done" => ~chanOpen
  /\ runPC \in {"poll", "read", "unpipe", "wait"} => dispatchPC # "none"
  /\ runPC \in {"signal", "done"} => dispatchPC \in {"none", "done"}

LEMMA HandshakeStep == Handshake /\ [Next]_vars => Handshake'
<1>. SUFFICES ASSUME Handshake, [Next]_vars PROVE Handshake'
  OBVIOUS
<1>1. CASE RunStart \/ RunPollFails \/ RunClosePipe \/ RunSignal \/ Stop \/ CloseStop
  BY <1>1 DEF RunStart, RunPollFails, RunClosePipe, RunSignal, Stop, CloseStop,
              dispatchVars, chanVars, Handshake
<1>2. CASE RunStep
  BY <1>2 DEF RunStep, RunSpawn, RunPoll, RunRead, RunSend, RunHangup, RunWait,
              dispatchVars, chanVars, Handshake
<1>3. CASE DispatchStep
  BY <1>3 DEF DispatchStep, DispatchReceive, DispatchDone, DispatchReturn, DispatchNext,
              DispatchSample, runVars, chanVars, Handshake
<1>4. CASE UNCHANGED <<runVars, dispatchVars, chanVars>>
  BY <1>4 DEF runVars, dispatchVars, chanVars, Handshake
<1>. QED
  BY <1>1, <1>2, <1>3, <1>4, GoroutinesChange DEF GoroutineStep

\* QuietWhenStopped: while isRunning is false no goroutine reads the maps
\* without monitor.lock (monitor.go: Run, dispatchSamples, stopWithSignal).
THEOREM QuietInvariant == Spec => []QuietWhenStopped
<1>1. Init => Handshake
  BY DEF Init, Handshake
<1>2. Handshake => QuietWhenStopped
  BY DEF Handshake, QuietWhenStopped
<1>. QED
  BY <1>1, <1>2, HandshakeStep, PTL DEF Spec

-----------------------------------------------------------------------------
(* RegistryConsistent *)

\* What the tables hold while an operation is under way: its descriptors and
\* its streams are there or not yet, or no more, by how far it is.
DescriptorInv ==
  /\ op.pc \in {"free", "open", "unattr", "unid", "undecode"} => op.fds = {}
  /\ eventfds = UNION {events[e].fds : e \in DOMAIN events}
  /\ \A e, f \in DOMAIN events : e # f => events[e].fds \cap events[f].fds = {}
  /\ eventfds \cap op.fds = {}
  /\ DOMAIN perf = eventfds \cup op.fds
  /\ DOMAIN eventids = eventfds \cup (IF op.pc = "commit" THEN op.fds ELSE {})

StreamInv ==
  /\ op.pc = "commit" => op.streams = {eventids[fd] : fd \in op.fds}
  /\ \A fd \in DOMAIN eventids : eventids[fd] = perf[fd].stream
  /\ \A fd \in DOMAIN perf : perf[fd].stream < nextStream
  /\ \A fd, fe \in DOMAIN perf : perf[fd].stream = perf[fe].stream => fd = fe
  /\ op.pc \in {"unattr", "unid"} =>
       \A s \in op.streams : s < nextStream /\ \A fd \in DOMAIN perf : perf[fd].stream # s

TableInv ==
  /\ eventAttrMap = RangeOf(eventids) \cup (IF op.pc = "unattr" THEN op.streams ELSE {})
  /\ DOMAIN eventIDMap = {eventids[fd] : fd \in eventfds}
                           \cup (IF op.pc \in {"unattr", "unid"} THEN op.streams ELSE {})
  /\ \A e \in DOMAIN events : \A fd \in events[e].fds : eventIDMap[eventids[fd]] = e
  /\ \A e \in DOMAIN events : e < nextEventID
  /\ op.pc = "commit" => nextEventID - 1 \notin DOMAIN events

RegistryInv == DescriptorInv /\ StreamInv /\ TableInv

LEMMA RegistryInvInit == Init => RegistryInv
<1>. SUFFICES ASSUME Init PROVE RegistryInv
  OBVIOUS
<1>. USE DEF Init, NoOp, EmptyMap
<1>1. DescriptorInv
  BY DEF DescriptorInv
<1>2. StreamInv
  BY DEF StreamInv
<1>3. TableInv
  BY DEF TableInv, RangeOf
<1>. QED
  BY <1>1, <1>2, <1>3 DEF RegistryInv

LEMMA RegistryInvStep == TypeOK /\ RegistryInv /\ RegistryStep => RegistryInv'
<1>. SUFFICES ASSUME TypeOK, RegistryInv, RegistryStep PROVE RegistryInv'
  OBVIOUS
<1>1. ASSUME NEW name, NEW kprobe, RegisterBegin(name, kprobe) PROVE RegistryInv'
  <2>1. /\ op.pc = "free" /\ op'.pc = "open" /\ op.fds = {} /\ op'.fds = {}
        /\ UNCHANGED <<nextEventID, events, eventfds, eventids, eventAttrMap, eventIDMap,
                       perf, nextStream>>
    BY <1>1 DEF RegisterBegin, LockFree, NoOp, RegistryInv, DescriptorInv
  <2>2. DescriptorInv'
    BY <2>1 DEF RegistryInv, DescriptorInv
  <2>3. StreamInv'
    BY <2>1 DEF RegistryInv, StreamInv
  <2>4. TableInv'
    BY <2>1 DEF RegistryInv, TableInv, RangeOf
  <2>. QED
    BY <2>2, <2>3, <2>4 DEF RegistryInv
<1>2. CASE Open
  <2>. PICK fdOf \in [Groups -> Fds], enabled \in BOOLEAN :
         \E streamOf \in [Groups -> nextStream .. nextStream + Cardinality(Groups) - 1] :
           RegisterOpen(fdOf, streamOf, enabled)
    BY <1>2 DEF Open
  <2>. PICK streamOf \in [Groups -> nextStream .. nextStream + Cardinality(Groups) - 1] :
         RegisterOpen(fdOf, streamOf, enabled)
    OBVIOUS
  <2>1. /\ op.pc = "open" /\ op'.pc = "attrs" /\ op.fds = {} /\ op'.fds = RangeOf(fdOf)
        /\ nextStream' = nextStream + Cardinality(Groups)
        /\ UNCHANGED <<nextEventID, events, eventfds, eventids, eventAttrMap, eventIDMap>>
    BY DEF RegisterOpen, TypeOK, RegistryTypeOK, RegistryInv, DescriptorInv
  <2>2. RangeOf(fdOf) \cap DOMAIN perf = {}
    BY DEF RegisterOpen, RangeOf
  <2>3. /\ DOMAIN perf' = DOMAIN perf \cup RangeOf(fdOf)
        /\ \A fd \in DOMAIN perf : perf'[fd] = perf[fd]
        /\ \A fd \in RangeOf(fdOf) : \E g \in Groups : fdOf[g] = fd /\ perf'[fd].stream = streamOf[g]
    <3>. DEFINE leaderOf(fd) == CHOOSE x \in Groups : fdOf[x] = fd
                opened == [fd \in RangeOf(fdOf) |->
                 [stream |-> streamOf[leaderOf(fd)], name |-> op.name,
                  group |-> leaderOf(fd), on |-> enabled]]
    <3>1. perf' = Merge(perf, opened)
      BY DEF RegisterOpen
    <3>2. \A fd \in RangeOf(fdOf) : leaderOf(fd) \in Groups /\ fdOf[leaderOf(fd)] = fd
      BY DEF RangeOf
    <3>3. \A fd \in RangeOf(fdOf) : opened[fd].stream = streamOf[leaderOf(fd)]
      OBVIOUS
    <3>4. DOMAIN opened = RangeOf(fdOf)
      OBVIOUS
    <3>. HIDE DEF opened, leaderOf
    <3>. QED
      BY <2>2, <3>1, <3>2, <3>3, <3>4 DEF Merge
  <2>4. DescriptorInv'
    BY <2>1, <2>2, <2>3 DEF RegistryInv, DescriptorInv
  <2>5. \A g \in Groups : streamOf[g] \in Int /\ nextStream <= streamOf[g] /\ streamOf[g] < nextStream'
    BY <2>1, GroupCount DEF TypeOK, KernelTypeOK
  <2>6. \A fd \in DOMAIN perf : perf[fd].stream \in Int /\ perf[fd].stream < nextStream
    BY BoundsAreNat DEF TypeOK, KernelTypeOK, Stream, RegistryInv, StreamInv
  <2>7. nextStream \in Int /\ nextStream' \in Int /\ nextStream <= nextStream'
    BY <2>1, GroupCount DEF TypeOK, KernelTypeOK
  <2>8. \A fd \in DOMAIN perf' : perf'[fd].stream < nextStream'
    <3>. SUFFICES ASSUME NEW fd \in DOMAIN perf' PROVE perf'[fd].stream < nextStream'
      OBVIOUS
    <3>1. CASE fd \in DOMAIN perf
      BY <2>3, <2>6, <2>7, <3>1
    <3>2. CASE fd \in RangeOf(fdOf)
      BY <2>3, <2>5, <3>2
    <3>. QED
      BY <2>3, <3>1, <3>2
  <2>9. ASSUME NEW fd \in DOMAIN perf', NEW fe \in DOMAIN perf', perf'[fd].stream = perf'[fe].stream
        PROVE  fd = fe
    <3>1. CASE fd \in DOMAIN perf /\ fe \in DOMAIN perf
      BY <2>3, <2>9, <3>1 DEF RegistryInv, StreamInv
    <3>2. CASE fd \in RangeOf(fdOf) /\ fe \in RangeOf(fdOf)
      <4>1. PICK g \in Groups : fdOf[g] = fd /\ perf'[fd].stream = streamOf[g]
        BY <2>3, <3>2
      <4>2. PICK h \in Groups : fdOf[h] = fe /\ perf'[fe].stream = streamOf[h]
        BY <2>3, <3>2
      <4>. QED
        BY <2>9, <4>1, <4>2 DEF RegisterOpen
    <3>3. ASSUME NEW x \in DOMAIN perf, NEW y \in RangeOf(fdOf) PROVE perf'[x].stream # perf'[y].stream
      <4>1. PICK g \in Groups : perf'[y].stream = streamOf[g]
        BY <2>3
      <4>. QED
        BY <2>3, <2>5, <2>6, <2>7, <4>1
    <3>. QED
      BY <2>3, <2>9, <3>1, <3>2, <3>3
  <2>10. StreamInv'
    <3>1. DOMAIN eventids \subseteq DOMAIN perf
      BY <2>1 DEF RegistryInv, DescriptorInv
    <3>2. \A fd \in DOMAIN eventids' : eventids'[fd] = perf'[fd].stream
      BY <2>1, <2>3, <3>1 DEF RegistryInv, StreamInv
    <3>. QED
      BY <2>1, <2>8, <2>9, <3>2 DEF StreamInv
  <2>11. TableInv'
    BY <2>1 DEF RegistryInv, TableInv, RangeOf
  <2>. QED
    BY <2>4, <2>10, <2>11 DEF RegistryInv
<1>3. CASE RegisterFail
  <2>1. /\ op.pc \in {"open", "attrs"} /\ op'.pc = "free" /\ op'.fds = {}
        /\ DOMAIN perf' = DOMAIN perf \ op.fds
        /\ \A fd \in DOMAIN perf' : perf'[fd] = perf[fd]
        /\ UNCHANGED <<nextEventID, events, eventfds, eventids, eventAttrMap, eventIDMap, nextStream>>
    BY <1>3 DEF RegisterFail, NoOp, Without
  <2>2. DescriptorInv'
    BY <2>1 DEF RegistryInv, DescriptorInv
  <2>3. StreamInv'
    <3>1. DOMAIN eventids \subseteq DOMAIN perf'
      BY <2>1 DEF RegistryInv, DescriptorInv
    <3>. QED
      BY <2>1, <3>1 DEF RegistryInv, StreamInv
  <2>4. TableInv'
    BY <2>1 DEF RegistryInv, TableInv, RangeOf
  <2>. QED
    BY <2>2, <2>3, <2>4 DEF RegistryInv
<1>4. CASE RegisterAttrs
  <2>. DEFINE idOf == [fd \in op.fds |-> perf[fd].stream]
  <2>1. /\ op.pc = "attrs" /\ op'.pc = "commit" /\ op'.fds = op.fds /\ op'.streams = RangeOf(idOf)
        /\ nextEventID' = nextEventID + 1 /\ nextEventID \in Int
        /\ eventids' = Merge(eventids, idOf)
        /\ eventAttrMap' = eventAttrMap \cup RangeOf(idOf)
        /\ UNCHANGED <<events, eventfds, eventIDMap, perf, nextStream>>
    BY <1>4 DEF RegisterAttrs, kernelVars, TypeOK, RegistryTypeOK
  <2>2. /\ DOMAIN idOf = op.fds
        /\ \A fd \in op.fds : idOf[fd] = perf[fd].stream
    OBVIOUS
  <2>. HIDE DEF idOf
  <2>3. /\ DOMAIN eventids = eventfds
        /\ eventfds \cap op.fds = {}
        /\ DOMAIN perf = eventfds \cup op.fds
    BY <2>1 DEF RegistryInv, DescriptorInv
  <2>4. /\ DOMAIN eventids' = eventfds \cup op.fds
        /\ \A fd \in eventfds : eventids'[fd] = eventids[fd]
        /\ \A fd \in op.fds : eventids'[fd] = idOf[fd]
    BY <2>1, <2>2, <2>3 DEF Merge
  <2>5. DescriptorInv'
    BY <2>1, <2>3, <2>4 DEF RegistryInv, DescriptorInv
  <2>6. StreamInv'
    <3>1. RangeOf(idOf) = {eventids'[fd] : fd \in op.fds}
      BY <2>2, <2>4 DEF RangeOf
    <3>2. \A fd \in DOMAIN eventids' : eventids'[fd] = perf'[fd].stream
      BY <2>1, <2>2, <2>3, <2>4 DEF RegistryInv, StreamInv
    <3>. QED
      BY <2>1, <3>1, <3>2 DEF RegistryInv, StreamInv
  <2>7. TableInv'
    <3>1. eventAttrMap' = RangeOf(eventids')
      <4>1. RangeOf(eventids') = RangeOf(eventids) \cup RangeOf(idOf)
        BY <2>2, <2>3, <2>4 DEF RangeOf
      <4>. QED
        BY <2>1, <4>1 DEF RegistryInv, TableInv
    <3>2. {eventids'[fd] : fd \in eventfds} = {eventids[fd] : fd \in eventfds}
      BY <2>4
    <3>3. DOMAIN eventIDMap' = {eventids'[fd] : fd \in eventfds'}
      BY <2>1, <3>2 DEF RegistryInv, TableInv
    <3>4. \A e \in DOMAIN events : events[e].fds \subseteq eventfds
      BY DEF RegistryInv, DescriptorInv
    <3>5. \A e \in DOMAIN events' : \A fd \in events'[e].fds : eventIDMap'[eventids'[fd]] = e
      BY <2>1, <2>4, <3>4 DEF RegistryInv, TableInv
    <3>6. \A e \in DOMAIN events : e \in Int /\ e < nextEventID
      BY BoundsAreNat DEF TypeOK, RegistryTypeOK, EventID, RegistryInv, TableInv
    <3>. QED
      BY <2>1, <3>1, <3>3, <3>5, <3>6 DEF TableInv
  <2>. QED
    BY <2>5, <2>6, <2>7 DEF RegistryInv
<1>5. CASE RegisterCommit
  <2>. DEFINE eventid == nextEventID - 1
              event == [name |-> op.name, kprobe |-> op.kprobe, fds |-> op.fds]
  <2>1. /\ op.pc = "commit" /\ op'.pc = "free" /\ op'.fds = {}
        /\ eventfds' = eventfds \cup op.fds
        /\ events' = Merge(events, [e \in {eventid} |-> event])
        /\ eventIDMap' = Merge(eventIDMap, [s \in op.streams |-> eventid])
        /\ UNCHANGED <<nextEventID, eventids, eventAttrMap, perf, nextStream>>
    BY <1>5 DEF RegisterCommit, NoOp, kernelVars
  <2>2. eventid \notin DOMAIN events
    BY <2>1 DEF RegistryInv, TableInv
  <2>3. /\ DOMAIN events' = DOMAIN events \cup {eventid}
        /\ \A e \in DOMAIN events : events'[e] = events[e]
        /\ events'[eventid].fds = op.fds
    BY <2>1, <2>2 DEF Merge
  <2>. HIDE DEF event
  <2>4. /\ DOMAIN eventids = eventfds \cup op.fds
        /\ eventfds \cap op.fds = {}
        /\ DOMAIN perf = eventfds \cup op.fds
        /\ eventfds = UNION {events[e].fds : e \in DOMAIN events}
        /\ \A e, f \in DOMAIN events : e # f => events[e].fds \cap events[f].fds = {}
    BY <2>1 DEF RegistryInv, DescriptorInv
  <2>5. \A e \in DOMAIN events : events[e].fds \subseteq eventfds
    BY <2>4
  <2>6. DescriptorInv'
    <3>1. eventfds' = UNION {events'[e].fds : e \in DOMAIN events'}
      BY <2>1, <2>3, <2>4
    <3>2. \A e, f \in DOMAIN events' : e # f => events'[e].fds \cap events'[f].fds = {}
      BY <2>3, <2>4, <2>5
    <3>. HIDE DEF eventid
    <3>. QED
      BY <2>1, <2>4, <3>1, <3>2 DEF DescriptorInv
  <2>7. StreamInv'
    BY <2>1 DEF RegistryInv, StreamInv
  <2>8. \A fd, fe \in DOMAIN eventids : eventids[fd] = eventids[fe] => fd = fe
    BY <2>4 DEF RegistryInv, StreamInv
  <2>9. op.streams = {eventids[fd] : fd \in op.fds}
    BY <2>1 DEF RegistryInv, StreamInv
  <2>10. /\ DOMAIN eventIDMap' = DOMAIN eventIDMap \cup op.streams
         /\ \A s \in op.streams : eventIDMap'[s] = eventid
         /\ \A s \in DOMAIN eventIDMap \ op.streams : eventIDMap'[s] = eventIDMap[s]
    BY <2>1 DEF Merge
  <2>11. DOMAIN eventIDMap = {eventids[fd] : fd \in eventfds}
    BY <2>1 DEF RegistryInv, TableInv
  <2>12. TableInv'
    <3>1. eventAttrMap' = RangeOf(eventids')
      BY <2>1 DEF RegistryInv, TableInv, RangeOf
    <3>2. DOMAIN eventIDMap' = {eventids'[fd] : fd \in eventfds'}
      BY <2>1, <2>9, <2>10, <2>11
    <3>3. ASSUME NEW e \in DOMAIN events', NEW fd \in events'[e].fds
          PROVE  eventIDMap'[eventids'[fd]] = e
      <4>1. CASE e = eventid
        BY <2>1, <2>3, <2>9, <2>10, <3>3, <4>1
      <4>2. CASE e \in DOMAIN events
        <5>1. fd \in events[e].fds /\ fd \in eventfds
          BY <2>3, <2>5, <3>3, <4>2
        <5>2. eventids[fd] \in DOMAIN eventIDMap \ op.streams
          BY <2>4, <2>8, <2>9, <2>11, <5>1
        <5>3. eventIDMap[eventids[fd]] = e
          BY <4>2, <5>1 DEF RegistryInv, TableInv
        <5>. QED
          BY <2>1, <2>10, <5>2, <5>3
      <4>. QED
        BY <2>3, <4>1, <4>2
    <3>4. \A e \in DOMAIN events' : e < nextEventID'
      <4>1. eventid < nextEventID
        BY DEF TypeOK, RegistryTypeOK
      <4>. QED
        BY <2>1, <2>3, <4>1 DEF RegistryInv, TableInv
    <3>. QED
      BY <2>1, <3>1, <3>2, <3>3, <3>4 DEF TableInv
  <2>. QED
    BY <2>6, <2>7, <2>12 DEF RegistryInv
<1>6. ASSUME NEW eventid \in DOMAIN events, RemoveBegin(eventid) PROVE RegistryInv'
  <2>. DEFINE fds == events[eventid].fds
  <2>1. /\ op.pc = "free" /\ op'.pc = "unattr" /\ op.fds = {} /\ op'.fds = {}
        /\ DOMAIN events = DOMAIN events' \cup {eventid} /\ eventid \notin DOMAIN events'
        /\ \A e \in DOMAIN events' : events'[e] = events[e]
        /\ eventfds' = eventfds \ fds
        /\ DOMAIN eventids' = DOMAIN eventids \ fds
        /\ \A fd \in DOMAIN eventids' : eventids'[fd] = eventids[fd]
        /\ DOMAIN perf' = DOMAIN perf \ fds
        /\ \A fd \in DOMAIN perf' : perf'[fd] = perf[fd]
        /\ op'.streams = {eventids[fd] : fd \in fds \cap DOMAIN eventids}
        /\ UNCHANGED <<nextEventID, eventAttrMap, eventIDMap, nextStream>>
    BY <1>6 DEF RemoveBegin, Without, RegistryInv, DescriptorInv
  <2>2. /\ DOMAIN eventids = eventfds /\ DOMAIN perf = eventfds
        /\ eventfds = UNION {events[e].fds : e \in DOMAIN events}
        /\ \A e, f \in DOMAIN events : e # f => events[e].fds \cap events[f].fds = {}
    BY <2>1 DEF RegistryInv, DescriptorInv
  <2>3. fds \subseteq eventfds
    BY <2>2
  <2>4. \A e \in DOMAIN events' : e \in DOMAIN events /\ events'[e].fds = events[e].fds
                                  /\ events[e].fds \cap fds = {}
    BY <2>1, <2>2
  <2>. HIDE DEF fds
  <2>5. DescriptorInv'
    <3>1. eventfds' = UNION {events'[e].fds : e \in DOMAIN events'}
      <4>1. ASSUME NEW fd \in eventfds' PROVE \E e \in DOMAIN events' : fd \in events'[e].fds
        <5>1. fd \in eventfds /\ fd \notin fds
          BY <2>1
        <5>2. PICK e \in DOMAIN events : fd \in events[e].fds
          BY <2>2, <5>1
        <5>3. e # eventid
          BY <5>1, <5>2 DEF fds
        <5>. QED
          BY <2>1, <5>2, <5>3
      <4>2. ASSUME NEW e \in DOMAIN events' PROVE events'[e].fds \subseteq eventfds'
        BY <2>1, <2>2, <2>4
      <4>. QED
        BY <4>1, <4>2
    <3>2. \A e, f \in DOMAIN events' : e # f => events'[e].fds \cap events'[f].fds = {}
      BY <2>2, <2>4
    <3>. QED
      BY <2>1, <2>2, <3>1, <3>2 DEF DescriptorInv
  <2>6. StreamInv'
    <3>1. \A fd \in DOMAIN eventids : eventids[fd] = perf[fd].stream
      BY DEF RegistryInv, StreamInv
    <3>2. ASSUME NEW s \in op'.streams
          PROVE  s < nextStream' /\ \A fd \in DOMAIN perf' : perf'[fd].stream # s
      <4>1. PICK fe \in fds : fe \in DOMAIN perf /\ s = perf[fe].stream
        BY <2>1, <2>2, <3>1
      <4>. QED
        BY <2>1, <4>1 DEF RegistryInv, StreamInv
    <3>3. \A fd \in DOMAIN eventids' : fd \in DOMAIN perf' /\ eventids'[fd] = perf'[fd].stream
      BY <2>1, <2>2, <3>1
    <3>4. /\ \A fd \in DOMAIN perf' : perf'[fd].stream < nextStream'
          /\ \A fd, fe \in DOMAIN perf' : perf'[fd].stream = perf'[fe].stream => fd = fe
      BY <2>1 DEF RegistryInv, StreamInv
    <3>. QED
      BY <2>1, <3>2, <3>3, <3>4 DEF StreamInv
  <2>7. TableInv'
    <3>1. RangeOf(eventids) = RangeOf(eventids') \cup op'.streams
      BY <2>1, <2>2, <2>3 DEF RangeOf
    <3>2. eventAttrMap' = RangeOf(eventids') \cup op'.streams
      BY <2>1, <3>1 DEF RegistryInv, TableInv
    <3>3. {eventids[fd] : fd \in eventfds} = {eventids'[fd] : fd \in eventfds'} \cup op'.streams
      BY <2>1, <2>2, <2>3
    <3>4. DOMAIN eventIDMap' = {eventids'[fd] : fd \in eventfds'} \cup op'.streams
      BY <2>1, <3>3 DEF RegistryInv, TableInv
    <3>5. \A e \in DOMAIN events' : \A fd \in events'[e].fds : eventIDMap'[eventids'[fd]] = e
      <4>1. \A e \in DOMAIN events' : events[e].fds \subseteq DOMAIN eventids'
        BY <2>1, <2>2, <2>4
      <4>. QED
        BY <2>1, <2>4, <4>1 DEF RegistryInv, TableInv
    <3>6. \A e \in DOMAIN events' : e < nextEventID'
      BY <2>1, <2>4 DEF RegistryInv, TableInv
    <3>. QED
      BY <2>1, <3>2, <3>4, <3>5, <3>6 DEF TableInv
  <2>. QED
    BY <2>5, <2>6, <2>7 DEF RegistryInv
<1>7. CASE RemoveAttrs
  <2>1. /\ op.pc = "unattr" /\ op'.pc = "unid" /\ op.fds = {} /\ op'.fds = {}
        /\ op'.streams = op.streams
        /\ eventAttrMap' = eventAttrMap \ op.streams
        /\ UNCHANGED <<nextEventID, events, eventfds, eventids, eventIDMap, perf, nextStream>>
    BY <1>7 DEF RemoveAttrs, kernelVars, TypeOK, RegistryTypeOK, RegistryInv, DescriptorInv
  <2>2. DescriptorInv'
    BY <2>1 DEF RegistryInv, DescriptorInv
  <2>3. StreamInv'
    BY <2>1 DEF RegistryInv, StreamInv
  <2>4. TableInv'
    <3>1. RangeOf(eventids) \cap op.streams = {}
      BY <2>1 DEF RangeOf, RegistryInv, DescriptorInv, StreamInv
    <3>2. eventAttrMap' = RangeOf(eventids')
      BY <2>1, <3>1 DEF RegistryInv, TableInv, RangeOf
    <3>. QED
      BY <2>1, <3>2 DEF RegistryInv, TableInv
  <2>. QED
    BY <2>2, <2>3, <2>4 DEF RegistryInv
<1>8. CASE RemoveIDs
  <2>1. /\ op.pc = "unid" /\ op'.pc = "undecode" /\ op.fds = {} /\ op'.fds = {}
        /\ eventIDMap' = Without(eventIDMap, op.streams)
        /\ UNCHANGED <<nextEventID, events, eventfds, eventids, eventAttrMap, perf, nextStream>>
    BY <1>8 DEF RemoveIDs, kernelVars, TypeOK, RegistryTypeOK, RegistryInv, DescriptorInv
  <2>2. DescriptorInv'
    BY <2>1 DEF RegistryInv, DescriptorInv
  <2>3. StreamInv'
    BY <2>1 DEF RegistryInv, StreamInv
  <2>4. TableInv'
    <3>1. \A fd \in eventfds : eventids[fd] \notin op.streams
      BY <2>1 DEF RegistryInv, DescriptorInv, StreamInv
    <3>2. DOMAIN eventIDMap = {eventids[fd] : fd \in eventfds} \cup op.streams
      BY <2>1 DEF RegistryInv, TableInv
    <3>3. DOMAIN eventIDMap' = {eventids[fd] : fd \in eventfds}
      BY <2>1, <3>1, <3>2 DEF Without
    <3>4. \A fd \in eventfds : eventIDMap'[eventids[fd]] = eventIDMap[eventids[fd]]
      BY <2>1, <3>1, <3>2 DEF Without
    <3>5. \A e \in DOMAIN events : events[e].fds \subseteq eventfds
      BY DEF RegistryInv, DescriptorInv
    <3>6. \A e \in DOMAIN events' : \A fd \in events'[e].fds : eventIDMap'[eventids'[fd]] = e
      BY <2>1, <3>4, <3>5 DEF RegistryInv, TableInv
    <3>7. eventAttrMap' = RangeOf(eventids')
      BY <2>1 DEF RegistryInv, TableInv, RangeOf
    <3>8. DOMAIN eventIDMap' = {eventids'[fd] : fd \in eventfds'}
      BY <2>1, <3>3
    <3>9. \A e \in DOMAIN events' : e < nextEventID'
      BY <2>1 DEF RegistryInv, TableInv
    <3>. QED
      BY <2>1, <3>6, <3>7, <3>8, <3>9 DEF TableInv
  <2>. QED
    BY <2>2, <2>3, <2>4 DEF RegistryInv
<1>9. CASE RemoveDecoder
  <2>1. /\ op.pc = "undecode" /\ op'.pc = "free" /\ op.fds = {} /\ op'.fds = {}
        /\ UNCHANGED <<nextEventID, events, eventfds, eventids, eventAttrMap, eventIDMap,
                       perf, nextStream>>
    BY <1>9 DEF RemoveDecoder, NoOp, RegistryInv, DescriptorInv
  <2>2. DescriptorInv'
    BY <2>1 DEF RegistryInv, DescriptorInv
  <2>3. StreamInv'
    BY <2>1 DEF RegistryInv, StreamInv
  <2>4. TableInv'
    BY <2>1 DEF RegistryInv, TableInv, RangeOf
  <2>. QED
    BY <2>2, <2>3, <2>4 DEF RegistryInv
<1>. QED
  BY <1>1, <1>2, <1>3, <1>4, <1>5, <1>6, <1>7, <1>8, <1>9
     DEF RegistryStep, Register, RegisterTracepoint, RegisterKprobe, OpStep,
         UnregisterEvent, CloseRemove

LEMMA RegistryInvStays == TypeOK /\ RegistryInv /\ RegistryStays => RegistryInv'
<1>. SUFFICES ASSUME TypeOK, RegistryInv, RegistryStays PROVE RegistryInv'
  OBVIOUS
<1>1. /\ UNCHANGED <<nextEventID, events, eventfds, eventids, eventAttrMap, eventIDMap,
                     op, nextStream>>
      /\ DOMAIN perf' = DOMAIN perf
      /\ \A fd \in DOMAIN perf : perf'[fd].stream = perf[fd].stream
  BY DEF RegistryStays, registryVars
<1>2. DOMAIN eventids \subseteq DOMAIN perf
  BY DEF RegistryInv, DescriptorInv
<1>3. DescriptorInv'
  BY <1>1 DEF RegistryInv, DescriptorInv
<1>4. StreamInv'
  BY <1>1, <1>2 DEF RegistryInv, StreamInv
<1>5. TableInv'
  BY <1>1 DEF RegistryInv, TableInv, RangeOf
<1>. QED
  BY <1>3, <1>4, <1>5 DEF RegistryInv

LEMMA RegistryInvariant == Spec => []RegistryInv
BY RegistryInvInit, RegistryInvStep, RegistryInvStays, RegistryChanges, TypeInvariant, PTL DEF Spec

\* RegistryConsistent: between operations the descriptors, the events, the
\* attributes and the stream ids the monitor keeps agree (monitor.go:
\* newRegisteredEvent, removeRegisteredEvent; the panics at the end of Close).
THEOREM RegistryInvariance == Spec => []RegistryConsistent
<1>1. RegistryInv => RegistryConsistent
  <2>. SUFFICES ASSUME RegistryInv, op.pc = "free" PROVE RegistryConsistent
    BY DEF RegistryConsistent
  <2>1. /\ eventfds = UNION {events[e].fds : e \in DOMAIN events}
        /\ \A e, f \in DOMAIN events : e # f => events[e].fds \cap events[f].fds = {}
        /\ DOMAIN perf = eventfds
        /\ DOMAIN eventids = eventfds
    BY DEF RegistryInv, DescriptorInv
  <2>2. \A fd \in eventfds : eventids[fd] = perf[fd].stream
    BY <2>1 DEF RegistryInv, StreamInv
  <2>3. eventAttrMap = RangeOf(eventids)
    BY DEF RegistryInv, TableInv
  <2>4. DOMAIN eventIDMap = RangeOf(eventids)
    BY <2>1 DEF RegistryInv, TableInv, RangeOf
  <2>5. \A e \in DOMAIN events : \A fd \in events[e].fds : eventIDMap[eventids[fd]] = e
    BY DEF RegistryInv, TableInv
  <2>. QED
    BY <2>1, <2>2, <2>3, <2>4, <2>5 DEF RegistryConsistent
<1>. QED
  BY <1>1, RegistryInvariant, PTL

-----------------------------------------------------------------------------
(* DispatchesOwner *)

Owns(map) == \A s \in DOMAIN map : s \in DOMAIN owner /\ map[s] = owner[s]

\* The streams of an event are recorded when they are opened, under the id the
\* event is going to have, and never recorded again.
OwnerTables ==
  /\ \A s \in DOMAIN owner : s < nextStream
  /\ Owns(eventIDMap)
  /\ op.pc = "attrs" => \A fd \in op.fds : /\ perf[fd].stream \in DOMAIN owner
                                           /\ owner[perf[fd].stream] = nextEventID
  /\ op.pc = "commit" => \A s \in op.streams : s \in DOMAIN owner /\ owner[s] = nextEventID - 1

OwnerDispatch == Owns(snapshot) /\ DispatchesOwner

\* Only an open records owners, of streams that are new.
LEMMA OwnerKept ==
  ASSUME TypeOK, [Next]_vars, OwnerTables
  PROVE  \A s \in DOMAIN owner : s \in DOMAIN owner' /\ owner'[s] = owner[s]
<1>1. CASE RegistryStays
  BY <1>1 DEF RegistryStays, registryVars
<1>2. CASE Open
  <2>. PICK fdOf \in [Groups -> Fds], enabled \in BOOLEAN :
         \E streamOf \in [Groups -> nextStream .. nextStream + Cardinality(Groups) - 1] :
           RegisterOpen(fdOf, streamOf, enabled)
    BY <1>2 DEF Open
  <2>. PICK streamOf \in [Groups -> nextStream .. nextStream + Cardinality(Groups) - 1] :
         RegisterOpen(fdOf, streamOf, enabled)
    OBVIOUS
  <2>1. \A s \in RangeOf(streamOf) : s \in Int /\ nextStream <= s
    BY GroupCount DEF RangeOf, TypeOK, KernelTypeOK
  <2>2. \A s \in DOMAIN owner : s \notin RangeOf(streamOf)
    BY <2>1, BoundsAreNat DEF OwnerTables, TypeOK, RegistryTypeOK, KernelTypeOK, Stream
  <2>. QED
    BY <2>2 DEF RegisterOpen, Merge
<1>3. CASE RegistryStep /\ ~Open
  BY <1>3 DEF RegistryStep, Register, RegisterTracepoint, RegisterKprobe, RegisterBegin, OpStep,
              RegisterFail, RegisterAttrs, RegisterCommit, RemoveAttrs, RemoveIDs, RemoveDecoder,
              UnregisterEvent, CloseRemove, RemoveBegin
<1>. QED
  BY <1>1, <1>2, <1>3, RegistryChanges

LEMMA OwnerTablesStep == TypeOK /\ RegistryInv /\ OwnerTables /\ [Next]_vars => OwnerTables'
<1>. SUFFICES ASSUME TypeOK, RegistryInv, OwnerTables, [Next]_vars PROVE OwnerTables'
  OBVIOUS
<1>1. CASE RegistryStays
  BY <1>1 DEF RegistryStays, registryVars, OwnerTables, Owns, TypeOK, RegistryTypeOK
<1>2. CASE Register
  BY <1>2 DEF Register, RegisterTracepoint, RegisterKprobe, RegisterBegin, NoOp, OwnerTables, Owns
<1>3. CASE Open
  <2>. PICK fdOf \in [Groups -> Fds], enabled \in BOOLEAN :
         \E streamOf \in [Groups -> nextStream .. nextStream + Cardinality(Groups) - 1] :
           RegisterOpen(fdOf, streamOf, enabled)
    BY <1>3 DEF Open
  <2>. PICK streamOf \in [Groups -> nextStream .. nextStream + Cardinality(Groups) - 1] :
         RegisterOpen(fdOf, streamOf, enabled)
    OBVIOUS
  <2>1. /\ op'.pc = "attrs" /\ op'.fds = RangeOf(fdOf)
        /\ nextStream' = nextStream + Cardinality(Groups)
        /\ owner' = Merge(owner, [s \in RangeOf(streamOf) |-> nextEventID])
        /\ UNCHANGED <<eventIDMap, nextEventID>>
    BY DEF RegisterOpen, TypeOK, RegistryTypeOK
  <2>2. /\ DOMAIN owner' = DOMAIN owner \cup RangeOf(streamOf)
        /\ \A s \in RangeOf(streamOf) : owner'[s] = nextEventID
    BY <2>1 DEF Merge
  <2>3. \A s \in DOMAIN owner' : s < nextStream'
    <3>1. \A s \in RangeOf(streamOf) : s < nextStream'
      BY <2>1, GroupCount DEF RangeOf, TypeOK, KernelTypeOK
    <3>2. \A s \in DOMAIN owner : s \in Int /\ s < nextStream
      BY BoundsAreNat DEF OwnerTables, TypeOK, RegistryTypeOK, Stream
    <3>3. \A s \in DOMAIN owner : s < nextStream'
      BY <2>1, <3>2, GroupCount DEF TypeOK, KernelTypeOK
    <3>. QED
      BY <2>2, <3>1, <3>3
  <2>4. \A fd \in RangeOf(fdOf) : perf'[fd].stream \in RangeOf(streamOf)
    <3>. DEFINE leaderOf(fd) == CHOOSE x \in Groups : fdOf[x] = fd
                opened == [fd \in RangeOf(fdOf) |->
                 [stream |-> streamOf[leaderOf(fd)], name |-> op.name,
                  group |-> leaderOf(fd), on |-> enabled]]
    <3>1. perf' = Merge(perf, opened)
      BY DEF RegisterOpen
    <3>2. \A fd \in RangeOf(fdOf) : leaderOf(fd) \in Groups
      BY DEF RangeOf
    <3>3. \A fd \in RangeOf(fdOf) : opened[fd].stream = streamOf[leaderOf(fd)]
      OBVIOUS
    <3>4. DOMAIN opened = RangeOf(fdOf)
      OBVIOUS
    <3>. HIDE DEF opened, leaderOf
    <3>. QED
      BY <3>1, <3>2, <3>3, <3>4 DEF Merge, RangeOf
  <2>5. Owns(eventIDMap)'
    BY <2>1, OwnerKept DEF OwnerTables, Owns
  <2>. QED
    BY <2>1, <2>2, <2>3, <2>4, <2>5 DEF OwnerTables
<1>4. CASE RegisterFail
  BY <1>4 DEF RegisterFail, NoOp, OwnerTables, Owns
<1>5. CASE RegisterAttrs
  <2>. DEFINE idOf == [fd \in op.fds |-> perf[fd].stream]
  <2>1. /\ op.pc = "attrs" /\ op'.pc = "commit" /\ op'.streams = RangeOf(idOf)
        /\ nextEventID' - 1 = nextEventID
        /\ UNCHANGED <<eventIDMap, owner, nextStream>>
    BY <1>5 DEF RegisterAttrs, kernelVars, TypeOK, RegistryTypeOK
  <2>2. \A s \in RangeOf(idOf) : s \in DOMAIN owner /\ owner[s] = nextEventID
    BY <2>1 DEF RangeOf, OwnerTables
  <2>. HIDE DEF idOf
  <2>. QED
    BY <2>1, <2>2 DEF OwnerTables, Owns
<1>6. CASE RegisterCommit
  <2>1. /\ op.pc = "commit" /\ op'.pc = "free"
        /\ eventIDMap' = Merge(eventIDMap, [s \in op.streams |-> nextEventID - 1])
        /\ UNCHANGED <<owner, nextStream>>
    BY <1>6 DEF RegisterCommit, NoOp, kernelVars
  <2>2. Owns(eventIDMap)'
    BY <2>1 DEF OwnerTables, Owns, Merge
  <2>. QED
    BY <2>1, <2>2 DEF OwnerTables
<1>7. ASSUME NEW e \in DOMAIN events, RemoveBegin(e) PROVE OwnerTables'
  BY <1>7 DEF RemoveBegin, OwnerTables, Owns
<1>8. CASE RemoveAttrs \/ RemoveIDs \/ RemoveDecoder
  BY <1>8 DEF RemoveAttrs, RemoveIDs, RemoveDecoder, Without, NoOp, kernelVars,
              OwnerTables, Owns, TypeOK, RegistryTypeOK
<1>. QED
  BY <1>1, <1>2, <1>3, <1>4, <1>5, <1>6, <1>7, <1>8, RegistryChanges
     DEF RegistryStep, OpStep, UnregisterEvent, CloseRemove

LEMMA OwnerDispatchStep ==
  TypeOK /\ OwnerTables /\ OwnerDispatch /\ [Next]_vars => OwnerDispatch'
<1>. SUFFICES ASSUME TypeOK, OwnerTables, OwnerDispatch, [Next]_vars PROVE OwnerDispatch'
  OBVIOUS
<1>1. CASE UNCHANGED dispatchVars
  BY <1>1, OwnerKept DEF dispatchVars, OwnerDispatch, Owns, DispatchesOwner
<1>2. CASE RunSpawn
  BY <1>2, OwnerKept DEF RunSpawn, OwnerDispatch, Owns, DispatchesOwner
<1>3. CASE DispatchReceive
  BY <1>3 DEF DispatchReceive, registryVars, OwnerTables, OwnerDispatch, Owns, DispatchesOwner
<1>4. CASE DispatchDone \/ DispatchReturn \/ DispatchNext
  BY <1>4 DEF DispatchDone, DispatchReturn, DispatchNext, registryVars,
              OwnerDispatch, Owns, DispatchesOwner
<1>5. ASSUME NEW s \in batch, DispatchSample(s) PROVE OwnerDispatch'
  <2>. DEFINE known == IF s.stream \in DOMAIN snapshot THEN snapshot ELSE eventIDMap
  <2>1. snapshot' = known /\ UNCHANGED owner
    BY <1>5 DEF DispatchSample, registryVars
  <2>2. \A x \in DOMAIN known : x \in DOMAIN owner /\ known[x] = owner[x]
    BY DEF OwnerTables, OwnerDispatch, Owns
  <2>3. Owns(snapshot)'
    BY <2>1, <2>2 DEF Owns
  <2>4. CASE s.stream \in DOMAIN known
    <3>1. call'.event = known[s.stream] /\ call'.stream = s.stream
      BY <1>5, <2>4 DEF DispatchSample
    <3>. QED
      BY <2>1, <2>2, <2>3, <2>4, <3>1 DEF OwnerDispatch, DispatchesOwner
  <2>5. CASE s.stream \notin DOMAIN known
    <3>1. UNCHANGED <<call, dispatchPC>>
      BY <1>5, <2>5 DEF DispatchSample
    <3>. QED
      BY <2>1, <2>3, <3>1 DEF OwnerDispatch, DispatchesOwner
  <2>. QED
    BY <2>4, <2>5
<1>6. CASE RunStep /\ ~RunSpawn
  BY <1>1, <1>6 DEF RunStep, RunPoll, RunRead, RunSend, RunHangup, RunWait
<1>7. CASE RunStart \/ RunPollFails \/ RunClosePipe \/ RunSignal \/ Stop \/ CloseStop
  BY <1>1, <1>7 DEF RunStart, RunPollFails, RunClosePipe, RunSignal, Stop, CloseStop
<1>. QED
  BY <1>1, <1>2, <1>3, <1>4, <1>5, <1>6, <1>7, GoroutinesChange DEF GoroutineStep, DispatchStep

\* DispatchesOwner: dispatchFn gets a sample with the id of the event whose
\* descriptor wrote it (monitor.go: dispatchSortedSamples and the maps it reads).
THEOREM OwnerInvariance == Spec => []DispatchesOwner
<1>1. Init => OwnerTables /\ OwnerDispatch
  BY DEF Init, NoOp, EmptyMap, OwnerTables, OwnerDispatch, Owns, DispatchesOwner
<1>2. OwnerDispatch => DispatchesOwner
  BY DEF OwnerDispatch
<1>. QED
  BY <1>1, <1>2, OwnerTablesStep, OwnerDispatchStep, TypeInvariant, RegistryInvariant, PTL DEF Spec

-----------------------------------------------------------------------------
(* KprobesTracked *)

LiveKprobes == {e \in DOMAIN events : events[e].kprobe}

\* Each kprobe has a name of its own, the number of its registration, so what
\* an operation under way adds or removes belongs to it alone.
KprobeInv ==
  /\ \A e \in DOMAIN events : IF events[e].kprobe THEN events[e].name = e
                                                  ELSE events[e].name \in Tracepoints
  /\ kprobes = LiveKprobes \cup (IF op.kprobe THEN {op.name} ELSE {})
  /\ op.pc = "free" => ~op.kprobe
  /\ op.pc # "free" /\ ~op.kprobe => op.name \in Tracepoints
  /\ op.kprobe => op.name \notin LiveKprobes
  /\ op.kprobe /\ op.pc \in {"open", "attrs"} => op.name = nextEventID
  /\ op.kprobe /\ op.pc = "commit" => op.name = nextEventID - 1
  /\ op.kprobe /\ op.pc \in {"open", "attrs", "commit"} =>
       op.name \in DOMAIN decoders /\ decoders[op.name] = op.name
  /\ \A e \in LiveKprobes : e \in DOMAIN decoders /\ decoders[e] = e

LEMMA KprobeInvStep == TypeOK /\ RegistryInv /\ KprobeInv /\ RegistryStep => KprobeInv'
<1>. SUFFICES ASSUME TypeOK, RegistryInv, KprobeInv, RegistryStep PROVE KprobeInv'
  OBVIOUS
<1>1. ASSUME NEW name \in Tracepoints, RegisterTracepoint(name) PROVE KprobeInv'
  <2>1. /\ op.pc = "free" /\ op'.pc = "open" /\ op'.kprobe = FALSE /\ op'.name = name
        /\ decoders' = Merge(decoders, [n \in {name} |-> nextEventID])
        /\ UNCHANGED <<events, kprobes>>
    BY <1>1 DEF RegisterTracepoint, RegisterBegin, LockFree, NoOp
  <2>2. \A e \in DOMAIN events : e # name
    BY TracepointsAreNames DEF TypeOK, RegistryTypeOK, EventID
  <2>3. LiveKprobes' = LiveKprobes
    BY <2>1 DEF LiveKprobes
  <2>4. \A e \in LiveKprobes : e \in DOMAIN decoders' /\ decoders'[e] = e
    BY <2>1, <2>2 DEF KprobeInv, LiveKprobes, Merge
  <2>. QED
    BY <2>1, <2>3, <2>4 DEF KprobeInv
<1>2. CASE RegisterKprobe
  <2>1. /\ op.pc = "free" /\ op'.pc = "open" /\ op'.kprobe = TRUE /\ op'.name = nextEventID
        /\ decoders' = Merge(decoders, [n \in {nextEventID} |-> nextEventID])
        /\ kprobes' = kprobes \cup {nextEventID}
        /\ UNCHANGED <<events, nextEventID>>
    BY <1>2 DEF RegisterKprobe, RegisterBegin, KprobeName, LockFree, NoOp
  <2>2. nextEventID \notin DOMAIN events
    BY DEF RegistryInv, TableInv, TypeOK, RegistryTypeOK
  <2>3. LiveKprobes' = LiveKprobes /\ nextEventID \notin LiveKprobes
    BY <2>1, <2>2 DEF LiveKprobes
  <2>4. kprobes' = LiveKprobes' \cup {nextEventID}
    BY <2>1, <2>3 DEF KprobeInv
  <2>5. /\ \A e \in LiveKprobes : e \in DOMAIN decoders' /\ decoders'[e] = e
        /\ nextEventID \in DOMAIN decoders' /\ decoders'[nextEventID] = nextEventID
    BY <2>1, <2>3 DEF KprobeInv, Merge
  <2>. QED
    BY <2>1, <2>3, <2>4, <2>5 DEF KprobeInv
<1>3. CASE Open
  <2>1. /\ op.pc = "open" /\ op'.pc = "attrs" /\ op'.kprobe = op.kprobe /\ op'.name = op.name
        /\ UNCHANGED <<events, kprobes, decoders, nextEventID>>
    BY <1>3 DEF Open, RegisterOpen, TypeOK, RegistryTypeOK
  <2>. QED
    BY <2>1 DEF KprobeInv, LiveKprobes
<1>4. CASE RegisterFail \/ RemoveDecoder
  <2>1. /\ op.pc # "free" /\ op'.pc = "free" /\ op'.kprobe = FALSE
        /\ kprobes' = IF op.kprobe THEN kprobes \ {op.name} ELSE kprobes
        /\ decoders' = Without(decoders, {op.name})
        /\ UNCHANGED <<events>>
    BY <1>4 DEF RegisterFail, RemoveDecoder, NoOp
  <2>2. op.name \notin LiveKprobes
    BY <2>1, TracepointsAreNames DEF KprobeInv, LiveKprobes, TypeOK, RegistryTypeOK, EventID
  <2>3. LiveKprobes' = LiveKprobes /\ kprobes' = LiveKprobes'
    BY <2>1, <2>2 DEF KprobeInv, LiveKprobes
  <2>4. \A e \in LiveKprobes : e \in DOMAIN decoders' /\ decoders'[e] = e
    BY <2>1, <2>2 DEF KprobeInv, Without
  <2>. QED
    BY <2>1, <2>3, <2>4 DEF KprobeInv
<1>5. CASE RegisterAttrs
  <2>1. /\ op.pc = "attrs" /\ op'.pc = "commit" /\ op'.kprobe = op.kprobe /\ op'.name = op.name
        /\ nextEventID' - 1 = nextEventID
        /\ UNCHANGED <<events, kprobes, decoders>>
    BY <1>5 DEF RegisterAttrs, kernelVars, TypeOK, RegistryTypeOK
  <2>. QED
    BY <2>1 DEF KprobeInv, LiveKprobes
<1>6. CASE RegisterCommit
  <2>. DEFINE eventid == nextEventID - 1
              event == [name |-> op.name, kprobe |-> op.kprobe, fds |-> op.fds]
  <2>1. /\ op.pc = "commit" /\ op'.pc = "free" /\ op'.kprobe = FALSE
        /\ events' = Merge(events, [e \in {eventid} |-> event])
        /\ UNCHANGED <<kprobes, decoders>>
    BY <1>6 DEF RegisterCommit, NoOp, kernelVars
  <2>2. eventid \notin DOMAIN events
    BY <2>1 DEF RegistryInv, TableInv
  <2>3. /\ DOMAIN events' = DOMAIN events \cup {eventid}
        /\ \A e \in DOMAIN events : events'[e] = events[e]
        /\ events'[eventid].kprobe = op.kprobe /\ events'[eventid].name = op.name
    BY <2>1, <2>2 DEF Merge
  <2>4. op.kprobe \in BOOLEAN /\ \A e \in DOMAIN events : events[e].kprobe \in BOOLEAN
    BY DEF TypeOK, RegistryTypeOK
  <2>5. op.kprobe => op.name = eventid
    BY <2>1 DEF KprobeInv
  <2>6. ~op.kprobe => op.name \in Tracepoints
    BY <2>1 DEF KprobeInv
  <2>. HIDE DEF event, eventid
  <2>7. LiveKprobes' = LiveKprobes \cup (IF op.kprobe THEN {op.name} ELSE {})
    BY <2>2, <2>3, <2>4, <2>5 DEF LiveKprobes
  <2>8. kprobes' = LiveKprobes'
    BY <2>1, <2>7 DEF KprobeInv
  <2>9. \A e \in DOMAIN events' : IF events'[e].kprobe THEN events'[e].name = e
                                                      ELSE events'[e].name \in Tracepoints
    BY <2>3, <2>5, <2>6 DEF KprobeInv
  <2>10. \A e \in LiveKprobes' : e \in DOMAIN decoders' /\ decoders'[e] = e
    BY <2>1, <2>7 DEF KprobeInv
  <2>. QED
    BY <2>1, <2>8, <2>9, <2>10 DEF KprobeInv
<1>7. ASSUME NEW e \in DOMAIN events, RemoveBegin(e) PROVE KprobeInv'
  <2>1. /\ op.pc = "free" /\ op'.pc = "unattr"
        /\ op'.kprobe = events[e].kprobe /\ op'.name = events[e].name
        /\ DOMAIN events = DOMAIN events' \cup {e} /\ e \notin DOMAIN events'
        /\ \A f \in DOMAIN events' : events'[f] = events[f]
        /\ UNCHANGED <<kprobes, decoders>>
    BY <1>7 DEF RemoveBegin, Without
  <2>2. events[e].kprobe \in BOOLEAN /\ \A f \in DOMAIN events' : events'[f].kprobe \in BOOLEAN
    BY <2>1 DEF TypeOK, RegistryTypeOK
  <2>3. events[e].kprobe => events[e].name = e
    BY DEF KprobeInv
  <2>4. ~events[e].kprobe => events[e].name \in Tracepoints
    BY DEF KprobeInv
  <2>5. LiveKprobes = LiveKprobes' \cup (IF events[e].kprobe THEN {e} ELSE {}) /\ e \notin LiveKprobes'
    BY <2>1, <2>2 DEF LiveKprobes
  <2>6. op.kprobe = FALSE
    BY <2>1 DEF KprobeInv, TypeOK, RegistryTypeOK
  <2>7. kprobes' = LiveKprobes' \cup (IF op'.kprobe THEN {op'.name} ELSE {})
    BY <2>1, <2>3, <2>5, <2>6 DEF KprobeInv
  <2>8. \A f \in DOMAIN events' : IF events'[f].kprobe THEN events'[f].name = f
                                                      ELSE events'[f].name \in Tracepoints
    BY <2>1 DEF KprobeInv
  <2>9. \A f \in LiveKprobes' : f \in DOMAIN decoders' /\ decoders'[f] = f
    BY <2>1, <2>5 DEF KprobeInv
  <2>. QED
    BY <2>1, <2>3, <2>4, <2>5, <2>7, <2>8, <2>9 DEF KprobeInv
<1>8. CASE RemoveAttrs \/ RemoveIDs
  <2>1. /\ op.pc \in {"unattr", "unid"} /\ op'.pc \in {"unid", "undecode"}
        /\ op'.kprobe = op.kprobe /\ op'.name = op.name
        /\ UNCHANGED <<events, kprobes, decoders>>
    BY <1>8 DEF RemoveAttrs, RemoveIDs, kernelVars, TypeOK, RegistryTypeOK
  <2>. QED
    BY <2>1 DEF KprobeInv, LiveKprobes
<1>. QED
  BY <1>1, <1>2, <1>3, <1>4, <1>5, <1>6, <1>7, <1>8
     DEF RegistryStep, Register, OpStep, UnregisterEvent, CloseRemove

\* KprobesTracked: the kprobes in the kernel are those of the registered
\* events, each with the decoder of its own (monitor.go: RegisterKprobe,
\* newRegisteredEvent, removeRegisteredEvent).
THEOREM KprobeInvariance == Spec => []KprobesTracked
<1>1. Init => KprobeInv
  BY DEF Init, NoOp, EmptyMap, KprobeInv, LiveKprobes
<1>2. KprobeInv /\ RegistryStays => KprobeInv'
  BY DEF RegistryStays, registryVars, KprobeInv, LiveKprobes
<1>3. KprobeInv => KprobesTracked
  <2>. SUFFICES ASSUME KprobeInv, op.pc = "free" PROVE KprobesTracked
    BY DEF KprobesTracked
  <2>1. \A e \in LiveKprobes : events[e].name = e
    BY DEF KprobeInv, LiveKprobes
  <2>2. kprobes = LiveKprobes
    BY DEF KprobeInv
  <2>3. kprobes = {events[e].name : e \in LiveKprobes}
    BY <2>1, <2>2
  <2>4. \A e \in LiveKprobes : events[e].name \in DOMAIN decoders /\ decoders[events[e].name] = e
    BY <2>1 DEF KprobeInv
  <2>. QED
    BY <2>3, <2>4 DEF KprobesTracked, LiveKprobes
<1>. QED
  BY <1>1, <1>2, <1>3, KprobeInvStep, RegistryChanges, TypeInvariant, RegistryInvariant, PTL DEF Spec
=============================================================================
