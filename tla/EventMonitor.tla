---------------------------- MODULE EventMonitor ----------------------------
(***************************************************************************)
(* The perf event monitor of pkg/sys/perf: the registry of events, the     *)
(* goroutine that runs Run() and reads the ring buffers, the goroutine     *)
(* that dispatches the samples, and the shutdown by Stop() and Close().    *)
(*                                                                         *)
(* Everything that changes the registry holds monitor.lock.  The two       *)
(* goroutines that handle samples never take it: they read copy-on-write   *)
(* maps.  A registration, a removal and a Close are therefore split at     *)
(* each point where another goroutine can see what they have done so far;  *)
(* `op' is the operation that holds the lock.                              *)
(*                                                                         *)
(* Not here: SetFilter, the time of a sample on its CPU, the contents of   *)
(* records.  A sample is the stream it came from, the name of its          *)
(* tracepoint and a time.                                                  *)
(***************************************************************************)
EXTENDS Integers, Sequences, FiniteSets

CONSTANTS
  Tracepoints,   \* names of the tracepoints of the kernel
  Groups,        \* the group leaders: one ring buffer for each of them
  Fds,           \* descriptors the kernel may return from perf_event_open
  ChanCap,       \* capacity of dispatchChan (config.Sensor.ChannelBufferLength)
  MaxEventID,    \* bound: registrations that may succeed
  MaxStream,     \* bound: descriptors the kernel may open
  MaxTime        \* bound: samples the kernel may write

ASSUME TracepointsAreNames == Tracepoints \cap Int = {}
ASSUME GroupsExist == Groups # {} /\ IsFiniteSet(Groups)
ASSUME BoundsAreNat ==
  /\ ChanCap \in Nat \ {0}
  /\ MaxEventID \in Nat
  /\ MaxStream \in Nat
  /\ MaxTime \in Nat

VARIABLES
  \* the fields of EventMonitor
  isRunning,     \* monitor.isRunning
  pipeOpen,      \* the write end of monitor.pipe is open
  nextEventID,
  events,        \* event id :> its name, kind and descriptors
  eventfds,      \* descriptors of the registered events
  eventids,      \* descriptor :> stream id
  eventAttrMap,  \* streams whose attributes the reader knows
  eventIDMap,    \* stream id :> event id
  decoders,      \* name :> the event whose registration added the decoder
  closed,        \* Close() has freed the maps and the groups
  \* the goroutines
  op,            \* the operation that holds monitor.lock
  closer,        \* the goroutine in Close(true)
  runPC,         \* the goroutine in Run()
  ready,         \* its readyfds
  samples,       \* monitor.samples
  dispatchPC,    \* the goroutine in dispatchSamples()
  batch,         \* what is left of the list of samples it is dispatching
  snapshot,      \* its local copy of eventIDMap
  call,          \* the arguments of the dispatchFn that is running
  dispatchChan,  \* lists of samples, from the one goroutine to the other
  chanOpen,
  \* the kernel
  perf,          \* open descriptor :> its stream, name, group and state
  kprobes,       \* the kprobes that are defined
  ring,          \* group :> samples in its ring buffer
  nextStream,
  now,
  \* history
  owner          \* stream id :> the event it was opened for

registryVars == <<nextEventID, events, eventfds, eventids, eventAttrMap,
                  eventIDMap, decoders, op, owner>>
runVars      == <<isRunning, pipeOpen, runPC, ready, samples>>
dispatchVars == <<dispatchPC, batch, snapshot, call>>
chanVars     == <<dispatchChan, chanOpen>>
closeVars    == <<closer, closed>>
kernelVars   == <<perf, kprobes, ring, nextStream, now>>

vars == <<registryVars, runVars, dispatchVars, chanVars, closeVars, kernelVars>>

-----------------------------------------------------------------------------
(* Values *)

EventID == 1 .. MaxEventID
Stream  == 1 .. MaxStream
Time    == 1 .. MaxTime

\* A kprobe gets a name of its own from the pid and the clock; the number of
\* the registration stands for it.
KprobeName(id) == id
Name == Tracepoints \cup EventID

Sample == [stream : Stream, name : Name, time : Time]

NoCall == [event |-> 0, stream |-> 0, decoder |-> 0]
NoOp   == [pc |-> "free", name |-> 0, kprobe |-> FALSE, fds |-> {}, streams |-> {}]

EmptyMap == [x \in {} |-> 0]
RangeOf(f) == {f[x] : x \in DOMAIN f}
Without(f, S) == [x \in DOMAIN f \ S |-> f[x]]
Merge(f, g) == [x \in DOMAIN f \cup DOMAIN g |-> IF x \in DOMAIN g THEN g[x] ELSE f[x]]

\* monitor.lock is held across the steps of a registration or a removal, and
\* by Close while it removes the events that are left.
LockFree == op.pc = "free" /\ closer # "teardown"

Init ==
  /\ isRunning = FALSE
  /\ pipeOpen = FALSE
  /\ nextEventID = 1
  /\ events = EmptyMap
  /\ eventfds = {}
  /\ eventids = EmptyMap
  /\ eventAttrMap = {}
  /\ eventIDMap = EmptyMap
  /\ decoders = EmptyMap
  /\ closed = FALSE
  /\ op = NoOp
  /\ closer = "none"
  /\ runPC = "none"
  /\ ready = {}
  /\ samples = {}
  /\ dispatchPC = "none"
  /\ batch = {}
  /\ snapshot = EmptyMap
  /\ call = NoCall
  /\ dispatchChan = <<>>
  /\ chanOpen = FALSE
  /\ perf = EmptyMap
  /\ kprobes = {}
  /\ ring = [g \in Groups |-> {}]
  /\ nextStream = 1
  /\ now = 0
  /\ owner = EmptyMap

-----------------------------------------------------------------------------
(* RegisterTracepoint and RegisterKprobe *)

\* AddKprobe, then AddDecoder: the decoder replaces one of the same name.
\* The caller registers nothing any more once Close has been called.
RegisterBegin(name, kprobe) ==
  /\ LockFree
  /\ closer = "none"
  /\ nextEventID <= MaxEventID
  /\ kprobes' = IF kprobe THEN kprobes \cup {name} ELSE kprobes
  /\ decoders' = Merge(decoders, [n \in {name} |-> nextEventID])
  /\ op' = [NoOp EXCEPT !.pc = "open", !.name = name, !.kprobe = kprobe]
  /\ UNCHANGED <<nextEventID, events, eventfds, eventids, eventAttrMap, eventIDMap,
                 owner, runVars, dispatchVars, chanVars, closeVars,
                 perf, ring, nextStream, now>>

RegisterTracepoint(name) == RegisterBegin(name, FALSE)
RegisterKprobe == RegisterBegin(KprobeName(nextEventID), TRUE)

\* perfEventOpen: a descriptor for each group.  It writes samples from now on,
\* unless the event is registered WithEventsDisabled.
RegisterOpen(fdOf, streamOf, enabled) ==
  /\ op.pc = "open"
  /\ nextStream + Cardinality(Groups) <= MaxStream + 1
  /\ fdOf \in [Groups -> Fds \ DOMAIN perf]
  /\ \A g, h \in Groups : fdOf[g] = fdOf[h] => g = h
  /\ streamOf \in [Groups -> nextStream .. nextStream + Cardinality(Groups) - 1]
  /\ \A g, h \in Groups : streamOf[g] = streamOf[h] => g = h
  /\ perf' = Merge(perf, [fd \in RangeOf(fdOf) |->
                 LET g == CHOOSE x \in Groups : fdOf[x] = fd
                 IN  [stream |-> streamOf[g], name |-> op.name, group |-> g, on |-> enabled]])
  /\ nextStream' = nextStream + Cardinality(Groups)
  /\ op' = [op EXCEPT !.pc = "attrs", !.fds = RangeOf(fdOf)]
  /\ owner' = Merge(owner, [s \in RangeOf(streamOf) |-> nextEventID])
  /\ UNCHANGED <<nextEventID, events, eventfds, eventids, eventAttrMap, eventIDMap,
                 decoders, runVars, dispatchVars, chanVars, closeVars,
                 kprobes, ring, now>>

\* perf_event_open, the filter or PERF_EVENT_IOC_ID failed: what was opened is
\* closed, and RemoveDecoder(name) and RemoveKprobe(name) undo the rest.
RegisterFail ==
  /\ op.pc \in {"open", "attrs"}
  /\ perf' = Without(perf, op.fds)
  /\ decoders' = Without(decoders, {op.name})
  /\ kprobes' = IF op.kprobe THEN kprobes \ {op.name} ELSE kprobes
  /\ op' = NoOp
  /\ UNCHANGED <<nextEventID, events, eventfds, eventids, eventAttrMap, eventIDMap,
                 owner, runVars, dispatchVars, chanVars, closeVars,
                 ring, nextStream, now>>

\* The stream ids are known: the event id is taken and the reader learns the
\* attributes of the streams.
RegisterAttrs ==
  LET idOf == [fd \in op.fds |-> perf[fd].stream]
  IN  /\ op.pc = "attrs"
      /\ eventids' = Merge(eventids, idOf)
      /\ nextEventID' = nextEventID + 1
      /\ eventAttrMap' = eventAttrMap \cup RangeOf(idOf)
      /\ op' = [op EXCEPT !.pc = "commit", !.streams = RangeOf(idOf)]
      /\ UNCHANGED <<events, eventfds, eventIDMap, decoders, owner,
                     runVars, dispatchVars, chanVars, closeVars, kernelVars>>

\* With a bug: nextEventID was counted on already.
RegisterCommitNextID ==
  /\ op.pc = "commit"
  /\ eventIDMap' = Merge(eventIDMap, [s \in op.streams |-> nextEventID])
  /\ eventfds' = eventfds \cup op.fds
  /\ events' = Merge(events, [e \in {nextEventID} |->
                  [name |-> op.name, kprobe |-> op.kprobe, fds |-> op.fds]])
  /\ op' = NoOp
  /\ UNCHANGED <<nextEventID, eventids, eventAttrMap, decoders, owner,
                 runVars, dispatchVars, chanVars, closeVars, kernelVars>>

\* The dispatcher learns the event id of the streams, and the event is there.
RegisterCommit ==
  LET eventid == nextEventID - 1
  IN  /\ op.pc = "commit"
      /\ eventIDMap' = Merge(eventIDMap, [s \in op.streams |-> eventid])
      /\ eventfds' = eventfds \cup op.fds
      /\ events' = Merge(events, [e \in {eventid} |->
                      [name |-> op.name, kprobe |-> op.kprobe, fds |-> op.fds]])
      /\ op' = NoOp
      /\ UNCHANGED <<nextEventID, eventids, eventAttrMap, decoders, owner,
                     runVars, dispatchVars, chanVars, closeVars, kernelVars>>

-----------------------------------------------------------------------------
(* UnregisterEvent; Close removes the events that are left the same way *)

\* The event is deleted and its descriptors closed.
RemoveBegin(eventid) ==
  LET event == events[eventid]
  IN  /\ op.pc = "free"
      /\ events' = Without(events, {eventid})
      /\ eventfds' = eventfds \ event.fds
      /\ eventids' = Without(eventids, event.fds)
      /\ perf' = Without(perf, event.fds)
      /\ op' = [pc |-> "unattr", name |-> event.name, kprobe |-> event.kprobe,
                fds |-> {}, streams |-> {eventids[fd] : fd \in event.fds \cap DOMAIN eventids}]
      /\ UNCHANGED <<nextEventID, eventAttrMap, eventIDMap, decoders, owner,
                     runVars, dispatchVars, chanVars, closeVars,
                     kprobes, ring, nextStream, now>>

UnregisterEvent(eventid) ==
  /\ LockFree
  /\ RemoveBegin(eventid)

RemoveAttrs ==
  /\ op.pc = "unattr"
  /\ eventAttrMap' = eventAttrMap \ op.streams
  /\ op' = [op EXCEPT !.pc = "unid"]
  /\ UNCHANGED <<nextEventID, events, eventfds, eventids, eventIDMap, decoders, owner,
                 runVars, dispatchVars, chanVars, closeVars, kernelVars>>

\* With a bug: the stream ids stay in the map.
RemoveIDsForgotten ==
  /\ op.pc = "unid"
  /\ op' = [op EXCEPT !.pc = "undecode"]
  /\ UNCHANGED <<nextEventID, events, eventfds, eventids, eventAttrMap, eventIDMap, decoders,
                 owner, runVars, dispatchVars, chanVars, closeVars, kernelVars>>

RemoveIDs ==
  /\ op.pc = "unid"
  /\ eventIDMap' = Without(eventIDMap, op.streams)
  /\ op' = [op EXCEPT !.pc = "undecode"]
  /\ UNCHANGED <<nextEventID, events, eventfds, eventids, eventAttrMap, decoders, owner,
                 runVars, dispatchVars, chanVars, closeVars, kernelVars>>

\* RemoveKprobe, then RemoveDecoder: by name, whoever added the decoder.
RemoveDecoder ==
  /\ op.pc = "undecode"
  /\ kprobes' = IF op.kprobe THEN kprobes \ {op.name} ELSE kprobes
  /\ decoders' = Without(decoders, {op.name})
  /\ op' = NoOp
  /\ UNCHANGED <<nextEventID, events, eventfds, eventids, eventAttrMap, eventIDMap, owner,
                 runVars, dispatchVars, chanVars, closeVars,
                 perf, ring, nextStream, now>>

-----------------------------------------------------------------------------
(* Enable, Disable, EnableAll, DisableAll *)

Switch(fds, on) ==
  /\ LockFree
  /\ perf' = [fd \in DOMAIN perf |-> IF fd \in fds THEN [perf[fd] EXCEPT !.on = on]
                                                   ELSE perf[fd]]
  /\ UNCHANGED <<registryVars, runVars, dispatchVars, chanVars, closeVars,
                 kprobes, ring, nextStream, now>>

Enable(eventid)  == Switch(events[eventid].fds, TRUE)
Disable(eventid) == Switch(events[eventid].fds, FALSE)
EnableAll        == Switch(eventfds, TRUE)
DisableAll       == Switch(eventfds, FALSE)

-----------------------------------------------------------------------------
(* The kernel writes a sample *)

WriteSample(fd) ==
  /\ now < MaxTime
  /\ perf[fd].on
  /\ now' = now + 1
  /\ ring' = [ring EXCEPT ![perf[fd].group] =
                @ \cup {[stream |-> perf[fd].stream, name |-> perf[fd].name, time |-> now + 1]}]
  /\ UNCHANGED <<registryVars, runVars, dispatchVars, chanVars, closeVars,
                 perf, kprobes, nextStream>>

-----------------------------------------------------------------------------
(* Run *)

RunStart ==
  /\ runPC = "none"
  /\ LockFree
  /\ isRunning' = TRUE
  /\ \/ /\ pipeOpen' = TRUE
        /\ runPC' = "spawn"
     \/ /\ pipeOpen' = pipeOpen       \* Pipe2 failed
        /\ runPC' = "signal"
  /\ UNCHANGED <<registryVars, ready, samples, dispatchVars, chanVars, closeVars, kernelVars>>

RunSpawn ==
  /\ runPC = "spawn"
  /\ runPC' = "poll"
  /\ dispatchChan' = <<>>
  /\ chanOpen' = TRUE
  /\ dispatchPC' = "receive"
  /\ UNCHANGED <<registryVars, isRunning, pipeOpen, ready, samples, batch, snapshot, call,
                 closeVars, kernelVars>>

\* poll() reports every group that has samples; a hangup of the pipe comes first.
RunPoll ==
  /\ runPC = "poll"
  /\ pipeOpen
  /\ ready' = {g \in Groups : ring[g] # {}}
  /\ ready' # {}
  /\ runPC' = "read"
  /\ UNCHANGED <<registryVars, isRunning, pipeOpen, samples, dispatchVars, chanVars,
                 closeVars, kernelVars>>

\* readRingBuffers empties one buffer.  A sample whose stream has no attributes
\* cannot be read: it stays without a stream id and is never dispatched.
RunRead(g) ==
  /\ runPC = "read"
  /\ g \in ready
  /\ ready' = ready \ {g}
  /\ samples' = samples \cup {s \in ring[g] : s.stream \in eventAttrMap}
  /\ ring' = [ring EXCEPT ![g] = {}]
  /\ UNCHANGED <<registryVars, isRunning, pipeOpen, runPC, dispatchVars, chanVars,
                 closeVars, perf, kprobes, nextStream, now>>

\* The samples go to the dispatcher, when there is room in its channel.
RunSend ==
  /\ runPC = "read"
  /\ ready = {}
  /\ \/ /\ samples = {}
        /\ UNCHANGED <<samples, dispatchChan>>
     \/ /\ samples # {}
        /\ Len(dispatchChan) < ChanCap
        /\ dispatchChan' = Append(dispatchChan, samples)
        /\ samples' = {}
  /\ runPC' = "poll"
  /\ UNCHANGED <<registryVars, isRunning, pipeOpen, ready, dispatchVars, chanOpen,
                 closeVars, kernelVars>>

\* The pipe hung up: the channel is closed.
RunHangup ==
  /\ runPC = "poll"
  /\ ~pipeOpen
  /\ chanOpen' = FALSE
  /\ runPC' = "unpipe"
  /\ UNCHANGED <<registryVars, isRunning, pipeOpen, ready, samples, dispatchVars, dispatchChan,
                 closeVars, kernelVars>>

\* poll() failed with something else than EINTR.
RunPollFails ==
  /\ runPC = "poll"
  /\ chanOpen' = FALSE
  /\ runPC' = "unpipe"
  /\ UNCHANGED <<registryVars, isRunning, pipeOpen, ready, samples, dispatchVars, dispatchChan,
                 closeVars, kernelVars>>

RunClosePipe ==
  /\ runPC = "unpipe"
  /\ LockFree
  /\ pipeOpen' = FALSE
  /\ runPC' = "wait"
  /\ UNCHANGED <<registryVars, isRunning, ready, samples, dispatchVars, chanVars,
                 closeVars, kernelVars>>

\* With a bug: Run does not wait for the dispatcher.
RunWaitSkipped ==
  /\ runPC = "wait"
  /\ runPC' = "signal"
  /\ UNCHANGED <<registryVars, isRunning, pipeOpen, ready, samples, dispatchVars, chanVars,
                 closeVars, kernelVars>>

\* monitor.wg.Wait()
RunWait ==
  /\ runPC = "wait"
  /\ dispatchPC = "done"
  /\ runPC' = "signal"
  /\ UNCHANGED <<registryVars, isRunning, pipeOpen, ready, samples, dispatchVars, chanVars,
                 closeVars, kernelVars>>

\* stopWithSignal
RunSignal ==
  /\ runPC = "signal"
  /\ LockFree
  /\ isRunning' = FALSE
  /\ runPC' = "done"
  /\ UNCHANGED <<registryVars, pipeOpen, ready, samples, dispatchVars, chanVars,
                 closeVars, kernelVars>>

-----------------------------------------------------------------------------
(* dispatchSamples *)

DispatchReceive ==
  /\ dispatchPC = "receive"
  /\ dispatchChan # <<>>
  /\ dispatchChan' = Tail(dispatchChan)
  /\ batch' = Head(dispatchChan)
  /\ snapshot' = eventIDMap
  /\ dispatchPC' = "dispatch"
  /\ UNCHANGED <<registryVars, runVars, call, chanOpen, closeVars, kernelVars>>

DispatchDone ==
  /\ dispatchPC = "receive"
  /\ dispatchChan = <<>>
  /\ ~chanOpen
  /\ dispatchPC' = "done"
  /\ UNCHANGED <<registryVars, runVars, batch, snapshot, call, chanVars, closeVars, kernelVars>>

\* With a bug: a stream the local map lacks is not looked up again.
DispatchSampleStale(s) ==
  /\ dispatchPC = "dispatch"
  /\ s \in batch
  /\ \A t \in batch : s.time <= t.time
  /\ batch' = batch \ {s}
  /\ \/ /\ s.stream \in DOMAIN snapshot
        /\ call' = [event |-> snapshot[s.stream], stream |-> s.stream,
                    decoder |-> IF s.name \in DOMAIN decoders THEN decoders[s.name] ELSE 0]
        /\ dispatchPC' = "call"
     \/ /\ s.stream \notin DOMAIN snapshot
        /\ UNCHANGED <<call, dispatchPC>>
  /\ UNCHANGED <<registryVars, runVars, snapshot, chanVars, closeVars, kernelVars>>

\* The first sample in the order of time whose stream the local map knows, or
\* the map that is fetched again for it: dispatchFn gets its event and what the
\* decoder of its name makes of it, nothing when there is none.
DispatchSample(s) ==
  LET known == IF s.stream \in DOMAIN snapshot THEN snapshot ELSE eventIDMap
  IN  /\ dispatchPC = "dispatch"
      /\ s \in batch
      /\ \A t \in batch : s.time <= t.time
      /\ batch' = batch \ {s}
      /\ snapshot' = known
      /\ \/ /\ s.stream \in DOMAIN known
            /\ call' = [event |-> known[s.stream], stream |-> s.stream,
                        decoder |-> IF s.name \in DOMAIN decoders THEN decoders[s.name] ELSE 0]
            /\ dispatchPC' = "call"
         \/ /\ s.stream \notin DOMAIN known
            /\ UNCHANGED <<call, dispatchPC>>
      /\ UNCHANGED <<registryVars, runVars, chanVars, closeVars, kernelVars>>

\* dispatchFn returns.
DispatchReturn ==
  /\ dispatchPC = "call"
  /\ call' = NoCall
  /\ dispatchPC' = "dispatch"
  /\ UNCHANGED <<registryVars, runVars, batch, snapshot, chanVars, closeVars, kernelVars>>

DispatchNext ==
  /\ dispatchPC = "dispatch"
  /\ batch = {}
  /\ dispatchPC' = "receive"
  /\ UNCHANGED <<registryVars, runVars, batch, snapshot, call, chanVars, closeVars, kernelVars>>

-----------------------------------------------------------------------------
(* Stop and Close *)

\* Stop(false): the write end of the pipe is closed, once.
Stop ==
  /\ LockFree
  /\ isRunning
  /\ pipeOpen' = FALSE
  /\ UNCHANGED <<registryVars, isRunning, runPC, ready, samples, dispatchVars, chanVars,
                 closeVars, kernelVars>>

\* With a bug: Close waits for a monitor that nobody has told to stop.
CloseStopSilent ==
  /\ closer = "none"
  /\ LockFree
  /\ closer' = IF isRunning THEN "waiting" ELSE "stopped"
  /\ UNCHANGED <<registryVars, isRunning, pipeOpen, runPC, ready, samples, dispatchVars,
                 chanVars, closed, kernelVars>>

\* Close(true) begins with Stop(true).
CloseStop ==
  /\ closer = "none"
  /\ LockFree
  /\ IF isRunning THEN pipeOpen' = FALSE /\ closer' = "waiting"
                  ELSE UNCHANGED pipeOpen /\ closer' = "stopped"
  /\ UNCHANGED <<registryVars, isRunning, runPC, ready, samples, dispatchVars, chanVars,
                 closed, kernelVars>>

\* cond.Wait() until the monitor is not running.
CloseWait ==
  /\ closer = "waiting"
  /\ LockFree
  /\ ~isRunning
  /\ closer' = "stopped"
  /\ UNCHANGED <<registryVars, runVars, dispatchVars, chanVars, closed, kernelVars>>

CloseLock ==
  /\ closer = "stopped"
  /\ LockFree
  /\ closer' = "teardown"
  /\ UNCHANGED <<registryVars, runVars, dispatchVars, chanVars, closed, kernelVars>>

CloseRemove(eventid) ==
  /\ closer = "teardown"
  /\ RemoveBegin(eventid)

\* Nothing is left, or Close panics: see RegistryConsistent.
CloseFree ==
  /\ closer = "teardown"
  /\ op.pc = "free"
  /\ DOMAIN events = {}
  /\ closer' = "done"
  /\ closed' = TRUE
  /\ ring' = [g \in Groups |-> {}]
  /\ UNCHANGED <<registryVars, runVars, dispatchVars, chanVars,
                 perf, kprobes, nextStream, now>>

-----------------------------------------------------------------------------
Register ==
  \/ \E name \in Tracepoints : RegisterTracepoint(name)
  \/ RegisterKprobe

Open ==
  \E fdOf \in [Groups -> Fds], enabled \in BOOLEAN :
    \E streamOf \in [Groups -> nextStream .. nextStream + Cardinality(Groups) - 1] :
      RegisterOpen(fdOf, streamOf, enabled)

\* The rest of an operation that holds the lock.
OpStep == \/ Open \/ RegisterFail \/ RegisterAttrs \/ RegisterCommit
          \/ RemoveAttrs \/ RemoveIDs \/ RemoveDecoder

Control ==
  \/ \E e \in DOMAIN events : Enable(e) \/ Disable(e)
  \/ EnableAll
  \/ DisableAll

RunStep == \/ RunSpawn \/ RunPoll \/ (\E g \in Groups : RunRead(g)) \/ RunSend
           \/ RunHangup \/ RunWait

DispatchStep == \/ DispatchReceive \/ DispatchDone \/ DispatchReturn \/ DispatchNext
                \/ \E s \in batch : DispatchSample(s)

CloseStep == \/ CloseWait \/ CloseLock \/ CloseFree
             \/ \E e \in DOMAIN events : CloseRemove(e)

Next ==
  \/ Register
  \/ \E e \in DOMAIN events : UnregisterEvent(e)
  \/ OpStep
  \/ Control
  \/ \E fd \in DOMAIN perf : WriteSample(fd)
  \/ RunStart \/ RunStep \/ RunPollFails \/ RunClosePipe \/ RunSignal
  \/ DispatchStep
  \/ Stop
  \/ CloseStop \/ CloseStep

Spec == Init /\ [][Next]_vars

\* The goroutines run, an operation that holds the lock goes on, and a
\* goroutine that waits for the lock gets it: a sync.Mutex does not starve a
\* waiter.  Nobody has to call anything, and the kernel need not write.
Fairness ==
  /\ WF_vars(OpStep)
  /\ WF_vars(RunStep)
  /\ WF_vars(DispatchStep)
  /\ SF_vars(RunClosePipe)
  /\ SF_vars(RunSignal)
  /\ SF_vars(CloseStep)

FairSpec == Spec /\ Fairness

-----------------------------------------------------------------------------
(* Properties *)

\* The values the variables take.
RegistryTypeOK ==
  /\ nextEventID \in 1 .. MaxEventID + 1
  /\ DOMAIN events \subseteq EventID
  /\ \A e \in DOMAIN events :
       /\ events[e] \in [name : Name, kprobe : BOOLEAN, fds : SUBSET Fds]
       /\ events[e].kprobe => events[e].name \in EventID
  /\ eventfds \subseteq Fds
  /\ DOMAIN eventids \subseteq Fds
  /\ \A fd \in DOMAIN eventids : eventids[fd] \in Stream
  /\ eventAttrMap \subseteq Stream
  /\ DOMAIN eventIDMap \subseteq Stream
  /\ \A s \in DOMAIN eventIDMap : eventIDMap[s] \in EventID
  /\ DOMAIN decoders \subseteq Name
  /\ \A n \in DOMAIN decoders : decoders[n] \in EventID
  /\ op \in [pc : {"free", "open", "attrs", "commit", "unattr", "unid", "undecode"},
             name : Name \cup {0}, kprobe : BOOLEAN,
             fds : SUBSET Fds, streams : SUBSET Stream]
  /\ op.pc # "free" => op.name \in Name
  /\ op.kprobe => op.name \in EventID
  /\ op.pc \in {"open", "attrs"} => nextEventID <= MaxEventID
  /\ op.pc = "commit" => nextEventID > 1
  /\ op.pc = "attrs" => op.fds \subseteq DOMAIN perf
  /\ DOMAIN owner \subseteq Stream
  /\ \A s \in DOMAIN owner : owner[s] \in EventID

RunTypeOK ==
  /\ isRunning \in BOOLEAN
  /\ pipeOpen \in BOOLEAN
  /\ runPC \in {"none", "spawn", "poll", "read", "unpipe", "wait", "signal", "done"}
  /\ ready \subseteq Groups
  /\ samples \subseteq Sample

DispatchTypeOK ==
  /\ dispatchPC \in {"none", "receive", "dispatch", "call", "done"}
  /\ batch \subseteq Sample
  /\ DOMAIN snapshot \subseteq Stream
  /\ \A s \in DOMAIN snapshot : snapshot[s] \in EventID
  /\ call \in [event : 0 .. MaxEventID, stream : 0 .. MaxStream, decoder : 0 .. MaxEventID]

ChanTypeOK ==
  /\ dispatchChan \in Seq(SUBSET Sample)
  /\ Len(dispatchChan) <= ChanCap
  /\ chanOpen \in BOOLEAN

CloseTypeOK ==
  /\ closer \in {"none", "waiting", "stopped", "teardown", "done"}
  /\ closed \in BOOLEAN

KernelTypeOK ==
  /\ DOMAIN perf \subseteq Fds
  /\ \A fd \in DOMAIN perf :
       perf[fd] \in [stream : Stream, name : Name, group : Groups, on : BOOLEAN]
  /\ kprobes \subseteq EventID
  /\ ring \in [Groups -> SUBSET Sample]
  /\ nextStream \in 1 .. MaxStream + 1
  /\ now \in 0 .. MaxTime

TypeOK ==
  /\ RegistryTypeOK
  /\ RunTypeOK
  /\ DispatchTypeOK
  /\ ChanTypeOK
  /\ CloseTypeOK
  /\ KernelTypeOK

\* When no operation is under way the five tables of the monitor describe the
\* same events: each open descriptor belongs to one event, and the stream ids
\* the reader and the dispatcher know are those of the descriptors.  It is
\* what keeps Close from the panics `stray event fds (ids, attrs, IDs) left
\* after monitor Close': with no event left, nothing else is.
RegistryConsistent ==
  op.pc = "free" =>
    /\ eventfds = UNION {events[e].fds : e \in DOMAIN events}
    /\ \A e, f \in DOMAIN events : e # f => events[e].fds \cap events[f].fds = {}
    /\ DOMAIN perf = eventfds
    /\ DOMAIN eventids = eventfds
    /\ \A fd \in eventfds : eventids[fd] = perf[fd].stream
    /\ eventAttrMap = RangeOf(eventids)
    /\ DOMAIN eventIDMap = RangeOf(eventids)
    /\ \A e \in DOMAIN events : \A fd \in events[e].fds : eventIDMap[eventids[fd]] = e

\* The kprobes defined in the kernel are those of the registered events, also
\* after a registration that failed half way: none outlives the sensor.  And
\* the decoder of a kprobe is the one its own event added, as its name is its
\* own.
KprobesTracked ==
  op.pc = "free" =>
    /\ kprobes = {events[e].name : e \in {x \in DOMAIN events : events[x].kprobe}}
    /\ \A e \in DOMAIN events :
         events[e].kprobe => events[e].name \in DOMAIN decoders /\ decoders[events[e].name] = e

\* A sample is dispatched under the id of the event whose descriptor wrote it,
\* however old the map is that the dispatcher looks it up in, and though
\* descriptors are used again.
DispatchesOwner ==
  dispatchPC = "call" =>
    call.stream \in DOMAIN owner /\ call.event = owner[call.stream]

\* While isRunning is false nobody reads the maps without the lock: they may
\* be updated in place.  (Close frees them once it has waited for this, but Run
\* may be called again before it has the lock.)
QuietWhenStopped ==
  ~isRunning => /\ dispatchPC \in {"none", "done"}
                /\ runPC \in {"none", "done"}
                /\ dispatchChan = <<>>

\* Close(true) returns, when dispatchFn does.
CloseReturns == (closer # "none") ~> (closer = "done")

\* A sample whose event is registered is dispatched, also one that was read
\* before its registration was complete, unless the event is unregistered or
\* the monitor stops reading first.
InTransit == UNION (RangeOf(ring) \cup RangeOf(dispatchChan) \cup {samples, batch})
SamplesAreDispatched ==
  \A s \in Stream :
    (\E x \in InTransit : x.stream = s) /\ s \in DOMAIN eventIDMap
      ~> \/ dispatchPC = "call" /\ call.stream = s
         \/ s \notin DOMAIN eventIDMap
         \/ runPC \notin {"poll", "read"}
=============================================================================
