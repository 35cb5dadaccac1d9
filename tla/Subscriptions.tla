--------------------------- MODULE Subscriptions ---------------------------
(***************************************************************************)
(* The perf event streams of pkg/sensor: createPerfEventStream registers   *)
(* the events of a subscription, the one goroutine that dispatches samples *)
(* sends their events to the subscriptions, and the goroutine of a         *)
(* subscription cancels it when the control channel of its stream is       *)
(* closed.                                                                 *)
(*                                                                         *)
(* The event monitor is the one of EventMonitor, seen from here: it has    *)
(* registered events, and calls dispatchSample for the samples it has read *)
(* in their order, also for those of an event that is no longer registered.*)
(***************************************************************************)
EXTENDS Integers, Sequences, FiniteSets

CONSTANTS
  Subs,         \* the subscriptions that have perf events
  ChanCap,      \* capacity of a data channel (config.Sensor.ChannelBufferLength)
  MaxEventID,   \* bound: events the subscriptions register
  MaxSamples    \* bound: samples the kernel writes

ASSUME SubscriptionBounds ==
  /\ ChanCap \in Nat \ {0}
  /\ MaxEventID \in Nat
  /\ MaxSamples \in Nat

VARIABLES
  stage,         \* how far a subscription is
  subEvents,     \* the events it has registered: the keys of its eventMap
  eventMap,      \* event id :> subscription: the active map of s.eventMap
  monitorEvents, \* the events registered with the monitor, and enabled
  nextEventID,
  ctrlOpen,      \* the control channel of the stream
  data,          \* its data channel
  dataOpen,
  transit,       \* samples on the way to dispatchSample
  sampleCount,
  dispatch,      \* the goroutine in dispatchSample
  panicked       \* it sent on a channel that is closed: the program is gone

subVars == <<stage, subEvents, nextEventID>>
mapVars == <<eventMap, monitorEvents>>
streamVars == <<ctrlOpen, data, dataOpen>>
sampleVars == <<transit, sampleCount>>
dispatchVars == <<dispatch, panicked>>
sensorVars == <<subVars, mapVars, streamVars, sampleVars, dispatchVars>>

-----------------------------------------------------------------------------
EventID == 1 .. MaxEventID
Sample  == [event : EventID, number : 1 .. MaxSamples]
Stage   == {"none", "registering", "mapped", "open", "removed", "closed"}

Idle  == [pc |-> "idle"]

Init ==
  /\ stage = [s \in Subs |-> "none"]
  /\ subEvents = [s \in Subs |-> {}]
  /\ eventMap = [e \in {} |-> {}]
  /\ monitorEvents = {}
  /\ nextEventID = 1
  /\ ctrlOpen = [s \in Subs |-> TRUE]
  /\ data = [s \in Subs |-> <<>>]
  /\ dataOpen = [s \in Subs |-> TRUE]
  /\ transit = <<>>
  /\ sampleCount = 0
  /\ dispatch = Idle
  /\ panicked = FALSE

-----------------------------------------------------------------------------
(* createPerfEventStream *)

\* One of the register functions registers an event: it writes samples from
\* now on.
RegisterEvent(s) ==
  /\ stage[s] \in {"none", "registering"}
  /\ nextEventID <= MaxEventID
  /\ stage' = [stage EXCEPT ![s] = "registering"]
  /\ subEvents' = [subEvents EXCEPT ![s] = @ \cup {nextEventID}]
  /\ monitorEvents' = monitorEvents \cup {nextEventID}
  /\ nextEventID' = nextEventID + 1
  /\ UNCHANGED <<eventMap, streamVars, sampleVars, dispatchVars>>

\* With a bug: every event goes to the subscription that came last.
UpdateMapTakesAll(s) ==
  /\ stage[s] = "registering"
  /\ stage' = [stage EXCEPT ![s] = "mapped"]
  /\ eventMap' = [e \in DOMAIN eventMap \cup subEvents[s] |-> s]
  /\ UNCHANGED <<subEvents, nextEventID, monitorEvents, streamVars, sampleVars, dispatchVars>>

\* s.eventMap.update(eventMap), when anything was registered.
UpdateMap(s) ==
  /\ stage[s] = "registering"
  /\ stage' = [stage EXCEPT ![s] = "mapped"]
  /\ eventMap' = [e \in DOMAIN eventMap \cup subEvents[s] |->
                    IF e \in subEvents[s] THEN s ELSE eventMap[e]]
  /\ UNCHANGED <<subEvents, nextEventID, monitorEvents, streamVars, sampleVars, dispatchVars>>

\* s.monitor.Enable of each event; the stream is returned.
EnableEvents(s) ==
  /\ stage[s] = "mapped"
  /\ stage' = [stage EXCEPT ![s] = "open"]
  /\ monitorEvents' = monitorEvents \cup subEvents[s]
  /\ UNCHANGED <<subEvents, nextEventID, eventMap, streamVars, sampleVars, dispatchVars>>

-----------------------------------------------------------------------------
(* The goroutine of createPerfEventStream, once the control channel is closed *)

\* With a bug: the subscription stays in the map.
CancelRemoveForgotten(s) ==
  /\ stage[s] = "open"
  /\ ~ctrlOpen[s]
  /\ stage' = [stage EXCEPT ![s] = "removed"]
  /\ UNCHANGED <<subEvents, nextEventID, mapVars, streamVars, sampleVars, dispatchVars>>

\* s.eventMap.remove(eventMap)
CancelRemove(s) ==
  /\ stage[s] = "open"
  /\ ~ctrlOpen[s]
  /\ stage' = [stage EXCEPT ![s] = "removed"]
  /\ eventMap' = [e \in DOMAIN eventMap \ subEvents[s] |-> eventMap[e]]
  /\ UNCHANGED <<subEvents, nextEventID, monitorEvents, streamVars, sampleVars, dispatchVars>>

\* With a bug: events are unregistered before they are out of the map.
CancelUnregisterFirst(s, e) ==
  /\ stage[s] \in {"open", "removed"}
  /\ ~ctrlOpen[s]
  /\ e \in subEvents[s] \cap monitorEvents
  /\ monitorEvents' = monitorEvents \ {e}
  /\ UNCHANGED <<subVars, eventMap, streamVars, sampleVars, dispatchVars>>

CancelUnregister(s, e) ==
  /\ stage[s] = "removed"
  /\ e \in subEvents[s] \cap monitorEvents
  /\ monitorEvents' = monitorEvents \ {e}
  /\ UNCHANGED <<subVars, eventMap, streamVars, sampleVars, dispatchVars>>

\* The deferred close(data), when every event is unregistered.
CancelClose(s) ==
  /\ stage[s] = "removed"
  /\ subEvents[s] \cap monitorEvents = {}
  /\ stage' = [stage EXCEPT ![s] = "closed"]
  /\ dataOpen' = [dataOpen EXCEPT ![s] = FALSE]
  /\ UNCHANGED <<subEvents, nextEventID, mapVars, ctrlOpen, data, sampleVars, dispatchVars>>

-----------------------------------------------------------------------------
(* Samples *)

WriteSample(e) ==
  /\ e \in monitorEvents
  /\ sampleCount < MaxSamples
  /\ sampleCount' = sampleCount + 1
  /\ transit' = Append(transit, [event |-> e, number |-> sampleCount + 1])
  /\ UNCHANGED <<subVars, mapVars, streamVars, dispatchVars>>

\* The monitor no longer knows the event of the sample and drops it.
DropSample ==
  /\ dispatch = Idle
  /\ transit # <<>>
  /\ Head(transit).event \notin monitorEvents
  /\ transit' = Tail(transit)
  /\ UNCHANGED <<subVars, mapVars, streamVars, sampleCount, dispatchVars>>

\* dispatchSample looks the event up in the map that is active now.
DispatchLookup ==
  /\ dispatch = Idle
  /\ transit # <<>>
  /\ transit' = Tail(transit)
  /\ LET sample == Head(transit)
     IN  dispatch' = IF sample.event \in DOMAIN eventMap
                     THEN [pc |-> "send", sub |-> eventMap[sample.event], sample |-> sample]
                     ELSE Idle
  /\ UNCHANGED <<subVars, mapVars, streamVars, sampleCount, panicked>>

\* sub.data <- event, when there is room.
DispatchSend(s) ==
  /\ dispatch # Idle
  /\ dispatch.sub = s
  /\ dataOpen[s]
  /\ Len(data[s]) < ChanCap
  /\ data' = [data EXCEPT ![s] = Append(@, dispatch.sample)]
  /\ dispatch' = Idle
  /\ UNCHANGED <<subVars, mapVars, ctrlOpen, dataOpen, sampleVars, panicked>>

\* The channel is closed, or was closed while the goroutine waited for room.
DispatchPanic ==
  /\ dispatch # Idle
  /\ ~dataOpen[dispatch.sub]
  /\ panicked' = TRUE
  /\ UNCHANGED <<subVars, mapVars, streamVars, sampleVars, dispatch>>

-----------------------------------------------------------------------------
(* The consumer of the stream *)

Receive(s) ==
  /\ data[s] # <<>>
  /\ data' = [data EXCEPT ![s] = Tail(@)]
  /\ UNCHANGED <<subVars, mapVars, ctrlOpen, dataOpen, sampleVars, dispatchVars>>

CloseStream(s) ==
  /\ stage[s] \in {"open", "removed", "closed"}
  /\ ctrlOpen[s]
  /\ ctrlOpen' = [ctrlOpen EXCEPT ![s] = FALSE]
  /\ UNCHANGED <<subVars, mapVars, data, dataOpen, sampleVars, dispatchVars>>

-----------------------------------------------------------------------------
Subscribe(s) == RegisterEvent(s) \/ UpdateMap(s) \/ EnableEvents(s)

Cancel(s) == CancelRemove(s) \/ CancelClose(s) \/ \E e \in subEvents[s] : CancelUnregister(s, e)

Dispatch == DispatchLookup \/ DispatchPanic \/ \E s \in Subs : DispatchSend(s)

SensorNext ==
  \/ \E s \in Subs : Subscribe(s) \/ Cancel(s)
  \/ \E e \in monitorEvents : WriteSample(e)
  \/ DropSample
  \/ Dispatch

Next ==
  /\ ~panicked
  /\ \/ SensorNext
     \/ \E s \in Subs : Receive(s) \/ CloseStream(s)

Spec == Init /\ [][Next]_sensorVars

-----------------------------------------------------------------------------
(* Properties *)

TypeOK ==
  /\ stage \in [Subs -> Stage]
  /\ subEvents \in [Subs -> SUBSET EventID]
  /\ DOMAIN eventMap \subseteq EventID
  /\ \A e \in DOMAIN eventMap : eventMap[e] \in Subs
  /\ monitorEvents \subseteq EventID
  /\ nextEventID \in 1 .. MaxEventID + 1
  /\ ctrlOpen \in [Subs -> BOOLEAN]
  /\ data \in [Subs -> Seq(Sample)]
  /\ \A s \in Subs : Len(data[s]) <= ChanCap
  /\ dataOpen \in [Subs -> BOOLEAN]
  /\ transit \in Seq(Sample)
  /\ sampleCount \in 0 .. MaxSamples
  /\ dispatch \in {Idle} \cup [pc : {"send"}, sub : Subs, sample : Sample]
  /\ panicked \in BOOLEAN

\* Every subscription gets the events it registered and no other, while the
\* map that routes them is replaced by others and the dispatcher holds what it
\* read from an older one.
EventsAreRouted ==
  /\ \A s \in Subs : \A i \in DOMAIN data[s] : data[s][i].event \in subEvents[s]
  /\ dispatch # Idle => dispatch.sample.event \in subEvents[dispatch.sub]
  /\ \A s, t \in Subs : s # t => subEvents[s] \cap subEvents[t] = {}

\* A subscription whose data channel is closed has left nothing behind: its
\* events are neither registered nor in the map, and the map never names an
\* event the monitor does not have.
CancelledIsGone ==
  /\ \A s \in Subs : ~dataOpen[s] => subEvents[s] \cap (monitorEvents \cup DOMAIN eventMap) = {}
  /\ DOMAIN eventMap \subseteq monitorEvents

\* An event that is looked up once its subscription has been taken out of the
\* map is discarded: only one that was already found there can still be sent.
NoNewDeliveries ==
  [][\A s \in Subs : stage[s] \in {"removed", "closed"} /\ dispatch = Idle
       => dispatch' = Idle \/ dispatch'.sub # s]_sensorVars

\* What the comment in createPerfEventStream says, `Remove from .eventMap first
\* so that any pending events being processed get discarded as quickly as
\* possible': no pending event is sent to the channel once it is closed.
PendingIsDiscarded == ~panicked
=============================================================================
