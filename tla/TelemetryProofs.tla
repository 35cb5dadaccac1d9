-------------------------- MODULE TelemetryProofs --------------------------
(***************************************************************************)
(* Proofs about Subscriptions, for any set of subscriptions, capacity of   *)
(* their channels and number of events and samples; then, that Telemetry   *)
(* implements Subscriptions: what is proved of it holds of the streams     *)
(* below a GetEvents call and its joiner, too.                             *)
(***************************************************************************)
EXTENDS Telemetry, TLAPS

-----------------------------------------------------------------------------
(* TypeOK *)

LEMMA AppendType ==
  ASSUME NEW S, NEW q \in Seq(S), NEW x \in S
  PROVE  Append(q, x) \in Seq(S) /\ Len(Append(q, x)) = Len(q) + 1
OBVIOUS

LEMMA TailType ==
  ASSUME NEW S, NEW q \in Seq(S), q # <<>>
  PROVE  /\ Head(q) \in S
         /\ Tail(q) \in Seq(S)
         /\ Len(Tail(q)) = Len(q) - 1
         /\ \A i \in DOMAIN Tail(q) : i + 1 \in DOMAIN q /\ Tail(q)[i] = q[i + 1]
OBVIOUS

\* TypeOK: every variable keeps its type, and no data channel holds more than
\* its capacity.  The variables are those of createPerfEventStream and
\* dispatchSample in pkg/sensor/sensor.go.
THEOREM TypeInvariant == Spec => []TypeOK
<1>1. Init => TypeOK
  <2>. SUFFICES ASSUME Init PROVE TypeOK
    OBVIOUS
  <2>. USE SubscriptionBounds DEF Init
  <2>1. data \in [Subs -> Seq(Sample)] /\ \A s \in Subs : Len(data[s]) <= ChanCap
    OBVIOUS
  <2>2. DOMAIN eventMap = {}
    OBVIOUS
  <2>3. stage \in [Subs -> Stage]
    BY DEF Stage
  <2>4. transit \in Seq(Sample)
    OBVIOUS
  <2>5. /\ subEvents \in [Subs -> SUBSET EventID]
        /\ ctrlOpen \in [Subs -> BOOLEAN]
        /\ dataOpen \in [Subs -> BOOLEAN]
    OBVIOUS
  <2>6. /\ nextEventID \in 1 .. MaxEventID + 1
        /\ sampleCount \in 0 .. MaxSamples
        /\ monitorEvents \subseteq EventID
    OBVIOUS
  <2>8. dispatch = Idle /\ panicked \in BOOLEAN
    OBVIOUS
  <2>7. DOMAIN eventMap \subseteq EventID /\ \A e \in DOMAIN eventMap : eventMap[e] \in Subs
    BY <2>2
  <2>. QED
    BY <2>1, <2>3, <2>4, <2>5, <2>6, <2>7, <2>8 DEF TypeOK
<1>2. TypeOK /\ [Next]_sensorVars => TypeOK'
  <2>. SUFFICES ASSUME TypeOK, [Next]_sensorVars PROVE TypeOK'
    OBVIOUS
  <2>. USE DEF subVars, mapVars, streamVars, sampleVars, dispatchVars
  <2>1. ASSUME NEW s \in Subs, Subscribe(s) PROVE TypeOK'
    <3>1. CASE RegisterEvent(s)
      BY <3>1, SubscriptionBounds DEF RegisterEvent, TypeOK, Stage, EventID
    <3>2. CASE UpdateMap(s)
      BY <3>2 DEF UpdateMap, TypeOK, Stage
    <3>3. CASE EnableEvents(s)
      BY <3>3 DEF EnableEvents, TypeOK, Stage
    <3>. QED
      BY <2>1, <3>1, <3>2, <3>3 DEF Subscribe
  <2>2. ASSUME NEW s \in Subs, Cancel(s) PROVE TypeOK'
    BY <2>2 DEF Cancel, CancelRemove, CancelUnregister, CancelClose, TypeOK, Stage
  <2>3. ASSUME NEW e \in monitorEvents, WriteSample(e) PROVE TypeOK'
    <3>1. [event |-> e, number |-> sampleCount + 1] \in Sample /\ sampleCount' \in 0 .. MaxSamples
      BY <2>3, SubscriptionBounds DEF WriteSample, TypeOK, Sample
    <3>2. transit' \in Seq(Sample)
      BY <2>3, <3>1, AppendType DEF WriteSample, TypeOK
    <3>. QED
      BY <2>3, <3>1, <3>2 DEF WriteSample, TypeOK
  <2>4. CASE DropSample
    BY <2>4, TailType DEF DropSample, TypeOK
  <2>5. CASE DispatchLookup
    <3>1. Head(transit) \in Sample /\ transit' \in Seq(Sample)
      BY <2>5, TailType DEF DispatchLookup, TypeOK
    <3>2. dispatch' \in {Idle} \cup [pc : {"send"}, sub : Subs, sample : Sample]
      BY <2>5, <3>1 DEF DispatchLookup, TypeOK
    <3>. QED
      BY <2>5, <3>1, <3>2 DEF DispatchLookup, TypeOK
  <2>6. ASSUME NEW s \in Subs, DispatchSend(s) PROVE TypeOK'
    <3>1. dispatch.sample \in Sample
      BY <2>6 DEF DispatchSend, TypeOK
    <3>2. data'[s] \in Seq(Sample) /\ Len(data'[s]) <= ChanCap
      BY <2>6, <3>1, AppendType, SubscriptionBounds DEF DispatchSend, TypeOK
    <3>. QED
      BY <2>6, <3>2 DEF DispatchSend, TypeOK
  <2>7. CASE DispatchPanic
    BY <2>7 DEF DispatchPanic, TypeOK
  <2>8. ASSUME NEW s \in Subs, Receive(s) PROVE TypeOK'
    <3>1. data'[s] \in Seq(Sample) /\ Len(data'[s]) <= ChanCap
      BY <2>8, TailType, SubscriptionBounds DEF Receive, TypeOK
    <3>. QED
      BY <2>8, <3>1 DEF Receive, TypeOK
  <2>9. ASSUME NEW s \in Subs, CloseStream(s) PROVE TypeOK'
    BY <2>9 DEF CloseStream, TypeOK
  <2>10. CASE UNCHANGED sensorVars
    BY <2>10 DEF sensorVars, TypeOK
  <2>. QED
    BY <2>1, <2>2, <2>3, <2>4, <2>5, <2>6, <2>7, <2>8, <2>9, <2>10
       DEF Next, SensorNext, Dispatch
<1>. QED
  BY <1>1, <1>2, PTL DEF Spec

-----------------------------------------------------------------------------
(* EventsAreRouted *)

\* Event ids are given out once, and the map names for each the subscription
\* that registered it: so does what was looked up in it, whenever that was.
OwnedInv ==
  /\ \A s \in Subs : \A e \in subEvents[s] : e < nextEventID
  /\ \A s, t \in Subs : s # t => subEvents[s] \cap subEvents[t] = {}
  /\ \A e \in DOMAIN eventMap : e \in subEvents[eventMap[e]]

RoutedInv ==
  /\ OwnedInv
  /\ \A s \in Subs : \A i \in DOMAIN data[s] : data[s][i].event \in subEvents[s]
  /\ dispatch # Idle => dispatch.sample.event \in subEvents[dispatch.sub]

\* Which steps change the registrations.
RegistrationStep ==
  \E s \in Subs : \/ Subscribe(s)
                  \/ CancelRemove(s) \/ CancelClose(s)
                  \/ \E e \in subEvents[s] : CancelUnregister(s, e)

LEMMA RegistrationFrame == RegistrationStep => UNCHANGED <<data, dispatch>>
BY DEF RegistrationStep, Subscribe, RegisterEvent, UpdateMap, EnableEvents, CancelRemove,
       CancelClose, CancelUnregister, streamVars, dispatchVars

LEMMA RegistrationChanges ==
  [Next]_sensorVars => \/ RegistrationStep
                       \/ UNCHANGED <<stage, subEvents, nextEventID, eventMap, monitorEvents, dataOpen>>
<1>. SUFFICES ASSUME [Next]_sensorVars, ~RegistrationStep
              PROVE  UNCHANGED <<stage, subEvents, nextEventID, eventMap, monitorEvents, dataOpen>>
  OBVIOUS
<1>1. CASE DropSample \/ Dispatch
  BY <1>1 DEF DropSample, Dispatch, DispatchLookup, DispatchSend, DispatchPanic,
              subVars, mapVars, streamVars
<1>2. CASE \E e \in monitorEvents : WriteSample(e)
  BY <1>2 DEF WriteSample, subVars, mapVars, streamVars
<1>3. CASE \E s \in Subs : Receive(s) \/ CloseStream(s)
  BY <1>3 DEF Receive, CloseStream, subVars, mapVars
<1>4. CASE UNCHANGED sensorVars
  BY <1>4 DEF sensorVars, subVars, mapVars, streamVars
<1>. QED
  BY <1>1, <1>2, <1>3, <1>4 DEF Next, SensorNext, Cancel, RegistrationStep

LEMMA OwnedStep == TypeOK /\ OwnedInv /\ [Next]_sensorVars => OwnedInv'
<1>. SUFFICES ASSUME TypeOK, OwnedInv, [Next]_sensorVars PROVE OwnedInv'
  OBVIOUS
<1>. USE DEF OwnedInv, TypeOK, subVars, mapVars
<1>1. ASSUME NEW s \in Subs, RegisterEvent(s) PROVE OwnedInv'
  <2>1. subEvents'[s] = subEvents[s] \cup {nextEventID}
    BY <1>1 DEF RegisterEvent
  <2>2. \A t \in Subs \ {s} : subEvents'[t] = subEvents[t]
    BY <1>1 DEF RegisterEvent
  <2>3. \A t \in Subs : nextEventID \notin subEvents[t]
    BY SubscriptionBounds DEF EventID
  <2>4. nextEventID' = nextEventID + 1 /\ eventMap' = eventMap
    BY <1>1 DEF RegisterEvent
  <2>5. \A t \in Subs : \A e \in subEvents'[t] : e < nextEventID'
    <3>1. SUFFICES ASSUME NEW t \in Subs, NEW e \in subEvents'[t] PROVE e < nextEventID'
      OBVIOUS
    <3>2. e \in subEvents[t] \/ e = nextEventID
      BY <2>1, <2>2
    <3>3. nextEventID \in Int /\ \A x \in subEvents[t] : x \in Int
      BY SubscriptionBounds DEF EventID
    <3>. QED
      BY <2>4, <3>2, <3>3
  <2>6. ASSUME NEW t \in Subs, NEW u \in Subs, t # u PROVE subEvents'[t] \cap subEvents'[u] = {}
    <3>. HIDE DEF OwnedInv, TypeOK
    <3>1. subEvents[t] \cap subEvents[u] = {}
      BY <2>6 DEF OwnedInv
    <3>2. CASE t = s
      BY <2>1, <2>2, <2>3, <2>6, <3>1, <3>2
    <3>3. CASE u = s
      BY <2>1, <2>2, <2>3, <2>6, <3>1, <3>3
    <3>4. CASE t # s /\ u # s
      BY <2>2, <3>1, <3>4
    <3>. QED
      BY <3>2, <3>3, <3>4
  <2>7. \A e \in DOMAIN eventMap' : e \in subEvents'[eventMap'[e]]
    BY <2>1, <2>2, <2>4
  <2>. QED
    BY <2>5, <2>6, <2>7
<1>2. ASSUME NEW s \in Subs, UpdateMap(s) PROVE OwnedInv'
  BY <1>2 DEF UpdateMap
<1>3. ASSUME NEW s \in Subs, EnableEvents(s) \/ CancelClose(s) PROVE OwnedInv'
  BY <1>3 DEF EnableEvents, CancelClose
<1>4. ASSUME NEW s \in Subs, CancelRemove(s) PROVE OwnedInv'
  BY <1>4 DEF CancelRemove
<1>5. ASSUME NEW s \in Subs, NEW e \in subEvents[s], CancelUnregister(s, e) PROVE OwnedInv'
  BY <1>5 DEF CancelUnregister
<1>6. CASE UNCHANGED <<stage, subEvents, nextEventID, eventMap, monitorEvents, dataOpen>>
  BY <1>6
<1>. QED
  BY <1>1, <1>2, <1>3, <1>4, <1>5, <1>6, RegistrationChanges DEF RegistrationStep, Subscribe

\* Registered events are never taken away from a subscription.
LEMMA SubEventsGrow ==
  TypeOK /\ [Next]_sensorVars => \A s \in Subs : subEvents[s] \subseteq subEvents'[s]
<1>. SUFFICES ASSUME TypeOK, [Next]_sensorVars, NEW s \in Subs PROVE subEvents[s] \subseteq subEvents'[s]
  OBVIOUS
<1>1. CASE RegistrationStep
  <2>1. ASSUME NEW t \in Subs, RegisterEvent(t) PROVE subEvents[s] \subseteq subEvents'[s]
    <3>1. subEvents \in [Subs -> SUBSET EventID]
      BY DEF TypeOK
    <3>2. subEvents'[s] = IF s = t THEN subEvents[s] \cup {nextEventID} ELSE subEvents[s]
      BY <2>1, <3>1 DEF RegisterEvent
    <3>. QED
      BY <3>2
  <2>. QED
    BY <1>1, <2>1 DEF RegistrationStep, Subscribe, UpdateMap, EnableEvents, CancelRemove,
                      CancelClose, CancelUnregister, subVars
<1>2. CASE subEvents' = subEvents
  BY <1>2
<1>. QED
  BY <1>1, <1>2, RegistrationChanges

\* EventsAreRouted: an event reaches the subscription that registered it and no
\* other (sensor.go: createPerfEventStream, dispatchSample; subscription.go).
THEOREM RoutedInvariance == Spec => []EventsAreRouted
<1>1. Init => RoutedInv
  BY DEF Init, RoutedInv, OwnedInv
<1>2. TypeOK /\ RoutedInv /\ [Next]_sensorVars => RoutedInv'
  <2>. SUFFICES ASSUME TypeOK, RoutedInv, [Next]_sensorVars PROVE RoutedInv'
    OBVIOUS
  <2>1. OwnedInv'
    BY OwnedStep DEF RoutedInv
  <2>2. \A s \in Subs : subEvents[s] \subseteq subEvents'[s]
    BY SubEventsGrow
  <2>3. ASSUME UNCHANGED <<data, dispatch>> PROVE RoutedInv'
    BY <2>1, <2>2, <2>3 DEF RoutedInv, TypeOK
  <2>4. CASE DispatchLookup
    <3>1. data' = data /\ eventMap' = eventMap /\ subEvents' = subEvents
      BY <2>4 DEF DispatchLookup, streamVars, mapVars, subVars
    <3>2. dispatch' # Idle => dispatch'.sample.event \in subEvents[dispatch'.sub]
      BY <2>4 DEF DispatchLookup, RoutedInv, OwnedInv
    <3>. QED
      BY <2>1, <3>1, <3>2 DEF RoutedInv
  <2>5. ASSUME NEW s \in Subs, DispatchSend(s) PROVE RoutedInv'
    <3>1. subEvents' = subEvents /\ dispatch' = Idle
      BY <2>5 DEF DispatchSend, subVars
    <3>2. dispatch.sample \in Sample /\ dispatch.sample.event \in subEvents[s]
      BY <2>5 DEF DispatchSend, RoutedInv, TypeOK
    <3>3. data[s] \in Seq(Sample) /\ data'[s] = Append(data[s], dispatch.sample)
      BY <2>5 DEF DispatchSend, TypeOK
    <3>4. \A i \in DOMAIN data'[s] : data'[s][i].event \in subEvents[s]
      BY <3>2, <3>3 DEF RoutedInv
    <3>5. \A t \in Subs \ {s} : data'[t] = data[t]
      BY <2>5 DEF DispatchSend, TypeOK
    <3>. QED
      BY <2>1, <3>1, <3>4, <3>5 DEF RoutedInv
  <2>6. ASSUME NEW s \in Subs, Receive(s) PROVE RoutedInv'
    <3>1. subEvents' = subEvents /\ dispatch' = dispatch
      BY <2>6 DEF Receive, subVars, dispatchVars
    <3>2. data[s] \in Seq(Sample) /\ data[s] # <<>> /\ data'[s] = Tail(data[s])
      BY <2>6 DEF Receive, TypeOK
    <3>3. \A i \in DOMAIN data'[s] : data'[s][i].event \in subEvents[s]
      BY <3>2, TailType DEF RoutedInv
    <3>4. \A t \in Subs \ {s} : data'[t] = data[t]
      BY <2>6 DEF Receive, TypeOK
    <3>. QED
      BY <2>1, <3>1, <3>3, <3>4 DEF RoutedInv
  <2>7. ASSUME RegistrationStep PROVE RoutedInv'
    BY <2>3, <2>7, RegistrationFrame
  <2>8. CASE DropSample \/ DispatchPanic \/ (\E e \in monitorEvents : WriteSample(e))
             \/ (\E s \in Subs : CloseStream(s)) \/ UNCHANGED sensorVars
    BY <2>3, <2>8 DEF DropSample, DispatchPanic, WriteSample, CloseStream, sensorVars,
                      streamVars, dispatchVars
  <2>9. CASE \E s \in Subs : Subscribe(s) \/ Cancel(s)
    BY <2>7, <2>9 DEF Cancel, RegistrationStep
  <2>. QED
    BY <2>4, <2>5, <2>6, <2>8, <2>9 DEF Next, SensorNext, Dispatch
<1>3. TypeOK /\ RoutedInv => EventsAreRouted
  BY DEF RoutedInv, OwnedInv, EventsAreRouted
<1>. QED
  BY <1>1, <1>2, <1>3, TypeInvariant, PTL DEF Spec

-----------------------------------------------------------------------------
(* CancelledIsGone and NoNewDeliveries *)

\* What each stage of a subscription says of its events: they are registered
\* until they are out of the map, and unregistered before its channel closes.
StageInv ==
  \A s \in Subs :
    /\ stage[s] = "none" => subEvents[s] = {}
    /\ stage[s] \in {"registering", "mapped", "open"} => subEvents[s] \subseteq monitorEvents
    /\ stage[s] \in {"removed", "closed"} => subEvents[s] \cap DOMAIN eventMap = {}
    /\ stage[s] = "closed" => subEvents[s] \cap monitorEvents = {}
    /\ ~dataOpen[s] => stage[s] = "closed"

LEMMA StageStep == TypeOK /\ OwnedInv /\ StageInv /\ [Next]_sensorVars => StageInv'
<1>. SUFFICES ASSUME TypeOK, OwnedInv, StageInv, [Next]_sensorVars PROVE StageInv'
  OBVIOUS
<1>. USE DEF TypeOK, OwnedInv, StageInv
<1>1. ASSUME NEW s \in Subs, RegisterEvent(s) PROVE StageInv'
  <2>1. subEvents' = [subEvents EXCEPT ![s] = @ \cup {nextEventID}]
    BY <1>1 DEF RegisterEvent
  <2>2. \A t \in Subs : nextEventID \notin subEvents[t]
    BY SubscriptionBounds DEF EventID
  <2>3. stage' = [stage EXCEPT ![s] = "registering"] /\ stage[s] \in {"none", "registering"}
    BY <1>1 DEF RegisterEvent
  <2>4. monitorEvents' = monitorEvents \cup {nextEventID} /\ eventMap' = eventMap /\ dataOpen' = dataOpen
    BY <1>1 DEF RegisterEvent, streamVars
  <2>5. dataOpen[s] /\ subEvents[s] \subseteq monitorEvents
    BY <2>3
  <2>. QED
    BY <2>1, <2>2, <2>3, <2>4, <2>5
<1>2. ASSUME NEW s \in Subs, UpdateMap(s) PROVE StageInv'
  <2>1. \A t \in Subs \ {s} : subEvents[t] \cap subEvents[s] = {}
    OBVIOUS
  <2>2. DOMAIN eventMap' = DOMAIN eventMap \cup subEvents[s]
    BY <1>2 DEF UpdateMap
  <2>3. stage' = [stage EXCEPT ![s] = "mapped"] /\ stage[s] = "registering"
    BY <1>2 DEF UpdateMap
  <2>4. UNCHANGED <<subEvents, monitorEvents, dataOpen>>
    BY <1>2 DEF UpdateMap, streamVars
  <2>. QED
    BY <2>1, <2>2, <2>3, <2>4
<1>3. ASSUME NEW s \in Subs, EnableEvents(s) PROVE StageInv'
  <2>1. \A t \in Subs \ {s} : subEvents[t] \cap subEvents[s] = {}
    OBVIOUS
  <2>2. monitorEvents' = monitorEvents
    BY <1>3 DEF EnableEvents
  <2>3. stage' = [stage EXCEPT ![s] = "open"] /\ stage[s] = "mapped"
    BY <1>3 DEF EnableEvents
  <2>4. UNCHANGED <<subEvents, eventMap, dataOpen>>
    BY <1>3 DEF EnableEvents, streamVars
  <2>. QED
    BY <2>1, <2>2, <2>3, <2>4
<1>4. ASSUME NEW s \in Subs, CancelRemove(s) PROVE StageInv'
  <2>1. DOMAIN eventMap' = DOMAIN eventMap \ subEvents[s]
    BY <1>4 DEF CancelRemove
  <2>2. stage' = [stage EXCEPT ![s] = "removed"] /\ stage[s] = "open"
    BY <1>4 DEF CancelRemove
  <2>3. UNCHANGED <<subEvents, monitorEvents, dataOpen>>
    BY <1>4 DEF CancelRemove, streamVars
  <2>. QED
    BY <2>1, <2>2, <2>3
<1>5. ASSUME NEW s \in Subs, NEW e \in subEvents[s], CancelUnregister(s, e) PROVE StageInv'
  <2>1. \A t \in Subs \ {s} : e \notin subEvents[t]
    OBVIOUS
  <2>2. monitorEvents' = monitorEvents \ {e} /\ stage[s] = "removed"
    BY <1>5 DEF CancelUnregister
  <2>3. UNCHANGED <<stage, subEvents, eventMap, dataOpen>>
    BY <1>5 DEF CancelUnregister, subVars, streamVars
  <2>. QED
    BY <2>1, <2>2, <2>3
<1>6. ASSUME NEW s \in Subs, CancelClose(s) PROVE StageInv'
  <2>1. stage' = [stage EXCEPT ![s] = "closed"] /\ stage[s] = "removed"
    BY <1>6 DEF CancelClose
  <2>2. dataOpen' = [dataOpen EXCEPT ![s] = FALSE] /\ subEvents[s] \cap monitorEvents = {}
    BY <1>6 DEF CancelClose
  <2>3. UNCHANGED <<subEvents, monitorEvents, eventMap>>
    BY <1>6 DEF CancelClose, mapVars
  <2>. QED
    BY <2>1, <2>2, <2>3
<1>7. CASE UNCHANGED <<stage, subEvents, nextEventID, eventMap, monitorEvents, dataOpen>>
  BY <1>7
<1>. QED
  BY <1>1, <1>2, <1>3, <1>4, <1>5, <1>6, <1>7, RegistrationChanges DEF RegistrationStep, Subscribe

LEMMA StageInvariant == Spec => [](TypeOK /\ OwnedInv /\ StageInv)
<1>1. Init => OwnedInv /\ StageInv
  BY DEF Init, OwnedInv, StageInv
<1>. QED
  BY <1>1, OwnedStep, StageStep, TypeInvariant, PTL DEF Spec

\* CancelledIsGone: a subscription whose channel is closed has left neither an
\* event in the monitor nor one in the map, and the map names only events the
\* monitor has (sensor.go: the goroutine of createPerfEventStream).
THEOREM CancelInvariance == Spec => []CancelledIsGone
<1>1. TypeOK /\ OwnedInv /\ StageInv => CancelledIsGone
  <2>. SUFFICES ASSUME TypeOK, OwnedInv, StageInv PROVE CancelledIsGone
    OBVIOUS
  <2>1. \A s \in Subs : ~dataOpen[s] => subEvents[s] \cap (monitorEvents \cup DOMAIN eventMap) = {}
    BY DEF StageInv
  <2>2. ASSUME NEW e \in DOMAIN eventMap PROVE e \in monitorEvents
    <3>1. eventMap[e] \in Subs /\ e \in subEvents[eventMap[e]]
      BY DEF TypeOK, OwnedInv
    <3>2. stage[eventMap[e]] \in {"registering", "mapped", "open"}
      BY <3>1 DEF StageInv, TypeOK, Stage
    <3>. QED
      BY <3>1, <3>2 DEF StageInv
  <2>. QED
    BY <2>1, <2>2 DEF CancelledIsGone
<1>. QED
  BY <1>1, StageInvariant, PTL

\* NoNewDeliveries: once a subscription is out of the map the dispatcher does
\* not take up another event for it (sensor.go: dispatchSample).
THEOREM NoNewDeliveriesHolds == Spec => NoNewDeliveries
<1>. DEFINE Discarded == \A s \in Subs : stage[s] \in {"removed", "closed"} /\ dispatch = Idle
                           => dispatch' = Idle \/ dispatch'.sub # s
<1>1. TypeOK /\ OwnedInv /\ StageInv /\ [Next]_sensorVars => [Discarded]_sensorVars
  <2>. SUFFICES ASSUME TypeOK, OwnedInv, StageInv, [Next]_sensorVars,
                       NEW s \in Subs, stage[s] \in {"removed", "closed"}, dispatch = Idle
                PROVE  dispatch' = Idle \/ dispatch'.sub # s
    OBVIOUS
  <2>1. CASE DispatchLookup
    <3>1. ASSUME dispatch' # Idle
          PROVE  \E e \in DOMAIN eventMap : dispatch'.sub = eventMap[e]
      BY <2>1, <3>1 DEF DispatchLookup
    <3>2. \A e \in DOMAIN eventMap : eventMap[e] # s
      BY DEF StageInv, OwnedInv
    <3>. QED
      BY <3>1, <3>2
  <2>2. CASE dispatch' = dispatch
    BY <2>2
  <2>3. CASE \E t \in Subs : DispatchSend(t)
    BY <2>3 DEF DispatchSend
  <2>4. CASE RegistrationStep
    BY <2>2, <2>4, RegistrationFrame
  <2>5. CASE DropSample \/ DispatchPanic \/ (\E e \in monitorEvents : WriteSample(e))
             \/ (\E t \in Subs : Receive(t) \/ CloseStream(t)) \/ UNCHANGED sensorVars
    BY <2>2, <2>5 DEF DropSample, DispatchPanic, WriteSample, Receive, CloseStream, sensorVars,
                      dispatchVars
  <2>6. CASE \E t \in Subs : Subscribe(t) \/ Cancel(t)
    BY <2>4, <2>6 DEF Cancel, RegistrationStep
  <2>. QED
    BY <2>1, <2>3, <2>5, <2>6 DEF Next, SensorNext, Dispatch
<1>. QED
  BY <1>1, StageInvariant, PTL DEF Spec, NoNewDeliveries

-----------------------------------------------------------------------------
(* Telemetry *)

Reached == {"open", "removed", "closed"}

\* The joiner holds no stream but that of the client, and that one only when
\* createPerfEventStream has returned it.
JoinInv ==
  /\ stage \in [Subs -> Stage]
  /\ ctrlOpen \in [Subs -> BOOLEAN]
  /\ in \in {<<>>, <<Mine>>}
  /\ getPC \in {"new", "register", "add"} => in = <<>>
  /\ getPC \notin {"new", "register"} => stage[Mine] \in Reached

LEMMA JoinInvInit == TelemetryInit => JoinInv
BY DEF TelemetryInit, Init, Joined!JoinInit, JoinInv, Stage

LEMMA RemoveOnly ==
  ASSUME NEW n \in DOMAIN <<Mine>>
  PROVE  SubSeq(<<Mine>>, 1, n - 1) \o SubSeq(<<Mine>>, n + 1, Len(<<Mine>>)) = <<>>
<1>1. n = 1 /\ Len(<<Mine>>) = 1
  OBVIOUS
<1>2. SubSeq(<<Mine>>, 1, 0) = <<>> /\ SubSeq(<<Mine>>, 2, 1) = <<>>
  OBVIOUS
<1>. QED
  BY <1>1, <1>2

LEMMA JoinInvStep == JoinInv /\ [TelemetryNext]_vars => JoinInv'
<1>. SUFFICES ASSUME JoinInv, [TelemetryNext]_vars PROVE JoinInv'
  OBVIOUS
<1>. USE MineIsASub DEF JoinInv, Reached
<1>1. ASSUME NEW s \in Subs, Subscribe(s), s = Mine => stage[s] \notin Reached,
             UNCHANGED <<in, getPC>>
      PROVE  JoinInv'
  BY <1>1 DEF Subscribe, RegisterEvent, UpdateMap, EnableEvents, streamVars, Stage
<1>2. ASSUME NEW s \in Subs, Cancel(s), UNCHANGED <<in, getPC>> PROVE JoinInv'
  BY <1>2 DEF Cancel, CancelRemove, CancelUnregister, CancelClose, streamVars, subVars, Stage
<1>3. CASE SensorStep
  <2>1. UNCHANGED <<in, getPC>>
    BY <1>3 DEF SensorStep, joinerVars, callVars
  <2>2. CASE \E e \in monitorEvents : WriteSample(e)
    BY <2>1, <2>2 DEF WriteSample, subVars, streamVars
  <2>3. CASE DropSample \/ Dispatch
    BY <2>1, <2>3 DEF DropSample, Dispatch, DispatchLookup, DispatchSend, DispatchPanic,
                      subVars, streamVars
  <2>4. CASE \E s \in Others : Receive(s) \/ CloseStream(s)
    BY <2>1, <2>4 DEF Receive, CloseStream, subVars, Others
  <2>. QED
    BY <1>1, <1>2, <1>3, <2>1, <2>2, <2>3, <2>4 DEF SensorStep, Others
<1>4. CASE JoinerStep
  <2>1. UNCHANGED <<stage, getPC>>
    BY <1>4 DEF JoinerStep, restVars, subVars, callVars
  <2>2. CASE Joined!LoopControlClosed
    BY <2>1, <2>2 DEF Joined!LoopControlClosed, Joined!loopVars
  <2>3. ASSUME NEW n \in DOMAIN in, Joined!LoopReceive(n) PROVE JoinInv'
    BY <2>1, <2>3 DEF Joined!LoopReceive
  <2>4. ASSUME NEW n \in DOMAIN in, Joined!LoopInputClosed(n) PROVE JoinInv'
    <3>1. in = <<Mine>>
      BY <2>4
    <3>2. in' = <<>>
      BY <2>4, <3>1, RemoveOnly DEF Joined!LoopInputClosed
    <3>. QED
      BY <2>1, <2>4, <3>2 DEF Joined!LoopInputClosed, Joined!inputVars
  <2>5. CASE Joined!LoopSend \/ Joined!LoopDone
    BY <2>1, <2>5 DEF Joined!LoopSend, Joined!LoopDone, Joined!inputVars
  <2>. QED
    BY <1>4, <2>2, <2>3, <2>4, <2>5 DEF JoinerStep, Joined!Loop
<1>5. CASE GetOff \/ GetOn
  BY <1>5 DEF GetOff, GetOn, Joined!Switch, Joined!inputVars, restVars, subVars
<1>6. CASE GetRegister
  <2>1. in' = in /\ in = <<>>
    BY <1>6 DEF GetRegister, joinerVars
  <2>2. stage' \in [Subs -> Stage] /\ ctrlOpen' = ctrlOpen
    BY <1>6 DEF GetRegister, Subscribe, RegisterEvent, UpdateMap, EnableEvents, streamVars, Stage
  <2>3. getPC' = IF stage'[Mine] = "open" THEN "add" ELSE "register"
    BY <1>6 DEF GetRegister
  <2>. QED
    BY <2>1, <2>2, <2>3
<1>7. CASE GetAdd
  <2>1. in' = <<Mine>> /\ getPC' = "on" /\ UNCHANGED <<stage, ctrlOpen>>
    BY <1>7 DEF GetAdd, Joined!Add, Joined!inputVars, restVars, subVars
  <2>. QED
    BY <1>7, <2>1 DEF GetAdd
<1>8. CASE GetReceive
  BY <1>8 DEF GetReceive, Joined!Take, Joined!inputVars, Joined!loopVars, restVars, subVars
<1>9. CASE GetSent \/ GetSendFails \/ GetEnd \/ ClientGone
  BY <1>9 DEF GetSent, GetSendFails, GetEnd, ClientGone, sensorVars, joinerVars, subVars, streamVars
<1>10. CASE CloseOnDone
  BY <1>10 DEF CloseOnDone, Joined!Close, Joined!inputVars, Joined!loopVars, restVars, subVars
<1>11. CASE UNCHANGED vars
  BY <1>11 DEF vars, sensorVars, joinerVars, callVars, subVars, streamVars
<1>. QED
  BY <1>3, <1>4, <1>5, <1>6, <1>7, <1>8, <1>9, <1>10, <1>11 DEF TelemetryNext, GetStep

\* What the joiner does with the stream of the client.
LEMMA JoinerImplements ==
  ASSUME JoinInv, ~panicked, JoinerStep
  PROVE  [Next]_sensorVars
<1>. USE MineIsASub DEF JoinInv, Reached
<1>1. UNCHANGED restVars
  BY DEF JoinerStep
<1>2. ASSUME UNCHANGED <<ctrlOpen, data, dataOpen>> PROVE [Next]_sensorVars
  BY <1>1, <1>2 DEF restVars, sensorVars, streamVars
<1>3. CASE Joined!LoopControlClosed
  <2>1. UNCHANGED <<data, dataOpen>>
    BY <1>3 DEF Joined!LoopControlClosed
  <2>2. ctrlOpen' = [i \in Subs |-> ctrlOpen[i] /\ \A n \in DOMAIN in : in[n] # i]
    BY <1>3 DEF Joined!LoopControlClosed
  <2>3. CASE in = <<Mine>> /\ ctrlOpen[Mine]
    <3>1. \A i \in Subs : (\A n \in DOMAIN in : in[n] # i) <=> i # Mine
      BY <2>3
    <3>2. ctrlOpen' = [ctrlOpen EXCEPT ![Mine] = FALSE]
      <4>1. \A i \in Subs : i # Mine => ctrlOpen'[i] = ctrlOpen[i]
        BY <2>2, <3>1
      <4>2. ctrlOpen'[Mine] = FALSE
        BY <2>2, <3>1
      <4>3. ctrlOpen' \in [Subs -> BOOLEAN]
        BY <2>2
      <4>. QED
        BY <4>1, <4>2, <4>3
    <3>3. CloseStream(Mine)
      BY <1>1, <2>1, <2>3, <3>2 DEF CloseStream, restVars
    <3>. QED
      BY <3>3 DEF Next
  <2>4. CASE in = <<>> \/ ~ctrlOpen[Mine]
    <3>1. \A i \in Subs : ctrlOpen[i] => \A n \in DOMAIN in : in[n] # i
      BY <2>4
    <3>2. ctrlOpen' = ctrlOpen
      BY <2>2, <3>1
    <3>. QED
      BY <1>2, <2>1, <3>2
  <2>. QED
    BY <2>3, <2>4
<1>4. ASSUME NEW n \in DOMAIN in, Joined!LoopReceive(n) PROVE [Next]_sensorVars
  <2>1. in[n] = Mine
    BY <1>4
  <2>2. Receive(Mine)
    BY <1>1, <1>4, <2>1 DEF Joined!LoopReceive, Receive, restVars
  <2>. QED
    BY <2>2 DEF Next
<1>5. CASE Joined!LoopSend \/ Joined!LoopDone \/ \E n \in DOMAIN in : Joined!LoopInputClosed(n)
  BY <1>2, <1>5 DEF Joined!LoopSend, Joined!LoopDone, Joined!LoopInputClosed, Joined!inputVars
<1>. QED
  BY <1>3, <1>4, <1>5 DEF JoinerStep, Joined!Loop

LEMMA StepImplements == JoinInv /\ [TelemetryNext]_vars => [Next]_sensorVars
<1>. SUFFICES ASSUME JoinInv, [TelemetryNext]_vars PROVE [Next]_sensorVars
  OBVIOUS
<1>1. CASE ~panicked /\ SensorStep
  BY <1>1, MineIsASub DEF SensorStep, Next, SensorNext, Others
<1>2. CASE ~panicked /\ JoinerStep
  BY <1>2, JoinerImplements
<1>3. CASE ~panicked /\ GetRegister
  BY <1>3, MineIsASub DEF GetRegister, Next, SensorNext
<1>4. CASE GetOff \/ GetAdd \/ GetOn \/ GetReceive \/ CloseOnDone
  BY <1>4 DEF GetOff, GetAdd, GetOn, GetReceive, CloseOnDone, Joined!Switch, Joined!Add, Joined!Take,
              Joined!Close, Joined!inputVars, restVars, sensorVars, streamVars
<1>5. CASE GetSent \/ GetSendFails \/ GetEnd \/ ClientGone \/ UNCHANGED vars
  BY <1>5 DEF GetSent, GetSendFails, GetEnd, ClientGone, vars
<1>. QED
  BY <1>1, <1>2, <1>3, <1>4, <1>5 DEF TelemetryNext, GetStep

\* ImplementsSubscriptions: the joiner and GetEvents (joiner.go, telemetry.go)
\* treat the stream of the client as a consumer of a stream may.
THEOREM Implementation == TelemetrySpec => ImplementsSubscriptions
<1>1. TelemetryInit => Init
  BY DEF TelemetryInit
<1>2. JoinInv /\ [TelemetryNext]_vars => JoinInv' /\ [Next]_sensorVars
  BY JoinInvStep, StepImplements
<1>. QED
  BY <1>1, <1>2, JoinInvInit, PTL DEF TelemetrySpec, ImplementsSubscriptions, Spec

\* EventsAreRouted and CancelledIsGone hold below a GetEvents call as well.
THEOREM ClientIsServed == TelemetrySpec => [](EventsAreRouted /\ CancelledIsGone)
BY Implementation, RoutedInvariance, CancelInvariance, PTL DEF ImplementsSubscriptions
=============================================================================
