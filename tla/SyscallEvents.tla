--------------------------- MODULE SyscallEvents ---------------------------
(***************************************************************************)
(* The dummy event of registerSyscallEvents: the kprobe for the entry of   *)
(* system calls only fires while a tracepoint on raw_syscalls/sys_enter is *)
(* registered, so subscriptions with such a kprobe share one.  It is       *)
(* counted in sensor.dummySyscallEventCount; who counts it first registers *)
(* it and stores its id, and who counts it last unregisters what id it     *)
(* has read.                                                               *)
(*                                                                         *)
(* Subscriptions register at the same time and without a lock; they are    *)
(* cancelled one by one, as safeSubscriptionMap.remove calls the           *)
(* unregister functions while it holds its mutex.                          *)
(***************************************************************************)
EXTENDS Integers, FiniteSets

CONSTANT Subs   \* the subscriptions

ASSUME SubsFinite == IsFiniteSet(Subs)

VARIABLES
  enter,         \* how far a subscription is with its enter event
  eventID,       \* the id of the dummy event it got or has read
  dummyCount,    \* sensor.dummySyscallEventCount
  dummyEventID,  \* sensor.dummySyscallEventID
  dummies,       \* dummy events that are registered with the monitor
  nextDummy,     \* the id the next one gets
  dummyFailed    \* whether registering one has ever failed

syscallVars == <<enter, eventID, dummyCount, dummyEventID, dummies, nextDummy, dummyFailed>>

EnterStage ==
  {"none", "first", "registered", "failed", "counted", "probed", "unprobed",
   "removing", "last", "removed"}

SyscallInit ==
  /\ enter = [s \in Subs |-> "none"]
  /\ eventID = [s \in Subs |-> 0]
  /\ dummyCount = 0
  /\ dummyEventID = 0
  /\ dummies = {}
  /\ nextDummy = 1
  /\ dummyFailed = FALSE

-----------------------------------------------------------------------------
(* registerSyscallEvents *)

\* With a bug: the counter is read and written in two steps, and another
\* subscription has read it too.
CountDummyTwice(s) ==
  /\ enter[s] = "none"
  /\ dummyCount' = IF \E t \in Subs : enter[t] = "first" THEN dummyCount ELSE dummyCount + 1
  /\ enter' = [enter EXCEPT ![s] = IF dummyCount' = 1 THEN "first" ELSE "counted"]
  /\ UNCHANGED <<eventID, dummyEventID, dummies, nextDummy, dummyFailed>>

\* atomic.AddInt64(&sensor.dummySyscallEventCount, 1) == 1
CountDummy(s) ==
  /\ enter[s] = "none"
  /\ dummyCount' = dummyCount + 1
  /\ enter' = [enter EXCEPT ![s] = IF dummyCount + 1 = 1 THEN "first" ELSE "counted"]
  /\ UNCHANGED <<eventID, dummyEventID, dummies, nextDummy, dummyFailed>>

RegisterDummy(s) ==
  /\ enter[s] = "first"
  /\ enter' = [enter EXCEPT ![s] = "registered"]
  /\ eventID' = [eventID EXCEPT ![s] = nextDummy]
  /\ dummies' = dummies \cup {nextDummy}
  /\ nextDummy' = nextDummy + 1
  /\ UNCHANGED <<dummyCount, dummyEventID, dummyFailed>>

\* RegisterTracepoint returns an error.
RegisterDummyFails(s) ==
  /\ enter[s] = "first"
  /\ enter' = [enter EXCEPT ![s] = "failed"]
  /\ dummyFailed' = TRUE
  /\ UNCHANGED <<eventID, dummyCount, dummyEventID, dummies, nextDummy>>

\* The dummy is no longer counted, but its kprobe is registered all the same.
UncountDummy(s) ==
  /\ enter[s] = "failed"
  /\ dummyCount' = dummyCount - 1
  /\ enter' = [enter EXCEPT ![s] = "counted"]
  /\ UNCHANGED <<eventID, dummyEventID, dummies, nextDummy, dummyFailed>>

\* With a bug: the id is not stored.
StoreDummyForgotten(s) ==
  /\ enter[s] = "registered"
  /\ enter' = [enter EXCEPT ![s] = "counted"]
  /\ UNCHANGED <<eventID, dummyEventID, dummyCount, dummies, nextDummy, dummyFailed>>

\* sensor.dummySyscallEventID = eventID
StoreDummy(s) ==
  /\ enter[s] = "registered"
  /\ dummyEventID' = eventID[s]
  /\ enter' = [enter EXCEPT ![s] = "counted"]
  /\ UNCHANGED <<eventID, dummyCount, dummies, nextDummy, dummyFailed>>

\* The kprobe is registered; with it the function that will uncount the dummy.
ProbeEnter(s) ==
  /\ enter[s] = "counted"
  /\ enter' = [enter EXCEPT ![s] = "probed"]
  /\ UNCHANGED <<eventID, dummyCount, dummyEventID, dummies, nextDummy, dummyFailed>>

\* Neither kprobe can be registered: the dummy stays counted.
ProbeEnterFails(s) ==
  /\ enter[s] = "counted"
  /\ enter' = [enter EXCEPT ![s] = "unprobed"]
  /\ UNCHANGED <<eventID, dummyCount, dummyEventID, dummies, nextDummy, dummyFailed>>

-----------------------------------------------------------------------------
(* The unregister function, called by safeSubscriptionMap.remove *)

\* eventID := sensor.dummySyscallEventID
ReadDummy(s) ==
  /\ enter[s] = "probed"
  /\ \A t \in Subs : enter[t] \notin {"removing", "last"}
  /\ eventID' = [eventID EXCEPT ![s] = dummyEventID]
  /\ enter' = [enter EXCEPT ![s] = "removing"]
  /\ UNCHANGED <<dummyCount, dummyEventID, dummies, nextDummy, dummyFailed>>

\* With a bug: the counter is compared before it is lowered.
DropDummyUnseen(s) ==
  /\ enter[s] = "removing"
  /\ dummyCount' = dummyCount - 1
  /\ enter' = [enter EXCEPT ![s] = IF dummyCount = 0 THEN "last" ELSE "removed"]
  /\ UNCHANGED <<eventID, dummyEventID, dummies, nextDummy, dummyFailed>>

\* atomic.AddInt64(&sensor.dummySyscallEventCount, -1) == 0
DropDummy(s) ==
  /\ enter[s] = "removing"
  /\ dummyCount' = dummyCount - 1
  /\ enter' = [enter EXCEPT ![s] = IF dummyCount - 1 = 0 THEN "last" ELSE "removed"]
  /\ UNCHANGED <<eventID, dummyEventID, dummies, nextDummy, dummyFailed>>

\* sensor.monitor.UnregisterEvent(eventID); an error is not looked at.
UnregisterDummy(s) ==
  /\ enter[s] = "last"
  /\ dummies' = dummies \ {eventID[s]}
  /\ enter' = [enter EXCEPT ![s] = "removed"]
  /\ UNCHANGED <<eventID, dummyCount, dummyEventID, nextDummy, dummyFailed>>

-----------------------------------------------------------------------------
SyscallNext ==
  \E s \in Subs :
    \/ CountDummy(s) \/ RegisterDummy(s) \/ RegisterDummyFails(s) \/ UncountDummy(s)
    \/ StoreDummy(s) \/ ProbeEnter(s) \/ ProbeEnterFails(s)
    \/ ReadDummy(s) \/ DropDummy(s) \/ UnregisterDummy(s)

SyscallSpec == SyscallInit /\ [][SyscallNext]_syscallVars

-----------------------------------------------------------------------------
(* Properties *)

\* The subscriptions that count the dummy event.
Counting == {s \in Subs : enter[s] \in {"first", "registered", "counted", "probed", "unprobed", "removing"}}

\* Unless registering a dummy event has failed, the counter says how many
\* subscriptions need it, though it is raised and lowered by all of them.
DummyCounted == ~dummyFailed => dummyCount = Cardinality(Counting)

\* Unless that has failed, the kprobe of a subscription fires: the dummy event
\* is registered, or is about to be, by another subscription that was the first
\* to count it, although ids are read and stored and events unregistered outside
\* any lock.
DummyWhileProbed ==
  ~dummyFailed => \A s \in Subs : enter[s] \in {"probed", "unprobed", "removing"} =>
    \/ dummyEventID \in dummies
    \/ \E t \in Subs : enter[t] \in {"first", "registered"}

\* Unless that has failed, no dummy event is left behind: one that is
\* registered is the one that is known, and counted, or is about to be known, or
\* about to be unregistered.
NoDummyLeft ==
  ~dummyFailed => \A d \in dummies :
    \/ d = dummyEventID /\ dummyCount > 0
    \/ \E t \in Subs : enter[t] \in {"registered", "last"} /\ eventID[t] = d
=============================================================================
