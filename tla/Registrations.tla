--------------------------- MODULE Registrations ---------------------------
(***************************************************************************)
(* Registering and unregistering the kernel events of subscriptions in     *)
(* pkg/sensor: createPerfEventStream walks through the event filters of a  *)
(* subscription and registers what it makes of them, skipping what the     *)
(* kernel does not have or refuses; its goroutine undoes all of it when    *)
(* the subscription is cancelled.  Subscriptions do so at the same time    *)
(* and share the dummy event of SyscallEvents.                             *)
(*                                                                         *)
(* What becomes of the filters is a parameter here: FilteredRegistrations  *)
(* gives it the meaning it has in the code.  The kernel is external: the   *)
(* tracepoints and symbols it has and the filters it takes.                *)
(***************************************************************************)
EXTENDS SyscallEvents, Sequences

CONSTANTS
  Requests,     \* subscription :> the event filters it may come with
  Kernels,      \* sets of the tracepoints and symbols a kernel may have
  PlanOf(_),    \* what is to be registered for a request, in order
  PanicsOn(_),  \* whether making that of a request crashes
  KernelTakes(_, _) \* whether the kernel takes a filter for a type of event

VARIABLES
  kernel,       \* the tracepoints and symbols of the running kernel
  stage,        \* how far a subscription is
  request,      \* its event filters
  todo,         \* what it has still to register
  registered,   \* the events registered with the monitor
  crashed       \* a nil pointer was dereferenced: the program is gone

subscriptionVars == <<kernel, stage, request, todo, registered, crashed>>
vars == <<subscriptionVars, syscallVars>>

NoRequest == [file |-> {}, kernel |-> {}, network |-> {}, process |-> {}, syscall |-> {}]

Init ==
  /\ SyscallInit
  /\ kernel \in Kernels
  /\ stage = [s \in Subs |-> "idle"]
  /\ request = [s \in Subs |-> NoRequest]
  /\ todo = [s \in Subs |-> <<>>]
  /\ registered = {}
  /\ crashed = FALSE

-----------------------------------------------------------------------------
(* createPerfEventStream *)

Subscribe(s) ==
  /\ stage[s] = "idle"
  /\ \E r \in Requests[s] :
       /\ request' = [request EXCEPT ![s] = r]
       /\ IF PanicsOn(r)
          THEN crashed' = TRUE /\ UNCHANGED <<stage, todo>>
          ELSE /\ stage' = [stage EXCEPT ![s] = "registering"]
               /\ todo' = [todo EXCEPT ![s] = PlanOf(r)]
               /\ UNCHANGED crashed
  /\ UNCHANGED <<kernel, registered, syscallVars>>

\* The first of the names that the kernel has, if it takes the filter.
Registered(s, registration) ==
  LET found == {i \in DOMAIN registration.names : registration.names[i] \in kernel}
  IN  IF found # {} /\ KernelTakes(registration.filter, registration.type)
      THEN {[sub |-> s, name |-> registration.names[CHOOSE i \in found : \A j \in found : i <= j],
             filter |-> registration.filter, type |-> registration.type]}
      ELSE {}

\* The next event is registered, or is not and left out.
RegisterNext(s) ==
  /\ stage[s] = "registering"
  /\ todo[s] # <<>>
  /\ LET next == Head(todo[s])
         events == Registered(s, next)
     IN  /\ IF next.type # "SYSCALL_ENTER" THEN UNCHANGED syscallVars
            ELSE IF events # {} THEN ProbeEnter(s)
            ELSE ProbeEnterFails(s)
         /\ registered' = registered \cup events
  /\ todo' = [todo EXCEPT ![s] = Tail(@)]
  /\ UNCHANGED <<kernel, stage, request, crashed>>

\* Before a kprobe on the entry of system calls: the dummy event.
RegisterDummyNext(s) ==
  /\ stage[s] = "registering"
  /\ todo[s] # <<>>
  /\ Head(todo[s]).type = "SYSCALL_ENTER"
  /\ \/ CountDummy(s)
     \/ "raw_syscalls/sys_enter" \in kernel /\ RegisterDummy(s)
     \/ "raw_syscalls/sys_enter" \notin kernel /\ RegisterDummyFails(s)
     \/ UncountDummy(s)
     \/ StoreDummy(s)
  /\ UNCHANGED subscriptionVars

\* Everything is registered and routed; without any event there is no stream.
Open(s) ==
  /\ stage[s] = "registering"
  /\ todo[s] = <<>>
  /\ stage' = [stage EXCEPT ![s] = IF \E e \in registered : e.sub = s THEN "open" ELSE "none"]
  /\ UNCHANGED <<kernel, request, todo, registered, crashed, syscallVars>>

-----------------------------------------------------------------------------
(* The goroutine of the stream, when its control channel is closed *)

Cancel(s) ==
  /\ stage[s] = "open"
  /\ stage' = [stage EXCEPT ![s] = "closing"]
  /\ UNCHANGED <<kernel, request, todo, registered, crashed, syscallVars>>

\* s.eventMap.remove calls the unregister function of the enter event.
ReleaseDummy(s) ==
  /\ stage[s] = "closing"
  /\ ReadDummy(s) \/ DropDummy(s) \/ UnregisterDummy(s)
  /\ UNCHANGED subscriptionVars

UnregisterEvent(s) ==
  /\ stage[s] = "closing"
  /\ enter[s] \notin {"probed", "removing", "last"}
  /\ \E e \in registered : e.sub = s /\ registered' = registered \ {e}
  /\ UNCHANGED <<kernel, stage, request, todo, crashed, syscallVars>>

Closed(s) ==
  /\ stage[s] = "closing"
  /\ \A e \in registered : e.sub # s
  /\ stage' = [stage EXCEPT ![s] = "closed"]
  /\ UNCHANGED <<kernel, request, todo, registered, crashed, syscallVars>>

-----------------------------------------------------------------------------
Next ==
  /\ ~crashed
  /\ \E s \in Subs :
       \/ Subscribe(s) \/ RegisterNext(s) \/ RegisterDummyNext(s) \/ Open(s)
       \/ Cancel(s) \/ ReleaseDummy(s) \/ UnregisterEvent(s) \/ Closed(s)

Spec == Init /\ [][Next]_vars

-----------------------------------------------------------------------------
(* Properties *)

\* What a subscription has registered is unregistered when it is closed, and
\* with the last one the dummy event is gone too, unless it could not be
\* registered once or there was no kprobe to go with it.
NothingLeftBehind ==
  /\ \A s \in Subs : stage[s] \in {"closed", "none"} => \A e \in registered : e.sub # s
  /\ (\A s \in Subs : stage[s] \in {"idle", "closed", "none"} /\ enter[s] # "unprobed")
       => dummyFailed \/ (dummies = {} /\ dummyCount = 0)
=============================================================================
