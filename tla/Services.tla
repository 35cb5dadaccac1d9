------------------------------ MODULE Services ------------------------------
(***************************************************************************)
(* The service manager of pkg/services/manager.go with the services that   *)
(* Main (pkg/sensor/main.go) registers: TelemetryService and               *)
(* ProfilingService, which both create their server in Serve and shut it   *)
(* down in Stop.                                                           *)
(*                                                                         *)
(* The servers themselves (grpc.Server, http.Server) are seen from here: a *)
(* server that is told to shut down makes the Serve that runs it return,   *)
(* also one that has not begun to listen yet; the call that told it returns*)
(* when its last request is over, which for a stream of events depends on  *)
(* the client.  What they panic with ends the program.                     *)
(***************************************************************************)
EXTENDS Naturals, Sequences, FiniteSets

CONSTANTS
  ServiceList,   \* the services Main registers, in their order
  Callers        \* goroutines that call Stop once each, besides the signal handler

ServiceSet == {ServiceList[n] : n \in DOMAIN ServiceList}

ASSUME ServiceListIsSequence == ServiceList \in Seq(ServiceSet)

ASSUME ServicesAreDistinct ==
  \A m, n \in DOMAIN ServiceList : ServiceList[m] = ServiceList[n] => m = n

VARIABLES
  services,     \* sm.services
  stopChan,     \* sm.stopChan: "nil", "open" or "closed"
  stopped,      \* sm.stopped
  runPC,        \* the goroutine in Run
  running,      \* its local copy of services
  toStart,      \* those it has not started yet
  handler,      \* the goroutine that waits for a signal
  stopper,      \* the goroutine that waits for stopChan
  toStop,       \* the services it has still to stop
  serve,        \* the goroutine in Serve of each service
  server,       \* each service's server: "nil", "up" or "down"
  called,       \* the callers that have called Stop
  sensor,       \* the sensor of Main: "started" or "stopped"
  crash         \* why the program is gone, or "no"

managerVars == <<services, stopChan, stopped>>
runVars     == <<runPC, running, toStart>>
serviceVars == <<serve, server>>
vars == <<managerVars, runVars, handler, stopper, toStop, serviceVars, called, sensor, crash>>

Init ==
  /\ services = <<>>
  /\ stopChan = "nil"
  /\ stopped = FALSE
  /\ runPC = "main"
  /\ running = <<>>
  /\ toStart = <<>>
  /\ handler = "none"
  /\ stopper = "none"
  /\ toStop = <<>>
  /\ serve = [s \in ServiceSet |-> "none"]
  /\ server = [s \in ServiceSet |-> "nil"]
  /\ called = {}
  /\ sensor = "started"
  /\ crash = "no"

-----------------------------------------------------------------------------
(* Main and Run *)

RegisterService ==
  /\ runPC = "main"
  /\ Len(services) < Len(ServiceList)
  /\ services' = Append(services, ServiceList[Len(services) + 1])
  /\ UNCHANGED <<stopChan, stopped, runVars, handler, stopper, toStop, serviceVars,
                 called, sensor, crash>>

\* The signals are routed to the handler before anything else is there.
RunNotify ==
  /\ runPC = "main"
  /\ Len(services) = Len(ServiceList)
  /\ runPC' = "notified"
  /\ handler' = "waiting"
  /\ UNCHANGED <<managerVars, running, toStart, stopper, toStop, serviceVars,
                 called, sensor, crash>>

RunBegin ==
  /\ runPC = "notified"
  /\ stopChan' = "open"
  /\ running' = services
  /\ toStart' = services
  /\ stopper' = "waiting"
  /\ runPC' = "starting"
  /\ UNCHANGED <<services, stopped, handler, toStop, serviceVars, called, sensor, crash>>

RunServe ==
  /\ runPC = "starting"
  /\ toStart # <<>>
  /\ toStart' = Tail(toStart)
  /\ serve' = [serve EXCEPT ![Head(toStart)] = "begun"]
  /\ UNCHANGED <<managerVars, runPC, running, handler, stopper, toStop, server,
                 called, sensor, crash>>

\* With a bug: wg.Wait() does not count the goroutine of one service.
RunReturnEarly ==
  /\ runPC = "starting"
  /\ toStart = <<>>
  /\ \E n \in DOMAIN running : serve[running[n]] = "returned"
  /\ runPC' = "returned"
  /\ sensor' = "stopped"
  /\ UNCHANGED <<managerVars, running, toStart, handler, stopper, toStop, serviceVars,
                 called, crash>>

\* wg.Wait(), and the deferred sensor.Stop() of Main.
RunReturn ==
  /\ runPC = "starting"
  /\ toStart = <<>>
  /\ \A n \in DOMAIN running : serve[running[n]] = "returned"
  /\ runPC' = "returned"
  /\ sensor' = "stopped"
  /\ UNCHANGED <<managerVars, running, toStart, handler, stopper, toStop, serviceVars,
                 called, crash>>

-----------------------------------------------------------------------------
(* Stop *)

\* With the lock held: stopChan is closed, unless the services have stopped.
StopCall ==
  /\ \/ /\ stopped
        /\ UNCHANGED <<stopChan, crash>>
     \/ /\ ~stopped
        /\ stopChan = "open"
        /\ stopChan' = "closed"
        /\ UNCHANGED crash
     \/ /\ ~stopped
        /\ stopChan # "open"
        /\ crash' = IF stopChan = "nil" THEN "close of nil channel" ELSE "close of closed channel"
        /\ UNCHANGED stopChan
  /\ UNCHANGED <<services, stopped, runVars, stopper, toStop, serviceVars, sensor>>

\* The handler takes one signal; those that come later are not received.
Signal ==
  /\ handler = "waiting"
  /\ handler' = "done"
  /\ StopCall
  /\ UNCHANGED called

StopBy(c) ==
  /\ runPC # "main"
  /\ c \notin called
  /\ called' = called \cup {c}
  /\ StopCall
  /\ UNCHANGED handler

\* The goroutine that waits for stopChan stops the services one by one.
StopperBegin ==
  /\ stopper = "waiting"
  /\ stopChan = "closed"
  /\ stopper' = "stopping"
  /\ toStop' = running
  /\ UNCHANGED <<managerVars, runVars, handler, serviceVars, called, sensor, crash>>

\* With a bug: the server is not told.
ServiceStopSilent ==
  /\ stopper = "stopping"
  /\ toStop # <<>>
  /\ stopper' = "shutdown"
  /\ UNCHANGED <<managerVars, runVars, handler, toStop, serviceVars, called, sensor, crash>>

\* Stop of a service: the server is told to shut down; there may be none yet.
ServiceStop ==
  /\ stopper = "stopping"
  /\ toStop # <<>>
  /\ LET s == Head(toStop)
     IN  IF server[s] = "nil"
         THEN crash' = "no server" /\ UNCHANGED server
         ELSE server' = [server EXCEPT ![s] = "down"] /\ UNCHANGED crash
  /\ stopper' = "shutdown"
  /\ UNCHANGED <<managerVars, runVars, handler, toStop, serve, called, sensor>>

\* The requests of the server are over and its Stop returns.
ServiceStopped ==
  /\ stopper = "shutdown"
  /\ toStop' = Tail(toStop)
  /\ stopper' = "stopping"
  /\ UNCHANGED <<managerVars, runVars, handler, serviceVars, called, sensor, crash>>

\* sm.stopped = true, without the lock.
StopperDone ==
  /\ stopper = "stopping"
  /\ toStop = <<>>
  /\ stopper' = "done"
  /\ stopped' = TRUE
  /\ UNCHANGED <<services, stopChan, runVars, handler, toStop, serviceVars, called, sensor, crash>>

-----------------------------------------------------------------------------
(* Serve of a service *)

\* The listener is there and the server is created.
ServeCreate(s) ==
  /\ serve[s] = "begun"
  /\ server' = [server EXCEPT ![s] = "up"]
  /\ serve' = [serve EXCEPT ![s] = "serving"]
  /\ UNCHANGED <<managerVars, runVars, handler, stopper, toStop, called, sensor, crash>>

\* There is no listener, the server fails, or it has been shut down.
ServeReturn(s) ==
  /\ serve[s] \in {"begun", "serving"}
  /\ serve' = [serve EXCEPT ![s] = "returned"]
  /\ UNCHANGED <<managerVars, runVars, handler, stopper, toStop, server, called, sensor, crash>>

-----------------------------------------------------------------------------
Run == RegisterService \/ RunNotify \/ RunBegin \/ RunServe \/ RunReturn

Stopper == StopperBegin \/ ServiceStop \/ StopperDone

Next ==
  /\ crash = "no"
  /\ \/ runPC # "returned" /\ \/ Run
                              \/ Signal
                              \/ \E c \in Callers : StopBy(c)
                              \/ Stopper
                              \/ ServiceStopped
                              \/ \E s \in ServiceSet : ServeCreate(s) \/ ServeReturn(s)

Spec == Init /\ [][Next]_vars

Alive(A) == crash = "no" /\ runPC # "returned" /\ A

\* Goroutines run; a server that is told to shut down makes its Serve return.
\* Serve need not return otherwise, nobody has to call Stop, and the Stop of a
\* service need not return: its requests may go on for ever.
FairSpec ==
  /\ Spec
  /\ WF_vars(Alive(Run))
  /\ WF_vars(Alive(Stopper))
  /\ \A s \in ServiceSet : WF_vars(Alive(ServeCreate(s)))
  /\ \A s \in ServiceSet : WF_vars(Alive(server[s] = "down" /\ ServeReturn(s)))

-----------------------------------------------------------------------------
(* Properties *)

ListTypeOK ==
  /\ services \in Seq(ServiceSet)
  /\ running \in Seq(ServiceSet)
  /\ toStart \in Seq(ServiceSet)
  /\ toStop \in Seq(ServiceSet)
  /\ stopper = "shutdown" => toStop # <<>>

ServiceTypeOK ==
  /\ serve \in [ServiceSet -> {"none", "begun", "serving", "returned"}]
  /\ server \in [ServiceSet -> {"nil", "up", "down"}]

ControlTypeOK ==
  /\ stopChan \in {"nil", "open", "closed"}
  /\ stopChan = "nil" <=> stopper = "none"
  /\ runPC \in {"main", "notified", "starting", "returned"}
  /\ runPC \in {"main", "notified"} <=> stopper = "none"
  /\ handler \in {"none", "waiting", "done"}
  /\ stopper \in {"none", "waiting", "stopping", "shutdown", "done"}
  /\ called \subseteq Callers
  /\ sensor \in {"started", "stopped"}
  /\ crash \in {"no", "close of nil channel", "close of closed channel", "no server"}

TypeOK == ListTypeOK /\ ServiceTypeOK /\ ControlTypeOK /\ stopped \in BOOLEAN

\* The sensor is stopped under no Serve: none runs, and none will begin.
SensorOutlivesServices ==
  sensor = "stopped" => \A s \in ServiceSet : serve[s] = "returned"

\* Run returns when Stop has been called, unless a service that never ends its
\* requests comes before another one that is then not told to stop.
StopEndsRun ==
  stopChan = "closed" ~>
    \/ runPC = "returned"
    \/ crash # "no"
    \/ stopper = "shutdown" /\ Len(toStop) > 1
=============================================================================
