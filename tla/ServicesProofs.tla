--------------------------- MODULE ServicesProofs ---------------------------
(***************************************************************************)
(* Main and the service manager, for any list of services and number of    *)
(* goroutines that call Stop: the sensor is stopped under no Serve.        *)
(***************************************************************************)
EXTENDS Services, TLAPS

-----------------------------------------------------------------------------
(* The inductive invariant. *)

\* Main registers the services of the list in their order.
RegisteredInOrder ==
  /\ Len(services) <= Len(ServiceList)
  /\ \A n \in DOMAIN services : services[n] = ServiceList[n]

\* Run begins when all are registered, and works on a copy of them.
RunHasAll ==
  /\ runPC # "main" => Len(services) = Len(ServiceList)
  /\ runPC \in {"starting", "returned"} => running = services

\* The sensor is stopped by the last step of Main, when all of them have
\* returned; nothing runs after it.
StoppedLast == sensor = "stopped" => runPC = "returned"

ServicesInv == TypeOK /\ RegisteredInOrder /\ RunHasAll /\ StoppedLast /\ SensorOutlivesServices

-----------------------------------------------------------------------------
LEMMA QueueType ==
  ASSUME NEW S, NEW q \in Seq(S), q # <<>>
  PROVE  Head(q) \in S /\ Tail(q) \in Seq(S)
OBVIOUS

LEMMA ListTypeStep ==
  ASSUME ListTypeOK, RegisteredInOrder, Next
  PROVE  ListTypeOK'
<1>. USE DEF ListTypeOK, runVars, managerVars
<1>1. CASE RegisterService
  <2>1. Len(services) + 1 \in DOMAIN ServiceList
    BY <1>1, ServiceListIsSequence DEF RegisterService
  <2>2. ServiceList[Len(services) + 1] \in ServiceSet
    BY <2>1 DEF ServiceSet
  <2>. QED
    BY <1>1, <2>2 DEF RegisterService
<1>2. CASE RunNotify \/ RunReturn
  BY <1>2 DEF RunNotify, RunReturn
<1>3. CASE RunBegin \/ RunServe
  BY <1>3, QueueType DEF RunBegin, RunServe
<1>4. CASE StopperBegin \/ ServiceStop \/ ServiceStopped
  BY <1>4, QueueType DEF StopperBegin, ServiceStop, ServiceStopped
<1>5. CASE UNCHANGED <<services, runVars, toStop>> /\ stopper' \in {stopper, "done"}
  BY <1>5
<1>. QED
  BY <1>1, <1>2, <1>3, <1>4, <1>5 DEF Next, Run, Signal, StopBy, StopCall, Stopper,
     StopperDone, ServeCreate, ServeReturn

LEMMA ServiceTypeStep ==
  ASSUME ListTypeOK, ServiceTypeOK, Next
  PROVE  ServiceTypeOK'
<1>. USE DEF ListTypeOK, ServiceTypeOK, serviceVars
<1>1. CASE RunServe
  <2>1. Head(toStart) \in ServiceSet
    BY <1>1, QueueType DEF RunServe
  <2>. QED
    BY <1>1, <2>1 DEF RunServe
<1>2. CASE ServiceStop
  <2>1. Head(toStop) \in ServiceSet
    BY <1>2, QueueType DEF ServiceStop
  <2>. QED
    BY <1>2, <2>1 DEF ServiceStop
<1>3. ASSUME NEW s \in ServiceSet, ServeCreate(s) \/ ServeReturn(s) PROVE ServiceTypeOK'
  BY <1>3 DEF ServeCreate, ServeReturn
<1>4. CASE UNCHANGED serviceVars
  BY <1>4
<1>. QED
  BY <1>1, <1>2, <1>3, <1>4 DEF Next, Run, RegisterService, RunNotify, RunBegin, RunReturn, Signal, StopBy,
     StopCall, Stopper, StopperBegin, StopperDone, ServiceStopped

LEMMA ControlTypeStep ==
  ASSUME ControlTypeOK, Next
  PROVE  ControlTypeOK'
<1>. USE DEF ControlTypeOK, managerVars, runVars
<1>1. CASE RegisterService \/ RunNotify
  BY <1>1 DEF RegisterService, RunNotify
<1>2. CASE RunBegin
  BY <1>2 DEF RunBegin
<1>3. CASE RunServe \/ RunReturn
  BY <1>3 DEF RunServe, RunReturn
<1>4. CASE StopCall /\ handler' \in {handler, "done"} /\ called' \subseteq Callers
  BY <1>4 DEF StopCall
<1>5. CASE Signal \/ \E c \in Callers : StopBy(c)
  BY <1>4, <1>5 DEF Signal, StopBy
<1>6. CASE StopperBegin \/ ServiceStop
  BY <1>6 DEF StopperBegin, ServiceStop
<1>7. CASE StopperDone \/ ServiceStopped
  BY <1>7 DEF StopperDone, ServiceStopped
<1>8. ASSUME NEW s \in ServiceSet, ServeCreate(s) \/ ServeReturn(s) PROVE ControlTypeOK'
  BY <1>8 DEF ServeCreate, ServeReturn
<1>. QED
  BY <1>1, <1>2, <1>3, <1>5, <1>6, <1>7, <1>8 DEF Next, Run, Stopper

LEMMA StoppedTypeStep ==
  ASSUME stopped \in BOOLEAN, Next
  PROVE  stopped' \in BOOLEAN
<1>1. CASE stopped' = stopped
  BY <1>1
<1>2. CASE StopperDone
  BY <1>2 DEF StopperDone
<1>. QED
  BY <1>1, <1>2 DEF Next, Run, RegisterService, RunNotify, RunBegin, RunServe, RunReturn, Signal, StopBy, StopCall,
     Stopper, StopperBegin, ServiceStop, ServiceStopped, ServeCreate, ServeReturn, managerVars

-----------------------------------------------------------------------------
LEMMA OrderStep ==
  ASSUME TypeOK, RegisteredInOrder, RunHasAll, Next
  PROVE  RegisteredInOrder' /\ RunHasAll'
<1>. USE DEF TypeOK, ListTypeOK, RegisteredInOrder, RunHasAll, managerVars, runVars
<1>1. CASE RegisterService
  <2>1. /\ services' = Append(services, ServiceList[Len(services) + 1])
        /\ Len(services) < Len(ServiceList) /\ runPC = "main"
        /\ UNCHANGED runVars
    BY <1>1 DEF RegisterService
  <2>2. Len(services') = Len(services) + 1 /\ Len(services') <= Len(ServiceList)
    BY <2>1, ServiceListIsSequence
  <2>3. \A n \in DOMAIN services' : services'[n] = ServiceList[n]
    BY <2>1, <2>2, ServiceListIsSequence
  <2>. QED
    BY <2>1, <2>2, <2>3
<1>2. CASE RunNotify \/ RunBegin \/ RunServe \/ RunReturn
  BY <1>2 DEF RunNotify, RunBegin, RunServe, RunReturn
<1>3. CASE UNCHANGED <<services, runVars>>
  BY <1>3
<1>. QED
  BY <1>1, <1>2, <1>3 DEF Next, Run, Signal, StopBy, StopCall, Stopper, StopperBegin, ServiceStop,
     StopperDone, ServiceStopped, ServeCreate, ServeReturn

LEMMA SensorStep ==
  ASSUME TypeOK, RegisteredInOrder, RunHasAll, StoppedLast, Next
  PROVE  StoppedLast' /\ SensorOutlivesServices'
<1>1. runPC # "returned" /\ sensor = "started"
  BY DEF Next, StoppedLast, TypeOK, ControlTypeOK
<1>2. CASE RunReturn
  <2>1. /\ runPC = "starting" /\ running = services /\ Len(services) = Len(ServiceList)
        /\ \A n \in DOMAIN running : serve[running[n]] = "returned"
        /\ runPC' = "returned" /\ serve' = serve
    BY <1>2 DEF RunReturn, RunHasAll, serviceVars
  <2>2. ASSUME NEW s \in ServiceSet PROVE serve[s] = "returned"
    <3>1. PICK n \in DOMAIN ServiceList : ServiceList[n] = s
      BY DEF ServiceSet
    <3>2. n \in DOMAIN services
      BY <2>1, <3>1, ServiceListIsSequence DEF TypeOK, ListTypeOK
    <3>. QED
      BY <2>1, <3>1, <3>2 DEF RegisteredInOrder
  <2>. QED
    BY <2>1, <2>2 DEF StoppedLast, SensorOutlivesServices
<1>3. CASE sensor' = sensor
  BY <1>1, <1>3 DEF StoppedLast, SensorOutlivesServices
<1>. QED
  BY <1>2, <1>3 DEF Next, Run, RegisterService, RunNotify, RunBegin, RunServe, Signal, StopBy, StopCall,
     Stopper, StopperBegin, ServiceStop, StopperDone, ServiceStopped, ServeCreate, ServeReturn

LEMMA ServicesInvStep ==
  ASSUME ServicesInv, [Next]_vars
  PROVE  ServicesInv'
<1>1. CASE UNCHANGED vars
  <2>. USE <1>1 DEF vars, managerVars, runVars, serviceVars
  <2>1. TypeOK'
    BY DEF ServicesInv, TypeOK, ListTypeOK, ServiceTypeOK, ControlTypeOK
  <2>2. RegisteredInOrder' /\ RunHasAll' /\ StoppedLast' /\ SensorOutlivesServices'
    BY DEF ServicesInv, RegisteredInOrder, RunHasAll, StoppedLast, SensorOutlivesServices
  <2>. QED
    BY <2>1, <2>2 DEF ServicesInv
<1>2. CASE Next
  <2>1. TypeOK'
    BY <1>2, ListTypeStep, ServiceTypeStep, ControlTypeStep, StoppedTypeStep DEF ServicesInv, TypeOK
  <2>. QED
    BY <1>2, <2>1, OrderStep, SensorStep DEF ServicesInv
<1>. QED
  BY <1>1, <1>2

LEMMA ServicesInvInit == Init => ServicesInv
<1>. SUFFICES ASSUME Init PROVE ServicesInv
  OBVIOUS
<1>. USE DEF Init
<1>1. ListTypeOK /\ ServiceTypeOK
  BY DEF ListTypeOK, ServiceTypeOK
<1>2. ControlTypeOK
  BY DEF ControlTypeOK
<1>3. stopped \in BOOLEAN
  OBVIOUS
<1>4. RegisteredInOrder /\ RunHasAll /\ StoppedLast /\ SensorOutlivesServices
  BY ServiceListIsSequence DEF RegisteredInOrder, RunHasAll, StoppedLast, SensorOutlivesServices
<1>. QED
  BY <1>1, <1>2, <1>3, <1>4 DEF ServicesInv, TypeOK

LEMMA ServicesInvariance == Spec => []ServicesInv
BY ServicesInvInit, ServicesInvStep, PTL DEF Spec

\* TypeOK: the state of the manager and of its goroutines; the stop channel is
\* there from the moment on that Run waits for it (pkg/services/manager.go).
THEOREM ServicesTypeInvariance == Spec => []TypeOK
<1>1. ServicesInv => TypeOK
  BY DEF ServicesInv
<1>. QED
  BY <1>1, ServicesInvariance, PTL

\* SensorOutlivesServices: when Main stops the sensor no Serve runs, and none
\* will begin (pkg/sensor/main.go).
THEOREM SensorInvariance == Spec => []SensorOutlivesServices
<1>1. ServicesInv => SensorOutlivesServices
  BY DEF ServicesInv
<1>. QED
  BY <1>1, ServicesInvariance, PTL
=============================================================================
