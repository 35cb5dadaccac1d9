----------------------------- MODULE Telemetry -----------------------------
(***************************************************************************)
(* One client of the telemetry service, from GetEvents down: NewSubscription*)
(* adds the perf event stream of its subscription to a joiner, GetEvents   *)
(* sends what the joiner puts out to the client, and a goroutine of its    *)
(* own closes the stream when the context of the call is done.             *)
(*                                                                         *)
(* The perf event streams are those of Subscriptions: that of the client,  *)
(* Mine, and those of others, which share the dispatcher with it.  gRPC is *)
(* seen from GetEvents: Send returns, or fails, or waits for a client that *)
(* does not read; the context is done when the client is gone or the       *)
(* handler has returned.                                                   *)
(***************************************************************************)
EXTENDS Subscriptions

CONSTANTS Mine   \* the subscription of the client

ASSUME MineIsASub == Mine \in Subs

VARIABLES
  joinCtrl, enable, in, joinPC, held, outData, outOpen,   \* the joiner
  getPC,      \* the goroutine in GetEvents
  ctxDone,    \* the context of the call
  closing     \* the goroutine that waits for it: "none", "waiting" or "done"

joinerVars == <<joinCtrl, enable, in, joinPC, held, outData, outOpen>>
callVars == <<getPC, ctxDone, closing>>
vars == <<sensorVars, joinerVars, callVars>>

Joined == INSTANCE Joiner WITH
            Inputs <- Subs, JoinCap <- ChanCap,
            inData <- data, inOpen <- dataOpen, inCtrl <- ctrlOpen

\* What of Subscriptions a step of the joiner leaves alone.
restVars == <<subVars, mapVars, sampleVars, dispatchVars>>

TelemetryInit ==
  /\ Init
  /\ Joined!JoinInit
  /\ getPC = "new"
  /\ ctxDone = FALSE
  /\ closing = "none"

-----------------------------------------------------------------------------
(* NewSubscription *)

GetOff ==
  /\ getPC = "new"
  /\ Joined!Switch(FALSE)
  /\ getPC' = "register"
  /\ UNCHANGED <<restVars, ctxDone, closing>>

\* With a bug: the stream is joined before it is there.
GetRegisterEarly ==
  /\ getPC = "register"
  /\ Subscribe(Mine)
  /\ getPC' = "add"
  /\ UNCHANGED <<joinerVars, ctxDone, closing>>

GetRegister ==
  /\ getPC = "register"
  /\ Subscribe(Mine)
  /\ getPC' = IF stage'[Mine] = "open" THEN "add" ELSE "register"
  /\ UNCHANGED <<joinerVars, ctxDone, closing>>

GetAdd ==
  /\ getPC = "add"
  /\ Joined!Add(Mine)
  /\ getPC' = "on"
  /\ UNCHANGED <<restVars, ctxDone, closing>>

\* joiner.On(); then GetEvents starts the goroutine that closes the stream.
GetOn ==
  /\ getPC = "on"
  /\ Joined!Switch(TRUE)
  /\ getPC' = "receive"
  /\ closing' = "waiting"
  /\ UNCHANGED <<restVars, ctxDone>>

-----------------------------------------------------------------------------
(* GetEvents *)

GetReceive ==
  /\ getPC = "receive"
  /\ Joined!Take
  /\ getPC' = "send"
  /\ UNCHANGED <<restVars, ctxDone, closing>>

GetSent ==
  /\ getPC = "send"
  /\ ~ctxDone
  /\ getPC' = "receive"
  /\ UNCHANGED <<sensorVars, joinerVars, ctxDone, closing>>

\* Send failed: the loop ends, and with the handler the context.
GetSendFails ==
  /\ getPC = "send"
  /\ getPC' = "returned"
  /\ ctxDone' = TRUE
  /\ UNCHANGED <<sensorVars, joinerVars, closing>>

\* The stream has ended.
GetEnd ==
  /\ getPC = "receive"
  /\ outData = <<>>
  /\ ~outOpen
  /\ getPC' = "returned"
  /\ ctxDone' = TRUE
  /\ UNCHANGED <<sensorVars, joinerVars, closing>>

ClientGone ==
  /\ ~ctxDone
  /\ ctxDone' = TRUE
  /\ UNCHANGED <<sensorVars, joinerVars, getPC, closing>>

\* eventStream.Close()
CloseOnDone ==
  /\ closing = "waiting"
  /\ ctxDone
  /\ Joined!Close
  /\ closing' = "done"
  /\ UNCHANGED <<restVars, getPC, ctxDone>>

-----------------------------------------------------------------------------
Others == Subs \ {Mine}

\* The other subscriptions, and what they share with Mine.
SensorStep ==
  /\ \/ \E s \in Others : Subscribe(s) \/ Receive(s) \/ CloseStream(s)
     \/ \E s \in Subs : Cancel(s)
     \/ \E e \in monitorEvents : WriteSample(e)
     \/ DropSample
     \/ Dispatch
  /\ UNCHANGED <<joinerVars, callVars>>

JoinerStep == Joined!Loop /\ UNCHANGED <<restVars, callVars>>

GetStep ==
  \/ GetOff \/ GetRegister \/ GetAdd \/ GetOn
  \/ GetReceive \/ GetSent \/ GetSendFails \/ GetEnd

TelemetryNext ==
  /\ ~panicked
  /\ SensorStep \/ JoinerStep \/ GetStep \/ ClientGone \/ CloseOnDone

TelemetrySpec == TelemetryInit /\ [][TelemetryNext]_vars

Alive(A) == ~panicked /\ A

\* Goroutines run, and the select of the joiner does not pass over its closed
\* control channel for ever.  Send returns when the context is done; a client
\* that is there need not read.  The kernel need not write, nobody has to
\* subscribe, and the others need not receive.
TelemetryFairness ==
  /\ \A s \in Subs : WF_vars(Alive(Cancel(s) /\ UNCHANGED <<joinerVars, callVars>>))
  /\ WF_vars(Alive(Dispatch /\ UNCHANGED <<joinerVars, callVars>>))
  /\ WF_vars(Alive(JoinerStep))
  /\ SF_vars(Alive(Joined!LoopControlClosed /\ UNCHANGED <<restVars, callVars>>))
  /\ WF_vars(Alive(GetOff \/ GetRegister \/ GetAdd \/ GetOn \/ GetReceive \/ GetEnd))
  /\ WF_vars(Alive(ctxDone /\ GetSendFails))
  /\ WF_vars(Alive(CloseOnDone))

TelemetryFairSpec == TelemetrySpec /\ TelemetryFairness

-----------------------------------------------------------------------------
(* Properties *)

\* What the joiner does to the stream of the client is what Subscriptions lets
\* the consumer of a stream do: it closes no stream that is not open, and takes
\* from it in order.  So what holds of every Subscriptions holds here.
ImplementsSubscriptions == Spec

Cancelled == stage[Mine] = "closed" \/ panicked

\* The joiner waits to send to a channel that is full, and nobody receives from
\* it any more.
Stuck == joinPC = "send" /\ Len(outData) = ChanCap /\ getPC = "returned"

\* A call whose context is done ends the subscription: the events are
\* unregistered and the data channel is closed.  The one thing that can keep it
\* from that is a joiner that is stuck.
DoneCancels == ctxDone /\ closing # "none" ~> Cancelled \/ Stuck
=============================================================================
