------------------------------- MODULE Joiner -------------------------------
(***************************************************************************)
(* The joiner of pkg/stream/joiner.go: one goroutine that forwards what it *)
(* receives from any of its input streams to one data channel, while it is *)
(* switched on.  Streams are added and removed, and the joiner is switched *)
(* and closed, through its control channel, whose other end the consumer   *)
(* of the joined stream holds, too: Stream.Close closes it as Joiner.Close *)
(* does.                                                                   *)
(*                                                                         *)
(* An element is the input it comes from and its number there.             *)
(***************************************************************************)
EXTENDS Integers, Sequences, FiniteSets

CONSTANTS
  Inputs,     \* the streams that may be added
  JoinCap     \* capacity of a data channel

ASSUME JoinCapIsPositive == JoinCap \in Nat \ {0}

VARIABLES
  \* the input streams
  inData,     \* the data channel of each of them
  inOpen,
  inCtrl,     \* its control channel is open
  \* the joiner
  joinCtrl,   \* the control channel: "open", "closed", or "nil" once seen closed
  enable,
  in,         \* j.in
  joinPC,     \* "select", "send" or "done"
  held,       \* the element it is sending
  outData,    \* j.data
  outOpen

inputVars == <<inData, inOpen, inCtrl>>
outVars   == <<outData, outOpen>>
loopVars  == <<enable, in, joinPC, held>>
joinVars  == <<joinCtrl, loopVars, outVars>>

JoinInit ==
  /\ joinCtrl = "open"
  /\ enable = TRUE
  /\ in = <<>>
  /\ joinPC = "select"
  /\ held = <<>>
  /\ outData = <<>>
  /\ outOpen = TRUE

-----------------------------------------------------------------------------
(* Control messages: the channel has no buffer, so the caller hands its     *)
(* message to the loop, which handles it before it does anything else; Add  *)
(* and Remove wait for the reply.                                           *)

Listening == joinCtrl = "open" /\ joinPC = "select"

Add(i) ==
  /\ Listening
  /\ in' = Append(in, i)
  /\ UNCHANGED <<inputVars, joinCtrl, enable, joinPC, held, outVars>>

\* Remove: the first entry of the stream is taken out; the stream is not closed.
RemoveStream(i) ==
  /\ Listening
  /\ \E n \in DOMAIN in :
       /\ in[n] = i
       /\ \A m \in 1 .. n - 1 : in[m] # i
       /\ in' = SubSeq(in, 1, n - 1) \o SubSeq(in, n + 1, Len(in))
  /\ UNCHANGED <<inputVars, joinCtrl, enable, joinPC, held, outVars>>

Switch(on) ==
  /\ Listening
  /\ enable' = on
  /\ UNCHANGED <<inputVars, joinCtrl, in, joinPC, held, outVars>>

Close ==
  /\ joinCtrl = "open"
  /\ joinCtrl' = "closed"
  /\ UNCHANGED <<inputVars, loopVars, outVars>>

-----------------------------------------------------------------------------
(* loop *)

\* With a bug: the inputs are not told.
LoopControlClosedAlone ==
  /\ joinPC = "select"
  /\ joinCtrl = "closed"
  /\ joinCtrl' = "nil"
  /\ UNCHANGED <<inputVars, loopVars, outVars>>

\* The control channel is closed: the inputs are told to stop.
LoopControlClosed ==
  /\ joinPC = "select"
  /\ joinCtrl = "closed"
  /\ joinCtrl' = "nil"
  /\ inCtrl' = [i \in DOMAIN inCtrl |-> inCtrl[i] /\ \A n \in DOMAIN in : in[n] # i]
  /\ UNCHANGED <<inData, inOpen, loopVars, outVars>>

\* With a bug: an element is received while another waits to be sent.
LoopReceiveAlways(n) ==
  LET i == in[n]
  IN  /\ joinPC # "done"
      /\ enable
      /\ inData[i] # <<>>
      /\ held' = Head(inData[i])
      /\ inData' = [inData EXCEPT ![i] = Tail(@)]
      /\ joinPC' = "send"
      /\ UNCHANGED <<inOpen, inCtrl, joinCtrl, enable, in, outVars>>

LoopReceive(n) ==
  LET i == in[n]
  IN  /\ joinPC = "select"
      /\ enable
      /\ inData[i] # <<>>
      /\ held' = Head(inData[i])
      /\ inData' = [inData EXCEPT ![i] = Tail(@)]
      /\ joinPC' = "send"
      /\ UNCHANGED <<inOpen, inCtrl, joinCtrl, enable, in, outVars>>

\* j.data <- elem: nothing else happens until there is room.
LoopSend ==
  /\ joinPC = "send"
  /\ Len(outData) < JoinCap
  /\ outData' = Append(outData, held)
  /\ held' = <<>>
  /\ joinPC' = "select"
  /\ UNCHANGED <<inputVars, joinCtrl, enable, in, outOpen>>

\* With a bug: an input that ended is selected from again.
LoopInputClosedStays(n) ==
  /\ joinPC = "select"
  /\ enable
  /\ inData[in[n]] = <<>>
  /\ ~inOpen[in[n]]
  /\ UNCHANGED <<inputVars, joinVars>>

\* An input ended.
LoopInputClosed(n) ==
  /\ joinPC = "select"
  /\ enable
  /\ inData[in[n]] = <<>>
  /\ ~inOpen[in[n]]
  /\ in' = SubSeq(in, 1, n - 1) \o SubSeq(in, n + 1, Len(in))
  /\ UNCHANGED <<inputVars, joinCtrl, enable, joinPC, held, outVars>>

\* With a bug: the loop ends when the control channel does.
LoopDoneEarly ==
  /\ joinPC = "select"
  /\ joinCtrl = "nil"
  /\ joinPC' = "done"
  /\ outOpen' = FALSE
  /\ UNCHANGED <<inputVars, joinCtrl, enable, in, held, outData>>

\* No case is left to select from.
LoopDone ==
  /\ joinPC = "select"
  /\ joinCtrl = "nil"
  /\ enable => in = <<>>
  /\ joinPC' = "done"
  /\ outOpen' = FALSE
  /\ UNCHANGED <<inputVars, joinCtrl, enable, in, held, outData>>

Loop ==
  \/ LoopControlClosed
  \/ \E n \in DOMAIN in : LoopReceive(n) \/ LoopInputClosed(n)
  \/ LoopSend
  \/ LoopDone

-----------------------------------------------------------------------------
\* The consumer of the joined stream.
Take ==
  /\ outData # <<>>
  /\ outData' = Tail(outData)
  /\ UNCHANGED <<inputVars, joinCtrl, loopVars, outOpen>>
=============================================================================
