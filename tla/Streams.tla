------------------------------ MODULE Streams ------------------------------
(***************************************************************************)
(* The streams of pkg/stream: a generator, operators and terminators, each *)
(* a goroutine that receives from channels, and sends to channels, of Go.  *)
(* With them the repeater, which hands one stream to subscribers that come *)
(* and go, and the ticker and chargen sources of pkg/sensor, which wrap a  *)
(* generator.  The joiner is here as a subscription uses it once it is     *)
(* switched on; its control messages are in Joiner.                        *)
(*                                                                         *)
(* A program is a graph of stages, one of Graphs, numbered from upstream   *)
(* to downstream.  A stage has a kind, the channels it reads and writes,   *)
(* and the arguments of its constructor: a number n (a count, a limit, a   *)
(* size or a length) and the set `keep' of numbers its function accepts.   *)
(* An element is the generator it comes from and its number there.         *)
(***************************************************************************)
EXTENDS Integers, Sequences, FiniteSets, SequencesExt

CONSTANTS
  Graphs,      \* the programs: sequences of stages
  BufferCap    \* config.Sensor.ChannelBufferLength

Generators  == {"null", "chargen", "iota", "ticker"}
Sources     == {"tickerSource", "chargenSource"}
Operators   == {"do", "map", "filter", "split", "tee", "copy", "buffer",
                "overflow", "valve", "throttle", "limit"}
Mergers     == {"join", "joiner"}
Terminators == {"reduce", "forEach", "wait", "subscriber"}
Kinds       == Generators \cup Sources \cup Operators \cup Mergers \cup Terminators \cup {"repeater"}

StageType == [kind : Kinds, in : Seq(Nat \ {0}), out : Seq(Nat \ {0}), n : Nat, keep : SUBSET Int]

\* What can be built from the constructors: a stage is given streams that there
\* are already, each of them is read by one stage, each output is a channel of
\* its own, and a source wraps a generator of its own.
Wired(g) ==
  LET reads(s)  == ToSet(g[s].in)
      writes(s) == ToSet(g[s].out)
      kind(s)   == g[s].kind
  IN /\ g \in Seq(StageType)
     /\ \A s \in DOMAIN g :
          /\ \A c \in reads(s) : \E t \in DOMAIN g : t < s /\ c \in writes(t)
          /\ \A c \in writes(s) : \E t \in DOMAIN g : s < t /\ c \in reads(t)
          /\ \A t \in DOMAIN g \ {s} : reads(s) \cap reads(t) = {} /\ writes(s) \cap writes(t) = {}
          /\ IsInjective(g[s].out)
          /\ kind(s) \in Generators => g[s].in = <<>>
          /\ kind(s) \in Sources \cup Operators \cup Terminators \cup {"repeater"} => Len(g[s].in) = 1
          /\ kind(s) = "join" => g[s].in # <<>>
          /\ kind(s) \in Terminators => g[s].out = <<>>
          /\ kind(s) = "split" => Len(g[s].out) = 2
          /\ kind(s) \in {"tee", "copy"} => g[s].out # <<>>
          /\ kind(s) \notin Terminators \cup {"split", "tee", "copy", "repeater"} => Len(g[s].out) = 1
          /\ kind(s) \in Sources =>
               \A t \in DOMAIN g : writes(t) \cap reads(s) # {} => kind(t) \in Generators

ASSUME BufferCapIsPositive == BufferCap \in Nat \ {0}
ASSUME ProgramsAreWired == \A g \in Graphs : Wired(g)

VARIABLES
  graph,       \* the program
  stage,       \* stage :> its goroutine
  buf,         \* channel :> what is in it
  chan,        \* channel :> "new", "open" or "closed"
  closedCtrl,  \* the control channels that are closed
  since,       \* child of a repeater :> what the repeater had taken before
  got,         \* terminator :> what it has received
  relayed,     \* the control channels that stages have closed
  panicked     \* one was closed that was closed already

programVars == <<graph, stage, buf, chan, closedCtrl, since, got>>
allVars     == <<programVars, relayed, panicked>>

-----------------------------------------------------------------------------
Stages   == DOMAIN graph
Kind(s)  == graph[s].kind
In(s)    == ToSet(graph[s].in)
Out(s)   == ToSet(graph[s].out)
Channels == UNION {Out(s) : s \in Stages}

Producer(c) == CHOOSE s \in Stages : c \in Out(s)
Reader(c)   == CHOOSE s \in Stages : c \in In(s)

\* The capacity each constructor gives its data channels.
Capacity(c) ==
  LET s == Producer(c)
  IN CASE Kind(s) = "buffer" -> graph[s].n
       [] Kind(s) \in {"overflow", "valve", "throttle", "limit", "repeater"} \cup Sources -> 0
       [] OTHER -> BufferCap

\* The control channel of the stream that channel c is the data of: an operator
\* shares the one of its input; others have one of their own, named like the
\* data channel.  A repeater has another one for itself.
CtrlOf(c) ==
  LET ctrl[d \in Channels] == LET s == Producer(d)
                              IN IF Kind(s) \in Operators THEN ctrl[graph[s].in[1]] ELSE d
  IN ctrl[c]
RepeaterCtrl(s) == -s

ProgramInit ==
  /\ graph \in Graphs
  /\ stage = [s \in Stages |->
       [pc |-> "run", todo |-> <<>>, count |-> 0, on |-> FALSE, active |-> In(s), ctrl |-> TRUE]]
  /\ buf = [c \in Channels |-> <<>>]
  /\ chan = [c \in Channels |-> IF Kind(Producer(c)) = "repeater" THEN "new" ELSE "open"]
  /\ closedCtrl = {}
  /\ since = [c \in Channels |-> 0]
  /\ got = [s \in Stages |-> <<>>]
  /\ relayed = {}
  /\ panicked = FALSE

-----------------------------------------------------------------------------
(* What a stage does with an element: what it then has to send, in order.   *)

To(c, e) == <<c, e>>
Children(s) == {c \in Out(s) : chan[c] = "open"}

\* Mutant: only the first stream is sent to.
FirstCopy(s, e) == <<To(graph[s].out[1], e)>>

\* Tee and Copy: one stream after the other.
Copies(s, e) == [i \in DOMAIN graph[s].out |-> To(graph[s].out[i], e)]

\* Mutant: the line is sent before its last character has come.
LineIsFullEarly(s) == stage[s].count % graph[s].n = 0

\* emitNextEvent: a chargen event has as many characters as was asked for.
LineIsFull(s) == (stage[s].count + 1) % graph[s].n = 0

\* Map sends what its function returns, here the negative of the number.
Mapped(s, e) == <<To(graph[s].out[1], [e EXCEPT !.n = -@])>>

\* Filter sends the element when its function accepts it; Split sends it one way
\* or the other.
Filtered(s, e) == IF e.n \in graph[s].keep THEN <<To(graph[s].out[1], e)>> ELSE <<>>
SplitTo(s, e)  == <<To(graph[s].out[IF e.n \in graph[s].keep THEN 1 ELSE 2], e)>>

\* dataHandler of the repeater: to every child there is.
ToChildren(s, e) ==
  LET children == SetToSeq(Children(s)) IN [i \in DOMAIN children |-> To(children[i], e)]

TodoOf(s, e) ==
  CASE Kind(s) \in {"do", "buffer", "overflow", "valve", "throttle", "limit", "tickerSource"} \cup Mergers ->
         <<To(graph[s].out[1], e)>>
    [] Kind(s) = "map"             -> Mapped(s, e)
    [] Kind(s) = "filter"          -> Filtered(s, e)
    [] Kind(s) = "split"           -> SplitTo(s, e)
    [] Kind(s) \in {"tee", "copy"} -> Copies(s, e)
    [] Kind(s) = "chargenSource"   -> IF LineIsFull(s) THEN <<To(graph[s].out[1], e)>> ELSE <<>>
    [] Kind(s) = "repeater"        -> ToChildren(s, e)
    [] OTHER                       -> <<>>

\* Stage s after it has received e.
Taken(s, e) == [stage[s] EXCEPT !.todo = TodoOf(s, e), !.count = @ + 1]
Noted(s, e) == IF Kind(s) \in Terminators THEN [got EXCEPT ![s] = Append(@, e)] ELSE got

AtSelect(s) == stage[s].pc = "run" /\ stage[s].todo = <<>>

\* Stage s is waiting to receive from channel c.
Ready(s, c) ==
  /\ AtSelect(s)
  /\ c \in stage[s].active
  /\ chan[c] # "new"
  /\ Kind(s) = "valve" => stage[s].on
  /\ Kind(s) = "limit" => stage[s].count < graph[s].n

\* Stage s returns, with what it closes.
Return(s, closes) ==
  /\ stage' = [stage EXCEPT ![s].pc = "done", ![s].todo = <<>>]
  /\ chan' = [c \in Channels |-> IF c \in closes THEN "closed" ELSE chan[c]]

-----------------------------------------------------------------------------
(* Sending and receiving.  *)

\* What a stage may send next: a repeater to whichever child is ready first.
Next1(s) == IF Kind(s) = "repeater" THEN DOMAIN stage[s].todo ELSE {1} \cap DOMAIN stage[s].todo

CanSend(s, i) ==
  LET c == stage[s].todo[i][1] IN Capacity(c) > 0 /\ Len(buf[c]) < Capacity(c)
Send(s) ==
  \E i \in Next1(s) :
     LET c == stage[s].todo[i][1]
     IN /\ CanSend(s, i)
        /\ buf' = [buf EXCEPT ![c] = Append(@, stage[s].todo[i][2])]
        /\ stage' = [stage EXCEPT ![s].todo = RemoveAt(@, i)]
        /\ UNCHANGED <<graph, chan, closedCtrl, since, got>>

\* A channel without a buffer: both sides at once.
CanHandOver(s, i) ==
  LET c == stage[s].todo[i][1] IN Capacity(c) = 0 /\ Ready(Reader(c), c)
HandOver(s) ==
  \E i \in Next1(s) :
     LET c == stage[s].todo[i][1]
         e == stage[s].todo[i][2]
         r == Reader(c)
     IN /\ CanHandOver(s, i)
        /\ stage' = [stage EXCEPT ![s].todo = RemoveAt(@, i), ![r] = Taken(r, e)]
        /\ got' = Noted(r, e)
        /\ UNCHANGED <<graph, buf, chan, closedCtrl, since>>

\* Overflow: nobody is waiting to receive.
CanDrop(s) ==
  /\ Kind(s) = "overflow"
  /\ stage[s].todo # <<>>
  /\ ~CanHandOver(s, 1)
Drop(s) ==
  /\ CanDrop(s)
  /\ stage' = [stage EXCEPT ![s].todo = <<>>]
  /\ UNCHANGED <<graph, buf, chan, closedCtrl, since, got>>

CanReceive(s, c) == Ready(s, c) /\ buf[c] # <<>>
Receive(s, c) ==
  /\ CanReceive(s, c)
  /\ buf' = [buf EXCEPT ![c] = Tail(@)]
  /\ stage' = [stage EXCEPT ![s] = Taken(s, Head(buf[c]))]
  /\ got' = Noted(s, Head(buf[c]))
  /\ UNCHANGED <<graph, chan, closedCtrl, since>>

-----------------------------------------------------------------------------
(* Generators *)

\* Chargen sends only when it has seen its control channel open.
CanGenerate(s) ==
  /\ Kind(s) \in Generators \ {"null"}
  /\ AtSelect(s)
  /\ stage[s].count < graph[s].n
  /\ Kind(s) = "chargen" => graph[s].out[1] \notin closedCtrl
Generate(s) ==
  /\ CanGenerate(s)
  /\ stage' = [stage EXCEPT ![s].todo = <<To(graph[s].out[1], [gen |-> s, n |-> stage[s].count + 1])>>,
                            ![s].count = @ + 1]
  /\ UNCHANGED <<graph, buf, chan, closedCtrl, since, got>>

\* Iota returns when it has sent its last number, and while it waits to send
\* when it is told to stop; the others, once they wait to send, do not look.
CanStop(s) ==
  \/ /\ Kind(s) \in Generators
     /\ graph[s].out[1] \in closedCtrl
     /\ stage[s].pc = "run"
     /\ stage[s].todo = <<>> \/ Kind(s) = "iota"
  \/ /\ Kind(s) = "iota"
     /\ AtSelect(s)
     /\ stage[s].count = graph[s].n
Stop(s) ==
  /\ CanStop(s)
  /\ Return(s, Out(s))
  /\ UNCHANGED <<graph, buf, closedCtrl, since, got>>

\* A source is told to stop.  It does not tell the generator it wraps.
CanStopSource(s) ==
  Kind(s) \in Sources /\ AtSelect(s) /\ graph[s].out[1] \in closedCtrl
StopSource(s) ==
  /\ CanStopSource(s)
  /\ Return(s, Out(s))
  /\ UNCHANGED <<graph, buf, closedCtrl, since, got>>

-----------------------------------------------------------------------------
(* The end of an input.  *)

\* Operators and terminators return, and close what they send to.
CanEnd(s) ==
  /\ Kind(s) \in Operators \cup Terminators
  /\ \E c \in In(s) : Ready(s, c) /\ buf[c] = <<>> /\ chan[c] = "closed"
End(s) ==
  /\ CanEnd(s)
  /\ Return(s, Out(s))
  /\ UNCHANGED <<graph, buf, closedCtrl, since, got>>

\* Limit has sent its last element: what it reads from is left as it is.
CanReachLimit(s) == Kind(s) = "limit" /\ AtSelect(s) /\ stage[s].count >= graph[s].n
ReachLimit(s) ==
  /\ CanReachLimit(s)
  /\ Return(s, Out(s))
  /\ UNCHANGED <<graph, buf, closedCtrl, since, got>>

\* Join and the joiner stop looking at the input; Join returns after the last
\* one, the joiner only once it has been told to stop, too.
CanDropInput(s, c) == Kind(s) \in Mergers /\ Ready(s, c) /\ buf[c] = <<>> /\ chan[c] = "closed"
DropInput(s, c) ==
  LET left == stage[s].active \ {c}
      end  == left = {} /\ (Kind(s) = "join" \/ ~stage[s].ctrl)
  IN /\ CanDropInput(s, c)
     /\ stage' = [stage EXCEPT ![s].active = left, ![s].pc = IF end THEN "done" ELSE @]
     /\ chan' = [d \in Channels |-> IF end /\ d \in Out(s) THEN "closed" ELSE chan[d]]
     /\ UNCHANGED <<graph, buf, closedCtrl, since, got>>

\* A stage closes the control channels of the streams it reads from channels cs:
\* those of streams that share one are one channel.
Ctrls(cs) == {CtrlOf(c) : c \in cs}
CloseInputs(cs) ==
  /\ closedCtrl' = closedCtrl \cup Ctrls(cs)
  /\ relayed' = relayed \cup Ctrls(cs)

\* One of them is closed already, or twice.
ClosesTwice(cs) ==
  \/ Ctrls(cs) \cap closedCtrl # {}
  \/ \E c, d \in cs : c # d /\ CtrlOf(c) = CtrlOf(d)

\* The inputs a merger tells to stop: Join all of them, the joiner those it has.
ToldInputs(s) == IF Kind(s) = "join" THEN In(s) ELSE stage[s].active

CanRelayStop(s) ==
  Kind(s) \in Mergers /\ AtSelect(s) /\ stage[s].ctrl /\ graph[s].out[1] \in closedCtrl

\* Mutant: the inputs are not told.
RelayStopAlone(s) ==
  LET end == Kind(s) = "joiner" /\ stage[s].active = {}
  IN /\ CanRelayStop(s)
     /\ stage' = [stage EXCEPT ![s].ctrl = FALSE, ![s].pc = IF end THEN "done" ELSE @]
     /\ chan' = [d \in Channels |-> IF end /\ d \in Out(s) THEN "closed" ELSE chan[d]]
     /\ UNCHANGED <<graph, buf, closedCtrl, since, got, relayed>>

\* Mutant: the joiner returns at once, though its inputs may yet have elements.
RelayStopAtOnce(s) ==
  LET end == Kind(s) = "joiner"
  IN /\ CanRelayStop(s)
     /\ ~ClosesTwice(ToldInputs(s))
     /\ CloseInputs(ToldInputs(s))
     /\ stage' = [stage EXCEPT ![s].ctrl = FALSE, ![s].pc = IF end THEN "done" ELSE @]
     /\ chan' = [d \in Channels |-> IF end /\ d \in Out(s) THEN "closed" ELSE chan[d]]
     /\ UNCHANGED <<graph, buf, since, got>>

\* ... and when they are told to stop they tell their inputs.
RelayStop(s) ==
  LET end == Kind(s) = "joiner" /\ stage[s].active = {}
  IN /\ CanRelayStop(s)
     /\ ~ClosesTwice(ToldInputs(s))
     /\ CloseInputs(ToldInputs(s))
     /\ stage' = [stage EXCEPT ![s].ctrl = FALSE, ![s].pc = IF end THEN "done" ELSE @]
     /\ chan' = [d \in Channels |-> IF end /\ d \in Out(s) THEN "closed" ELSE chan[d]]
     /\ UNCHANGED <<graph, buf, since, got>>

-----------------------------------------------------------------------------
(* The repeater *)

\* NewStream: a child is added.
AddChild(s, c) ==
  /\ Kind(s) = "repeater" /\ AtSelect(s) /\ stage[s].ctrl /\ RepeaterCtrl(s) \notin closedCtrl
  /\ chan[c] = "new"
  /\ chan' = [chan EXCEPT ![c] = "open"]
  /\ since' = [since EXCEPT ![c] = stage[s].count]
  /\ UNCHANGED <<graph, stage, buf, closedCtrl, got>>

\* The control channel of a child is closed: the child ends.
CanRemoveChild(s, c) ==
  Kind(s) = "repeater" /\ AtSelect(s) /\ chan[c] = "open" /\ c \in closedCtrl
RemoveChild(s, c) ==
  /\ CanRemoveChild(s, c)
  /\ chan' = [chan EXCEPT ![c] = "closed"]
  /\ UNCHANGED <<graph, stage, buf, closedCtrl, since, got>>

\* Its own control channel: the input is told to stop.
CanCloseRepeater(s) ==
  Kind(s) = "repeater" /\ AtSelect(s) /\ stage[s].ctrl /\ RepeaterCtrl(s) \in closedCtrl
CloseRepeater(s) ==
  /\ CanCloseRepeater(s)
  /\ ~ClosesTwice(In(s))
  /\ CloseInputs(In(s))
  /\ stage' = [stage EXCEPT ![s].ctrl = FALSE]
  /\ UNCHANGED <<graph, buf, chan, since, got>>

\* The input has ended: so do all children.
CanEndChildren(s) ==
  Kind(s) = "repeater" /\ \E c \in In(s) : Ready(s, c) /\ buf[c] = <<>> /\ chan[c] = "closed"
EndChildren(s) ==
  /\ CanEndChildren(s)
  /\ stage' = [stage EXCEPT ![s].active = {}]
  /\ chan' = [c \in Channels |-> IF c \in Children(s) THEN "closed" ELSE chan[c]]
  /\ UNCHANGED <<graph, buf, closedCtrl, since, got>>

CanLeaveLoop(s) ==
  Kind(s) = "repeater" /\ AtSelect(s) /\ ~stage[s].ctrl /\ stage[s].active = {} /\ Children(s) = {}
LeaveLoop(s) ==
  /\ CanLeaveLoop(s)
  /\ Return(s, {})
  /\ UNCHANGED <<graph, buf, closedCtrl, since, got>>

-----------------------------------------------------------------------------
(* The owners of the streams: they close each control channel once.         *)

Closable ==
  {CtrlOf(graph[s].in[1]) : s \in {t \in Stages : Kind(t) \in Terminators}} \cup
  {RepeaterCtrl(s) : s \in {t \in Stages : Kind(t) = "repeater"}}

\* The stages that a stage feeds, through streams there are.
Downstream(s) ==
  LET down[t \in Stages] == {t} \cup UNION {down[Reader(c)] : c \in {d \in Out(t) : chan[d] # "new"}}
  IN down[s]

\* A stage that would read from a child nobody has asked for does not exist yet.
Missing(s) == \E c \in Channels : chan[c] = "new" /\ s \in Downstream(Reader(c))

CanCloseCtrl(k) == k > 0 => chan[k] # "new" /\ ~Missing(Producer(k))

CloseCtrl(k) ==
  /\ k \in Closable \ closedCtrl
  /\ CanCloseCtrl(k)
  /\ closedCtrl' = closedCtrl \cup {k}
  /\ UNCHANGED <<graph, stage, buf, chan, since, got>>

\* The valve is turned: it is off at first.
Turn(s, on) ==
  /\ Kind(s) = "valve" /\ AtSelect(s) /\ stage[s].on # on
  /\ stage' = [stage EXCEPT ![s].on = on]
  /\ UNCHANGED <<graph, buf, chan, closedCtrl, since, got>>

\* A subscriber stops reading before the end.
Leave(s) ==
  /\ Kind(s) = "subscriber" /\ AtSelect(s)
  /\ stage' = [stage EXCEPT ![s].pc = "left"]
  /\ UNCHANGED <<graph, buf, chan, closedCtrl, since, got>>

-----------------------------------------------------------------------------
(* Closing a control channel that is closed panics, and ends the program as *)
(* it is: a stage does it when its inputs share one, or when that of a       *)
(* stream it reads was closed for the sake of another one; an owner when a   *)
(* stage has been there first.                                               *)

RelayPanics(s)    == CanRelayStop(s) /\ ClosesTwice(ToldInputs(s))
RepeaterPanics(s) == CanCloseRepeater(s) /\ ClosesTwice(In(s))
OwnerPanics(k)    == k \in Closable \cap relayed /\ CanCloseCtrl(k)

Panic ==
  /\ (\E s \in Stages : RelayPanics(s) \/ RepeaterPanics(s)) \/ (\E k \in Closable : OwnerPanics(k))
  /\ panicked' = TRUE
  /\ UNCHANGED <<programVars, relayed>>

-----------------------------------------------------------------------------
GoOn(s) ==
  \/ Send(s) \/ HandOver(s) \/ Drop(s) \/ \E c \in In(s) : Receive(s, c) \/ DropInput(s, c)
  \/ Generate(s) \/ Stop(s) \/ StopSource(s) \/ End(s) \/ ReachLimit(s)
  \/ EndChildren(s) \/ LeaveLoop(s) \/ \E c \in Out(s) : RemoveChild(s, c)

StageStep(s) ==
  \/ GoOn(s) /\ UNCHANGED relayed
  \/ RelayStop(s) \/ CloseRepeater(s)

OwnerStep ==
  \/ \E k \in Closable : CloseCtrl(k)
  \/ \E s \in Stages : Leave(s) \/ (\E on \in BOOLEAN : Turn(s, on)) \/ \E c \in Out(s) : AddChild(s, c)

Step ==
  \/ OwnerStep /\ UNCHANGED relayed
  \/ \E s \in Stages : StageStep(s)

ProgramNext ==
  /\ ~panicked
  /\ \/ Panic
     \/ Step /\ UNCHANGED panicked

ProgramSpec == ProgramInit /\ [][ProgramNext]_allVars

-----------------------------------------------------------------------------
(* Properties. *)

\* No goroutine of the program can go on by itself.
Quiescent ==
  \A s \in Stages :
     /\ \A i \in Next1(s) : ~CanSend(s, i) /\ ~CanHandOver(s, i)
     /\ \A c \in In(s) : ~CanReceive(s, c) /\ ~CanDropInput(s, c)
     /\ \A c \in Out(s) : ~CanRemoveChild(s, c)
     /\ ~CanDrop(s) /\ ~CanGenerate(s) /\ ~CanStop(s) /\ ~CanStopSource(s) /\ ~CanEnd(s)
     /\ ~CanReachLimit(s) /\ ~CanRelayStop(s)
     /\ ~CanCloseRepeater(s) /\ ~CanEndChildren(s) /\ ~CanLeaveLoop(s)

\* The stages that do not read what they are sent: a subscriber that has left, a
\* Limit that has been reached, a valve that is off.
Deaf == {s \in Stages : \/ stage[s].pc = "left"
                        \/ Kind(s) = "limit" /\ stage[s].pc = "done" /\ stage[s].count >= graph[s].n
                        \/ Kind(s) = "valve" /\ ~stage[s].on}

\* The generator a source wraps.
Wrapped(s) == Kind(s) \in Generators /\ Kind(Reader(graph[s].out[1])) \in Sources

\* Two streams that share a control channel are read by stages that close it, or
\* whose owners do, as two outputs of a Split, a Tee or a Copy can be.
ClosedTwice ==
  \E c, d \in Channels :
     /\ c # d /\ CtrlOf(c) = CtrlOf(d)
     /\ {Kind(Reader(c)), Kind(Reader(d))} \subseteq Mergers \cup Terminators \cup {"repeater"}

\* Closing every stream ends every goroutine, but for what goroutines that do
\* not read hold up: what sends to them, directly or not, and what that sends
\* to besides; and but for the generators in the sources, which nobody tells, and
\* for stages that do not exist yet, or feed one that does not.  Or it panics, in
\* a program in which a control channel is closed for two streams.
EndsWhenClosed ==
  /\ panicked => ClosedTwice
  /\ ~panicked /\ Quiescent /\ (\A k \in Closable : k \in closedCtrl \/ (k > 0 /\ (chan[k] = "new" \/ Missing(Producer(k))))) =>
       \A s \in Stages :
          \/ stage[s].pc # "run"
          \/ Wrapped(s)
          \/ \E u \in Stages : stage[u].pc = "run" /\ s \in Downstream(u) /\ Downstream(u) \cap Deaf # {}
          \/ \E u \in Downstream(s) : Missing(u)

\* What channel c is to carry, of the elements that generator g has made.
Through(s, c, list) ==
  LET kept(e) == e.n \in graph[s].keep
  IN CASE Kind(s) = "map"           -> [i \in DOMAIN list |-> [list[i] EXCEPT !.n = -@]]
       [] Kind(s) = "filter"        -> SelectSeq(list, kept)
       [] Kind(s) = "split"         -> SelectSeq(list, LAMBDA e : kept(e) <=> c = graph[s].out[1])
       [] Kind(s) = "limit"         -> SubSeq(list, 1, IF Len(list) < graph[s].n THEN Len(list) ELSE graph[s].n)
       [] Kind(s) = "chargenSource" -> [i \in 1..(Len(list) \div graph[s].n) |-> list[i * graph[s].n]]
       [] Kind(s) = "repeater"      -> SubSeq(list, since[c] + 1, Len(list))
       [] OTHER                     -> list

Carried(c, g) ==
  LET made == [i \in 1..stage[g].count |-> [gen |-> g, n |-> i]]
      carried[d \in Channels] ==
        LET s == Producer(d)
        IN IF Kind(s) \in Generators THEN IF s = g THEN made ELSE <<>>
           ELSE Through(s, d, FlattenSeq([i \in DOMAIN graph[s].in |-> carried[graph[s].in[i]]]))
  IN carried[c]

\* A valve and an overflow leave things out.
Lossy(s) == \E u \in Stages : s \in Downstream(u) /\ Kind(u) \in {"valve", "overflow"}
GeneratorsOf(s) == {g \in Stages : Kind(g) \in Generators /\ s \in Downstream(g)}
From(list, g) == SelectSeq(list, LAMBDA e : e.gen = g)

IsPartOf(short, long) ==
  /\ ToSet(short) \subseteq ToSet(long)
  /\ \A i, j \in DOMAIN short : i < j => short[i].n < short[j].n

\* Some stage on the way to s joins two streams that come from generator g.
TwoWays(g, s) ==
  \E u \in Stages : /\ s \in Downstream(u)
                    /\ \E c, d \in In(u) : c # d /\ {Producer(c), Producer(d)} \subseteq Downstream(g)

\* A terminator receives, of each generator, what the stages on the way make of
\* its elements, in their order: without a gap, a duplicate or something else's
\* element; a child of a repeater everything since it was added.  Elements that come
\* two ways may change places.
ResultsInOrder ==
  \A s \in Stages : Kind(s) \in Terminators =>
     \A g \in GeneratorsOf(s) :
        LET mine == From(got[s], g)
            all  == Carried(graph[s].in[1], g)
        IN IF TwoWays(g, s) THEN ToBag(mine) \sqsubseteq ToBag(all)
           ELSE IF Lossy(s) THEN IsPartOf(mine, all) ELSE IsPrefix(mine, all)

\* As long as nobody closes a stream or stops reading, everything arrives.
NothingIsLost ==
  Quiescent /\ closedCtrl = {} /\ Deaf = {} =>
    \A s \in Stages : Kind(s) \in Terminators /\ ~Lossy(s) /\ ~Missing(s) =>
       \A g \in GeneratorsOf(s) : ToBag(From(got[s], g)) = ToBag(Carried(graph[s].in[1], g))

\* A subscription to a repeater holds up the others only while it does not read:
\* when the repeater waits for ever, what it waits for is a child whose readers
\* do not read.
OnlyTheDeafHoldUp ==
  Quiescent =>
    \A s \in Stages : Kind(s) = "repeater" =>
       \A i \in DOMAIN stage[s].todo : Downstream(Reader(stage[s].todo[i][1])) \cap Deaf # {}
=============================================================================
