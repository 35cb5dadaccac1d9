--------------------------- MODULE JoinedStreams ---------------------------
(***************************************************************************)
(* A joiner with its inputs, its callers and its consumer: what comes out  *)
(* is a Merge of what the inputs put in.                                   *)
(*                                                                         *)
(* An input is a stream as pkg/stream has them: it puts elements into its  *)
(* data channel, and closes it some time after its control channel was     *)
(* closed, or on its own when it comes to its end.                         *)
(***************************************************************************)
EXTENDS Joiner

CONSTANTS MaxElements   \* bound: elements each input produces

ASSUME MaxElementsIsNat == MaxElements \in Nat

VARIABLES
  \* history
  produced,   \* how many elements each input has produced
  emitted,    \* what the joiner has sent
  sent,       \* how many elements of each input these are
  joined      \* the inputs that were added and not removed

history == <<produced, emitted, sent, joined>>
vars == <<inputVars, joinVars, history>>

Init ==
  /\ inData = [i \in Inputs |-> <<>>]
  /\ inOpen = [i \in Inputs |-> TRUE]
  /\ inCtrl = [i \in Inputs |-> TRUE]
  /\ JoinInit
  /\ produced = [i \in Inputs |-> 0]
  /\ emitted = <<>>
  /\ sent = [i \in Inputs |-> 0]
  /\ joined = {}

-----------------------------------------------------------------------------
Produce(i) ==
  /\ inOpen[i]
  /\ produced[i] < MaxElements
  /\ Len(inData[i]) < JoinCap
  /\ produced' = [produced EXCEPT ![i] = @ + 1]
  /\ inData' = [inData EXCEPT ![i] = Append(@, <<i, produced[i] + 1>>)]
  /\ UNCHANGED <<inOpen, inCtrl, joinVars, emitted, sent, joined>>

EndInput(i) ==
  /\ inOpen[i]
  /\ inOpen' = [inOpen EXCEPT ![i] = FALSE]
  /\ UNCHANGED <<inData, inCtrl, joinVars, history>>

\* The callers of the joiner add a stream once.
AddInput(i) ==
  /\ ~\E n \in DOMAIN in : in[n] = i
  /\ inCtrl[i]
  /\ Add(i)
  /\ joined' = joined \cup {i}
  /\ UNCHANGED <<produced, emitted, sent>>

RemoveInput(i) ==
  /\ RemoveStream(i)
  /\ joined' = joined \ {i}
  /\ UNCHANGED <<produced, emitted, sent>>

Callers ==
  \/ \E i \in Inputs : AddInput(i) \/ RemoveInput(i)
  \/ \E on \in BOOLEAN : Switch(on) /\ UNCHANGED history
  \/ Close /\ UNCHANGED history

JoinerStep ==
  \/ Loop /\ ~LoopSend /\ UNCHANGED history
  \/ /\ LoopSend
     /\ emitted' = Append(emitted, held)
     /\ sent' = [sent EXCEPT ![held[1]] = @ + 1]
     /\ UNCHANGED <<produced, joined>>

Consume == Take /\ UNCHANGED history

Next ==
  \/ \E i \in Inputs : Produce(i) \/ EndInput(i)
  \/ Callers
  \/ JoinerStep
  \/ Consume

Spec == Init /\ [][Next]_vars

\* The loop runs, and its select does not pass over a ready case for ever; the
\* consumer receives; an input that is told to stop does.
FairSpec ==
  /\ Spec
  /\ WF_vars(JoinerStep)
  /\ SF_vars(LoopControlClosed /\ UNCHANGED history)
  /\ WF_vars(Consume)
  /\ \A i \in Inputs : WF_vars(~inCtrl[i] /\ EndInput(i))

-----------------------------------------------------------------------------
(* Properties *)

Element == Inputs \X (1 .. MaxElements)

FlagTypeOK ==
  /\ inOpen \in [Inputs -> BOOLEAN]
  /\ inCtrl \in [Inputs -> BOOLEAN]
  /\ enable \in BOOLEAN
  /\ outOpen \in BOOLEAN

ElementTypeOK ==
  /\ inData \in [Inputs -> Seq(Element)]
  /\ joinCtrl \in {"open", "closed", "nil"}
  /\ joinPC \in {"select", "send", "done"}
  /\ in \in Seq(Inputs)
  /\ joinPC = "send" => held \in Element
  /\ outData \in Seq(Element) /\ Len(outData) <= JoinCap
  /\ produced \in [Inputs -> 0 .. MaxElements]
  /\ emitted \in Seq(Element)
  /\ sent \in [Inputs -> Nat]
  /\ joined \subseteq Inputs

TypeOK == FlagTypeOK /\ ElementTypeOK

\* The joiner implements Merge: whatever streams are added and removed, and
\* however it is switched, nothing of an input is lost on the way, repeated or
\* put before what came earlier, and nothing follows the end.
Merged == INSTANCE Merge WITH
            Sources <- Inputs,
            merged  <- emitted,
            taken   <- sent,
            ended   <- ~outOpen

ImplementsMerge == Merged!MergeSpec

\* A joiner that was on when it was closed ends when it has forwarded all that
\* its inputs produced: none of them still has an element, or will have one.
ClosedIsDrained ==
  ~outOpen /\ enable =>
    \A i \in joined : ~inOpen[i] /\ produced[i] = sent[i]

\* A joiner that is closed tells every stream it holds to stop, and then ends.
CloseEnds ==
  joinCtrl = "closed" ~> ~outOpen /\ \A i \in joined : inCtrl[i] => ~inOpen[i]
=============================================================================
