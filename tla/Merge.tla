------------------------------- MODULE Merge -------------------------------
(***************************************************************************)
(* What a joiner promises: one sequence of the elements of several inputs, *)
(* each input's in its order and without gaps, which ends once.            *)
(***************************************************************************)
EXTENDS Naturals, Sequences

CONSTANTS Sources

VARIABLES
  merged,   \* the elements that came out: <<source, number>>
  taken,    \* how many of each source did
  ended

mergeVars == <<merged, taken, ended>>

MergeInit ==
  /\ merged = <<>>
  /\ taken = [i \in Sources |-> 0]
  /\ ended = FALSE

Emit(i) ==
  /\ ~ended
  /\ taken' = [taken EXCEPT ![i] = @ + 1]
  /\ merged' = Append(merged, <<i, taken[i] + 1>>)
  /\ UNCHANGED ended

End ==
  /\ ~ended
  /\ ended' = TRUE
  /\ UNCHANGED <<merged, taken>>

MergeNext == End \/ \E i \in Sources : Emit(i)

MergeSpec == MergeInit /\ [][MergeNext]_mergeVars
=============================================================================
