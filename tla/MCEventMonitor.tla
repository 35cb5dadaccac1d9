--------------------------- MODULE MCEventMonitor ---------------------------
(* Instances of EventMonitor for TLC. *)
EXTENDS EventMonitor, TLC

\* Descriptors are alike, and so are groups.
Symmetry == Permutations(Fds) \cup Permutations(Groups)
=============================================================================
