--------------------------- MODULE MCLiveCollector ---------------------------
(* Instances of LiveCollector for TLC. *)
EXTENDS LiveCollector, TLC

Symmetry == Permutations(Field) \cup Permutations(Value)

=============================================================================
