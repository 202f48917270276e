------------------------- MODULE MCManualButtons -------------------------
(* An instance of ManualButtons for TLC. *)
EXTENDS ManualButtons, TLC

CONSTANTS a, b, x, y

Symmetry == Permutations({a, b}) \cup Permutations({x, y})
=============================================================================
