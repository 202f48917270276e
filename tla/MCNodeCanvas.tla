---------------------------- MODULE MCNodeCanvas ----------------------------
(* Instances of NodeCanvas for TLC. *)
EXTENDS NodeCanvas, TLC

CONSTANTS s, l, a, m, b

KindOf == [n \in {s, l, a, m, b} |-> CASE n = s -> "start" [] n \in {l, m} -> "loop" [] OTHER -> "plain"]

LoopWithBody ==
  [nodes |-> {s, l, a}, edges |-> {<<s, "output", l>>, <<l, "each", a>>, <<a, "output", l>>}]

Symmetry == Permutations(Pointers)
=============================================================================
