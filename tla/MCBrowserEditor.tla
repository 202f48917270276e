-------------------------- MODULE MCBrowserEditor --------------------------
(* Instances of BrowserEditor for TLC. *)
EXTENDS BrowserEditor, TLC

Symmetry == Permutations(Nodes)
=============================================================================
