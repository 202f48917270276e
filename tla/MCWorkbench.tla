---------------------------- MODULE MCWorkbench ----------------------------
(* Instances of Workbench for TLC. *)
EXTENDS Workbench, TLC

CONSTANTS s, t, l, c, a, b

MCKind == (s :> "start") @@ (t :> "start") @@ (l :> "loop") @@ (c :> "condition")
          @@ (a :> "plain") @@ (b :> "plain")

\* A loop over a condition and an action, which refers to the condition.
MCFirst ==
  [nodes |-> {s, l, c, a},
   edges |-> {<<s, "output", l>>, <<l, "each", c>>, <<c, "yes", a>>,
              <<c, "no", l>>, <<a, "output", l>>}]

MCNode ==
  [n \in Nodes |->
     [type |-> IF Kind[n] = "start" THEN "event" ELSE Kind[n],
      name |-> IF n = t /\ Kind[n] = "start" THEN s ELSE n,
      config |-> [text |-> "v", own |-> FALSE,
                  ref |-> IF n = a THEN c ELSE None]]]

\* Two loops whose bodies share an action.
MCKindLoops == [MCKind EXCEPT ![t] = "loop"]

MCFirstLoops ==
  [nodes |-> {s, l, t, a},
   edges |-> {<<s, "output", l>>, <<l, "each", t>>, <<l, "each", a>>, <<t, "each", a>>,
              <<a, "output", l>>}]
=============================================================================
