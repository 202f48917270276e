----------------------------- MODULE CreateOnce -----------------------------
(***************************************************************************)
(* What EntityCreateGuard promises: behind a key (an appointment, a note's *)
(* event) at most one entity is ever created in amoCRM, and the receipt    *)
(* learns that entity and no other.  A key whose creation is in doubt may  *)
(* stay without an entity, or with one that its receipt never learns.      *)
(***************************************************************************)
CONSTANTS
  Keys,      \* receipt keys
  Ids,       \* ids amoCRM gives the entities it creates
  None       \* no remote id yet

VARIABLES
  made,      \* <<key, id>> pairs: what amoCRM created
  known      \* [Keys] the receipt's remote_id

vars == <<made, known>>

Init == made = {} /\ known = [k \in Keys |-> None]

\* A POST for the key reaches amoCRM: the first one ever.
Create(k, e) ==
  /\ \A m \in made : m[1] # k /\ m[2] # e
  /\ made' = made \cup {<<k, e>>}
  /\ UNCHANGED known

\* The receipt is acknowledged, by the response or by a later recovery.
Learn(k, e) ==
  /\ <<k, e>> \in made
  /\ known' = [known EXCEPT ![k] = e]
  /\ UNCHANGED made

Next == \E k \in Keys, e \in Ids : Create(k, e) \/ Learn(k, e)

Spec == Init /\ [][Next]_vars
=============================================================================
