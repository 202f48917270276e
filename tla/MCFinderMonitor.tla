-------------------------- MODULE MCFinderMonitor --------------------------
(* Instances of FinderMonitor for TLC. *)
EXTENDS FinderMonitor, TLC

CONSTANT Closed  \* ticks outside the working hours

\* The first moment, in working hours for n = 0, at which n working ticks have
\* passed since t.
WorkingDeadline(t, n) ==
  LET Horizon == 3 * (MaxTime + Interval)
      Worked(u) == Cardinality({v \in t..(u - 1) : v \notin Closed})
  IN Earliest({u \in t..Horizon : IF n = 0 THEN u \notin Closed ELSE Worked(u) = n})

Symmetry == Permutations(Executors)
=============================================================================
