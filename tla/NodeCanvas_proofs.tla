------------------------- MODULE NodeCanvas_proofs -------------------------
(***************************************************************************)
(* What holds of the canvas for every graph, any number of pointers and    *)
(* every sequence of gestures, keys and clicks.                            *)
(*                                                                         *)
(* None of the properties is inductive.  The invariant IInv adds what they *)
(* rest on: every document on the stack of undo, the clipboard and what is *)
(* about to be drawn or inserted are well formed (DocInv, ClipInv,         *)
(* OfferInv); placements left for a frame are at places (FrameInv); while  *)
(* no card is on the move the places shown are those stored, for nodes     *)
(* that are gone too, so that a deletion, an undo or a copy cannot bring   *)
(* them apart (PlaceInv); and two gestures have two pointers (HoldInv), so *)
(* that a release, which ends the first gesture that takes the event,      *)
(* leaves none behind.  A step keeps it part by part: the document and     *)
(* what is shown (NextDoc), selections, clipboard and placements           *)
(* (NextCards), gestures (NextGestures).                                   *)
(***************************************************************************)
EXTENDS NodeCanvas, WorkflowGraph_proofs

\* A document whose connections join nodes of it, whose nodes are spent, and that
\* has places for its own nodes only.
Good(u) ==
  {d \in Documents : /\ Joined(d.graph) /\ d.graph.nodes \subseteq u
                     /\ \A n \in Nodes \ d.graph.nodes : d.at[n] = 0}

\* The step of ChangesCanBeUndone.
UndoStep ==
  doc' # doc /\ Len(undoStack') >= Len(undoStack) /\ Cardinality(Changed) <= UndoLimit
    => \E n \in 1..Len(undoStack') :
         /\ n <= 2 \/ n <= Cardinality(Changed)
         /\ undoStack'[Len(undoStack') + 1 - n] = doc

\* Stacks of undo.
Undos(u) == {s \in Seq(Good(u)) : Len(s) <= UndoLimit}

\* Stages that the nodes added or removed account for, or a layout.
Few(stages) == Len(stages) <= 2 \/ Len(stages) <= Cardinality(Changed)

DocInv == used \in SUBSET Nodes /\ doc \in Good(used) /\ undoStack \in Undos(used)

-----------------------------------------------------------------------------
(* Documents.                                                               *)

LEMMA GoodParts ==
  ASSUME NEW u, NEW d \in Good(u)
  PROVE  /\ d \in Documents /\ d.graph \in Graphs /\ d.at \in [Nodes -> Places]
         /\ d.area \in Places \cup {None} /\ Joined(d.graph)
         /\ d.graph.nodes \subseteq u /\ d.graph.nodes \subseteq Nodes
BY DEF Good, Documents, Graphs

\* Identifiers that are spent later do not matter to a document.
LEMMA GoodGrows ==
  ASSUME NEW u, NEW v, u \subseteq v
  PROVE  Good(u) \subseteq Good(v) /\ Undos(u) \subseteq Undos(v)
<1>1. Good(u) \subseteq Good(v)  BY DEF Good
<1> HIDE DEF Good
<1> QED BY <1>1 DEF Undos

LEMMA GraphGood ==
  ASSUME NEW u, NEW d \in Good(u), NEW g \in Graphs, Joined(g), d.graph.nodes \subseteq g.nodes,
         g.nodes \subseteq u
  PROVE  [d EXCEPT !.graph = g] \in Good(u) /\ [d EXCEPT !.graph = g].at = d.at
BY DEF Good, Documents

LEMMA AreaGood ==
  ASSUME NEW u, NEW d \in Good(u), NEW v \in Places \cup {None}
  PROVE  [d EXCEPT !.area = v] \in Good(u) /\ [d EXCEPT !.area = v].at = d.at
BY DEF Good, Documents

LEMMA StoredGood ==
  ASSUME NEW u, NEW d \in Good(u), NEW shown \in [Nodes -> Places]
  PROVE  Stored(d, shown) \in Good(u)
<1> DEFINE at == [n \in Nodes |-> IF n \in d.graph.nodes THEN shown[n] ELSE 0]
<1>1. at \in [Nodes -> Places]  BY DEF Places
<1>2. \A n \in Nodes \ d.graph.nodes : at[n] = 0  OBVIOUS
<1>3. Stored(d, shown) = [d EXCEPT !.at = at]  BY DEF Stored
<1> HIDE DEF at
<1> QED BY <1>1, <1>2, <1>3 DEF Good, Documents

LEMMA RemovedGood ==
  ASSUME NEW u, NEW d \in Good(u), NEW n \in Nodes
  PROVE  Removed(d, n) \in Good(u) /\ Removed(d, n).at = [d.at EXCEPT ![n] = 0]
<1>1. d \in Documents /\ d.graph \in Graphs /\ d.at \in [Nodes -> Places] /\ Joined(d.graph)
      /\ d.graph.nodes \subseteq u
  BY GoodParts
<1> DEFINE g == Without(d.graph, n)
           at == [d.at EXCEPT ![n] = 0]
<1>2. g \in Graphs /\ Joined(g)  BY <1>1, WithoutType, WithoutJoins
<1>3. g.nodes = d.graph.nodes \ {n}  BY DEF Without
<1>4. at \in [Nodes -> Places] /\ \A m \in Nodes : at[m] = IF m = n THEN 0 ELSE d.at[m]
  BY <1>1 DEF Places
<1>5. Removed(d, n) = [d EXCEPT !.graph = g, !.at = at]
  BY <1>1 DEF Removed, Documents
<1> HIDE DEF g, at
<1>6. Removed(d, n) \in Documents /\ Removed(d, n).graph = g /\ Removed(d, n).at = at
  BY <1>1, <1>2, <1>4, <1>5 DEF Documents
<1>7. \A m \in Nodes \ g.nodes : at[m] = 0
  BY <1>3, <1>4 DEF Good
<1> QED BY <1>1, <1>2, <1>3, <1>6, <1>7 DEF Good, at

LEMMA RemovedGraph ==
  ASSUME NEW u, NEW d \in Good(u), NEW n \in Nodes
  PROVE  Removed(d, n).graph.nodes = d.graph.nodes \ {n}
<1>1. Removed(d, n).graph = Without(d.graph, n)  BY DEF Removed, Good, Documents
<1> QED BY <1>1 DEF Without

\* Deletion after deletion: the recursive function of Deletions exists.
LEMMA DeletionsSteps ==
  ASSUME NEW d, NEW S, NEW order \in Seq(S)
  PROVE  \E after :
           /\ after[0] = d
           /\ \A i \in 1..Len(order) : after[i] = Removed(after[i - 1], order[i])
           /\ Deletions(d, order) = [i \in 1..Len(order) |-> after[i]]
<1> DEFINE N == Len(order)
           Runs(f, k) == f = [i \in 0..k |-> IF i = 0 THEN d ELSE Removed(f[i - 1], order[i])]
           T == {k \in Nat : ~\E f : Runs(f, k)}
<1>1. N \in Nat  OBVIOUS
<1>2. T = {}
  <2> SUFFICES ASSUME T # {} PROVE FALSE
    OBVIOUS
  <2>1. PICK k \in T : \A j \in T : k <= j
    <3> HIDE DEF T
    <3>1. T \in SUBSET Nat  BY DEF T
    <3> QED BY <3>1, LeastNumber
  <2>2. k \in Nat /\ ~\E f : Runs(f, k)  OBVIOUS
  <2>3. CASE k = 0
    <3>1. Runs([i \in 0..0 |-> d], 0)  OBVIOUS
    <3> QED BY <2>2, <2>3, <3>1
  <2>4. CASE k # 0
    <3>1. k - 1 \in Nat /\ ~(k - 1 \in T)
      <4> HIDE DEF T
      <4> QED BY <2>1, <2>2, <2>4
    <3>2. PICK f : Runs(f, k - 1)  BY <3>1
    <3> DEFINE h == [i \in 0..k |-> IF i = k THEN Removed(f[k - 1], order[k]) ELSE f[i]]
    <3>3. ASSUME NEW i \in 0..k
          PROVE  h[i] = IF i = 0 THEN d ELSE Removed(h[i - 1], order[i])
      <4>1. CASE i = k
        <5>1. h[i] = Removed(f[k - 1], order[k]) /\ h[k - 1] = f[k - 1]
          BY <2>2, <2>4, <4>1
        <5> QED BY <2>4, <4>1, <5>1
      <4>2. CASE i # k
        <5>1. i \in 0..(k - 1) /\ h[i] = f[i]  BY <2>2, <4>2
        <5>2. f[i] = IF i = 0 THEN d ELSE Removed(f[i - 1], order[i])  BY <3>2, <5>1
        <5>3. i # 0 => h[i - 1] = f[i - 1]  BY <2>2, <4>2
        <5> QED BY <5>1, <5>2, <5>3
      <4> QED BY <4>1, <4>2
    <3>4. h = [i \in 0..k |-> h[i]]  OBVIOUS
    <3> HIDE DEF h
    <3>5. Runs(h, k)  BY <3>3, <3>4
    <3> QED BY <2>2, <3>5
  <2> QED BY <2>3, <2>4
<1>3. PICK f : Runs(f, N)
  BY <1>1, <1>2
<1> DEFINE after == CHOOSE g : Runs(g, N)
<1>4. Deletions(d, order) = [i \in 1..N |-> after[i]]
  BY DEF Deletions
<1>5. Runs(after, N)
  <2> HIDE DEF Runs
  <2> QED BY <1>3
<1> HIDE DEF after
<1>6. after[0] = d /\ \A i \in 1..N : after[i] = Removed(after[i - 1], order[i])
  <2>1. after = [i \in 0..N |-> IF i = 0 THEN d ELSE Removed(after[i - 1], order[i])]
    BY <1>5
  <2> QED BY <1>1, <2>1
<1> QED BY <1>4, <1>6

LEMMA DeletionsGood ==
  ASSUME NEW u, NEW d \in Good(u), NEW order \in Seq(Nodes), order # <<>>
  PROVE  /\ Deletions(d, order) \in Seq(Good(u)) /\ Deletions(d, order) # <<>>
         /\ Len(Deletions(d, order)) = Len(order)
         /\ Last(Deletions(d, order)).graph.nodes \cap Range(order) = {}
         /\ \A n \in Nodes : Last(Deletions(d, order)).at[n] = IF n \in Range(order) THEN 0 ELSE d.at[n]
<1> DEFINE N == Len(order)
           D == Deletions(d, order)
<1>1. N \in Nat \ {0} /\ DOMAIN order = 1..N /\ \A i \in 1..N : order[i] \in Nodes
  OBVIOUS
<1>2. PICK after :
        /\ after[0] = d /\ \A i \in 1..N : after[i] = Removed(after[i - 1], order[i])
        /\ D = [i \in 1..N |-> after[i]]
  <2>1. \E after :
          /\ after[0] = d
          /\ \A i \in 1..Len(order) : after[i] = Removed(after[i - 1], order[i])
          /\ Deletions(d, order) = [i \in 1..Len(order) |-> after[i]]
    BY DeletionsSteps, Zenon
  <2> QED BY <2>1
<1> HIDE DEF D, N
<1> DEFINE Deletes(k) == \A n \in Nodes : after[k].at[n] = IF \E j \in 1..k : order[j] = n THEN 0 ELSE d.at[n]
           Gone(k) == \A j \in 1..k : order[j] \notin after[k].graph.nodes
           Fine(k) == after[k] \in Good(u) /\ Deletes(k) /\ Gone(k)
           T == {k \in Nat : k <= N /\ ~Fine(k)}
<1>3. T = {}
  <2> SUFFICES ASSUME T # {} PROVE FALSE
    OBVIOUS
  <2>1. PICK k \in T : \A j \in T : k <= j
    <3> HIDE DEF T
    <3>1. T \in SUBSET Nat  BY DEF T
    <3> QED BY <3>1, LeastNumber
  <2>2. k \in Nat /\ k <= N /\ ~Fine(k)  OBVIOUS
  <2>3. CASE k = 0
    <3>1. \A j \in 1..k : FALSE  BY <2>3
    <3>2. Fine(k)  BY <1>2, <2>3, <3>1
    <3> HIDE DEF Fine
    <3> QED BY <2>2, <3>2
  <2>4. CASE k # 0
    <3>1. k - 1 \in Nat /\ k - 1 <= N /\ ~(k - 1 \in T) /\ k \in 1..N
      <4> HIDE DEF T
      <4> QED BY <1>1, <2>1, <2>2, <2>4
    <3>2. Fine(k - 1)  BY <3>1
    <3>3. after[k] = Removed(after[k - 1], order[k]) /\ order[k] \in Nodes
      BY <1>1, <1>2, <3>1
    <3>4. /\ after[k] \in Good(u) /\ after[k].at = [after[k - 1].at EXCEPT ![order[k]] = 0]
          /\ after[k].graph.nodes = after[k - 1].graph.nodes \ {order[k]}
      <4>1. after[k - 1] \in Good(u)  BY <3>2
      <4>2. /\ Removed(after[k - 1], order[k]) \in Good(u)
            /\ Removed(after[k - 1], order[k]).at = [after[k - 1].at EXCEPT ![order[k]] = 0]
        BY <3>3, <4>1, RemovedGood, Zenon
      <4>3. Removed(after[k - 1], order[k]).graph.nodes = after[k - 1].graph.nodes \ {order[k]}
        BY <3>3, <4>1, RemovedGraph, Zenon
      <4> QED BY <3>3, <4>2, <4>3, Zenon
    <3>5. after[k - 1].at \in [Nodes -> Places]  BY <3>2, GoodParts
    <3>6. ASSUME NEW n \in Nodes
          PROVE  after[k].at[n] = IF \E j \in 1..k : order[j] = n THEN 0 ELSE d.at[n]
      <4>1. after[k].at[n] = IF n = order[k] THEN 0 ELSE after[k - 1].at[n]
        BY <3>4, <3>5
      <4>2. after[k - 1].at[n] = IF \E j \in 1..(k - 1) : order[j] = n THEN 0 ELSE d.at[n]
        BY <3>2
      <4>3. (\E j \in 1..k : order[j] = n) <=> (n = order[k] \/ \E j \in 1..(k - 1) : order[j] = n)
        <5>1. \A j : j \in 1..k <=> j \in 1..(k - 1) \/ j = k  BY <3>1
        <5> QED BY <5>1
      <4> QED BY <4>1, <4>2, <4>3
    <3>7. Gone(k)
      <4>1. \A j \in 1..k : j = k \/ j \in 1..(k - 1)  BY <3>1
      <4> QED BY <3>2, <3>4, <4>1
    <3>8. Fine(k)  BY <3>4, <3>6, <3>7
    <3> HIDE DEF Fine
    <3> QED BY <2>2, <3>8
  <2> QED BY <2>3, <2>4
<1>4. \A k \in 1..N : Fine(k)
  <2> TAKE k \in 1..N
  <2>1. k \in Nat /\ k <= N  BY <1>1
  <2> QED BY <1>3, <2>1
<1>5. \A i \in 1..N : D[i] = after[i] /\ D[i] \in Good(u)  BY <1>2, <1>4
<1>6. D \in Seq(Good(u)) /\ Len(D) = N
  <2>1. D \in [1..N -> Good(u)]  BY <1>2, <1>5
  <2> HIDE DEF Good
  <2> QED BY <1>1, <2>1
<1>7. Last(D) = after[N] /\ Deletes(N) /\ Gone(N)
  <2>1. N \in 1..N  BY <1>1
  <2> HIDE DEF Deletes, Gone
  <2>2. Deletes(N) /\ Gone(N)  BY <1>4, <2>1
  <2> QED BY <1>5, <1>6, <2>1, <2>2 DEF Last
<1>8. \A n : n \in Range(order) <=> \E j \in 1..N : order[j] = n
  BY <1>1 DEF Range
<1>9. D # <<>>  BY <1>1, <1>6
<1>10. Last(D).graph.nodes \cap Range(order) = {}  BY <1>7, <1>8
<1> QED BY <1>6, <1>7, <1>8, <1>9, <1>10 DEF D, N

\* Copies are added one by one, with the connections among them at last.
LEMMA PastesGood ==
  ASSUME NEW u, doc \in Good(u), NEW clip \in Graphs, Joined(clip), clip.nodes # {},
         NEW fresh \in SUBSET Nodes, NEW f \in Renamings(clip, fresh),
         \A n \in clip.nodes : f[n] \in u
  PROVE  /\ Pastes(clip, f) \in Seq(Good(u)) /\ Pastes(clip, f) # <<>>
         /\ Len(Pastes(clip, f)) = Cardinality(clip.nodes)
         /\ Last(Pastes(clip, f)).at = doc.at
         /\ {f[n] : n \in clip.nodes} \subseteq Last(Pastes(clip, f)).graph.nodes
<1> DEFINE order == SetToSeq(clip.nodes)
           N == Len(order)
           D == Pastes(clip, f)
           Added(i) == {f[order[j]] : j \in 1..i}
           With(i) == [doc EXCEPT !.graph.nodes = @ \cup Added(i)]
           Whole == [doc EXCEPT !.graph = Paste(doc.graph, clip, f)]
<1>1. /\ doc \in Documents /\ doc.graph \in Graphs /\ Joined(doc.graph)
      /\ doc.graph.nodes \subseteq u /\ doc.graph.nodes \subseteq Nodes
  BY GoodParts
<1>2. IsFiniteSet(clip.nodes) /\ clip.nodes \subseteq Nodes
  <2>1. clip.nodes \subseteq Nodes  BY DEF Graphs
  <2> QED BY <2>1, GraphAssumption, FS_Subset
<1>3. order \in Seq(clip.nodes) /\ Range(order) = clip.nodes /\ Len(order) = Cardinality(clip.nodes)
  BY <1>2, SetInOrder
<1>4. N \in Nat \ {0} /\ \A j \in 1..N : order[j] \in clip.nodes
  <2>1. order # <<>>  BY <1>3 DEF Range
  <2> HIDE DEF order
  <2> QED BY <1>3, <2>1
<1>5. f \in [clip.nodes -> Nodes]
  BY DEF Renamings
<1> HIDE DEF order
<1>6. ASSUME NEW i \in 1..N PROVE With(i) \in Good(u)
  <2>1. Added(i) \subseteq Nodes /\ Added(i) \subseteq u
    <3>1. \A j \in 1..i : order[j] \in clip.nodes  BY <1>4
    <3> QED BY <1>5, <3>1
  <2> HIDE DEF Added
  <2> DEFINE g == [doc.graph EXCEPT !.nodes = @ \cup Added(i)]
  <2>2. g \in Graphs /\ g.nodes = doc.graph.nodes \cup Added(i) /\ g.edges = doc.graph.edges
    BY <1>1, <2>1 DEF Graphs
  <2>3. With(i) = [doc EXCEPT !.graph = g]
    BY <1>1 DEF Documents
  <2> HIDE DEF g
  <2>4. Joined(g)  BY <1>1, <2>2 DEF Joined, Joins
  <2> HIDE DEF With
  <2> QED BY <1>1, <2>1, <2>2, <2>3, <2>4, GraphGood
<1>7. /\ Whole \in Good(u) /\ Whole.at = doc.at
      /\ {f[n] : n \in clip.nodes} \subseteq Whole.graph.nodes
  <2> DEFINE g == Paste(doc.graph, clip, f)
  <2>1. g \in Graphs /\ Joined(g)  BY <1>1, <1>5, PasteType, PasteJoins
  <2>2. g.nodes = doc.graph.nodes \cup {f[n] : n \in clip.nodes}  BY DEF Paste
  <2> HIDE DEF g
  <2>3. doc.graph.nodes \subseteq g.nodes /\ g.nodes \subseteq u  BY <1>1, <2>2
  <2>4. [doc EXCEPT !.graph = g].graph = g  BY <1>1 DEF Documents
  <2> QED BY <2>1, <2>2, <2>3, <2>4, GraphGood DEF g
<1>8. D = [i \in 1..N |-> IF i < N THEN With(i) ELSE Whole]
  BY <1>1 DEF Pastes, order, Documents
<1> HIDE DEF With, Whole, D, N
<1>9. D \in [1..N -> Good(u)]  BY <1>6, <1>7, <1>8
<1>10. D \in Seq(Good(u)) /\ Len(D) = N
  <2> HIDE DEF Good
  <2> QED BY <1>4, <1>9
<1>11. N \in 1..N /\ ~(N < N)  BY <1>4
<1>12. Last(D) = Whole  BY <1>8, <1>10, <1>11 DEF Last
<1>13. D # <<>>  BY <1>4, <1>10
<1> QED BY <1>3, <1>7, <1>10, <1>12, <1>13 DEF D, N

-----------------------------------------------------------------------------
(* The stack of undo.                                                       *)

\* What is cut to the limit keeps its latest elements.
LEMMA CappedParts ==
  ASSUME NEW S, NEW stack \in Seq(S)
  PROVE  /\ Capped(stack) \in Seq(S) /\ Len(Capped(stack)) <= UndoLimit
         /\ \A n \in 1..UndoLimit : n <= Len(stack) =>
              /\ n <= Len(Capped(stack))
              /\ Capped(stack)[Len(Capped(stack)) + 1 - n] = stack[Len(stack) + 1 - n]
<1> DEFINE N == Len(stack)
           first == N - UndoLimit + 1
<1>1. N \in Nat /\ UndoLimit \in Nat /\ \A i \in 1..N : stack[i] \in S
  BY CanvasAssumption
<1>2. CASE N > UndoLimit
  <2> DEFINE cut == SubSeq(stack, first, N)
  <2>1. Capped(stack) = cut  BY <1>2 DEF Capped, Latest
  <2>2. first \in Int /\ N \in Int /\ first >= 1 /\ \A i \in first..N : stack[i] \in S
    BY <1>1, <1>2
  <2>3. /\ cut \in Seq(S) /\ Len(cut) = UndoLimit
        /\ \A i \in 1..UndoLimit : cut[i] = stack[first + i - 1]
    BY <1>1, <1>2, <2>2
  <2> HIDE DEF cut
  <2>4. ASSUME NEW n \in 1..UndoLimit
        PROVE  n <= Len(cut) /\ cut[Len(cut) + 1 - n] = stack[N + 1 - n]
    <3>1. n <= UndoLimit /\ UndoLimit + 1 - n \in 1..UndoLimit  BY <1>1
    <3>2. cut[UndoLimit + 1 - n] = stack[first + (UndoLimit + 1 - n) - 1]  BY <2>3, <3>1
    <3>3. first + (UndoLimit + 1 - n) - 1 = N + 1 - n  BY <1>1
    <3> QED BY <2>3, <3>1, <3>2, <3>3
  <2> HIDE DEF first, N
  <2>5. Len(cut) <= UndoLimit  BY <1>1, <2>3
  <2> QED BY <2>1, <2>3, <2>4, <2>5 DEF N
<1>3. CASE ~(N > UndoLimit)
  <2>1. Capped(stack) = stack  BY <1>3 DEF Capped, Latest
  <2> QED BY <1>1, <1>3, <2>1
<1> QED BY <1>2, <1>3

LEMMA ChangedFinite == ASSUME Live \subseteq Nodes, Live' \subseteq Nodes
                       PROVE  IsFiniteSet(Changed) /\ Cardinality(Changed) \in Nat
<1>1. Changed \subseteq Nodes  BY DEF Changed
<1> QED BY <1>1, GraphAssumption, FS_Subset, FS_CardinalityType

\* Through the stages of an operation the document before it stays reachable,
\* unless there are more than the limit.
LEMMA ThroughKeeps ==
  ASSUME NEW u, doc \in Good(u), undoStack \in Undos(u),
         NEW stages \in Seq(Good(u)), stages # <<>>, Few(stages), Through(stages)
  PROVE  doc' \in Good(u) /\ undoStack' \in Undos(u) /\ doc' = Last(stages) /\ UndoStep
<1> HIDE DEF Good
<1> DEFINE pushed == Push(undoStack, doc)
           front == Front(stages)
           stack == pushed \o front
           N == Len(stages)
<1>1. N \in Nat \ {0} /\ \A i \in 1..N : stages[i] \in Good(u)
  OBVIOUS
<1>2. doc' = Last(stages) /\ undoStack' = Capped(stack)
  BY DEF Through
<1>3. doc' \in Good(u)
  <2>1. N \in 1..N  BY <1>1
  <2> QED BY <1>1, <1>2, <2>1 DEF Last
<1>4. front \in Seq(Good(u)) /\ Len(front) = N - 1
  <2>1. 1 \in Int /\ N - 1 \in Int /\ \A i \in 1..(N - 1) : stages[i] \in Good(u)
    BY <1>1
  <2>2. /\ SubSeq(stages, 1, N - 1) \in Seq(Good(u))
        /\ Len(SubSeq(stages, 1, N - 1)) = IF 1 <= N - 1 THEN N - 1 - 1 + 1 ELSE 0
    BY <2>1, SubSeqProperties
  <2>3. \A n \in Nat \ {0} : (IF 1 <= n - 1 THEN n - 1 - 1 + 1 ELSE 0) = n - 1  OBVIOUS
  <2>4. Len(SubSeq(stages, 1, N - 1)) = N - 1
    <3> HIDE DEF N
    <3> QED BY <1>1, <2>2, <2>3
  <2> QED BY <2>2, <2>4 DEF Front
<1>5. pushed \in Seq(Good(u)) /\ Len(pushed) > 0 /\ pushed[Len(pushed)] = doc
  <2>1. undoStack \in Seq(Good(u))  BY DEF Undos
  <2>2. CASE undoStack # <<>> /\ Last(undoStack) = doc
    <3>1. pushed = undoStack  BY <2>2 DEF Push
    <3> QED BY <2>1, <2>2, <3>1 DEF Last
  <2>3. CASE ~(undoStack # <<>> /\ Last(undoStack) = doc)
    <3>1. pushed = Append(undoStack, doc)  BY <2>3 DEF Push
    <3> HIDE DEF pushed
    <3> QED BY <2>1, <3>1
  <2> QED BY <2>2, <2>3
<1> HIDE DEF pushed, front
<1>6. stack \in Seq(Good(u)) /\ Len(stack) = Len(pushed) + (N - 1) /\ stack[Len(pushed)] = doc
  <2>1. stack \in Seq(Good(u)) /\ Len(stack) = Len(pushed) + Len(front)
    BY <1>4, <1>5, ConcatProperties
  <2>2. Len(pushed) \in 1..Len(pushed)  BY <1>5
  <2>3. stack[Len(pushed)] = pushed[Len(pushed)]  BY <1>4, <1>5, <2>2
  <2> QED BY <1>4, <1>5, <2>1, <2>3
<1> HIDE DEF stack
<1>7. N <= Len(stack) /\ Len(stack) + 1 - N = Len(pushed)
  <2>1. Len(pushed) \in Nat /\ Len(pushed) > 0  BY <1>5
  <2> QED BY <1>1, <1>6, <2>1
<1>8. undoStack' \in Undos(u)
  BY <1>2, <1>6, CappedParts DEF Undos
<1>9. ASSUME Cardinality(Changed) <= UndoLimit
      PROVE  \E n \in 1..Len(undoStack') :
               /\ n <= 2 \/ n <= Cardinality(Changed)
               /\ undoStack'[Len(undoStack') + 1 - n] = doc
  <2>1. Cardinality(Changed) \in Nat
    <3>1. Live \subseteq Nodes /\ Live' \subseteq Nodes  BY <1>3, GoodParts DEF Live, Graph
    <3> QED BY <3>1, ChangedFinite
  <2>2. N \in 1..UndoLimit  BY <1>1, <1>9, <2>1, CanvasAssumption DEF Few
  <2>3. N <= Len(Capped(stack)) /\ Capped(stack)[Len(Capped(stack)) + 1 - N] = stack[Len(stack) + 1 - N]
    BY <1>6, <1>7, <2>2, CappedParts
  <2>4. Capped(stack) \in Seq(Good(u))  BY <1>6, CappedParts
  <2>5. N \in 1..Len(undoStack')  BY <1>1, <1>2, <2>3, <2>4
  <2>6. undoStack'[Len(undoStack') + 1 - N] = doc  BY <1>2, <1>6, <1>7, <2>3
  <2> QED BY <2>5, <2>6 DEF Few
<1> QED BY <1>2, <1>3, <1>8, <1>9 DEF UndoStep

LEMMA OneStage ==
  ASSUME NEW u, NEW d \in Good(u)
  PROVE  <<d>> \in Seq(Good(u)) /\ <<d>> # <<>> /\ Len(<<d>>) = 1 /\ Few(<<d>>) /\ Last(<<d>>) = d
<1> HIDE DEF Good
<1> QED BY DEF Last, Few

\* Storing the layout, what is shown is what the document has then.
LEMMA SaveKeeps ==
  ASSUME NEW u, doc \in Good(u), undoStack \in Undos(u),
         NEW stages \in Seq(Good(u)), Len(stages) <= 1, NEW shown \in [Nodes -> Places],
         SaveNodeLayout(stages, shown)
  PROVE  doc' \in Good(u) /\ undoStack' \in Undos(u) /\ positions' = doc'.at /\ UndoStep
<1> DEFINE before == Last(<<doc>> \o stages)
           after == Stored(before, shown)
<1>1. before = (IF stages = <<>> THEN doc ELSE Last(stages)) /\ before \in Good(u)
  <2> HIDE DEF Good
  <2>1. CASE stages = <<>>
    <3>1. <<doc>> \o stages = <<doc>>  BY <2>1
    <3> QED BY <2>1, <3>1 DEF Last
  <2>2. CASE stages # <<>>
    <3> DEFINE all == <<doc>> \o stages
    <3>1. Len(stages) \in Nat \ {0} /\ Len(stages) \in 1..Len(stages)  BY <2>2
    <3>2. Len(all) = 1 + Len(stages) /\ all[1 + Len(stages)] = stages[Len(stages)]
      BY <3>1
    <3>3. stages[Len(stages)] \in Good(u)  BY <3>1
    <3> HIDE DEF all
    <3> QED BY <2>2, <3>2, <3>3 DEF Last, all
  <2> QED BY <2>1, <2>2
<1>2. after \in Good(u)  BY <1>1, StoredGood
<1>3. /\ positions' = after.at
      /\ IF after # before THEN Through(Append(stages, after))
         ELSE IF stages # <<>> THEN Through(stages) ELSE UNCHANGED <<doc, undoStack>>
  BY DEF SaveNodeLayout
<1> HIDE DEF before, after
<1>4. CASE after # before
  <2>1. Append(stages, after) \in Seq(Good(u)) /\ Append(stages, after) # <<>>
        /\ Last(Append(stages, after)) = after /\ Few(Append(stages, after))
    <3> HIDE DEF Good
    <3> QED BY <1>2 DEF Last, Few
  <2>2. Through(Append(stages, after))  BY <1>3, <1>4
  <2> QED BY <1>3, <2>1, <2>2, ThroughKeeps
<1>5. CASE after = before /\ stages # <<>>
  <2>1. Through(stages) /\ Few(stages)  BY <1>3, <1>5 DEF Few
  <2> QED BY <1>1, <1>3, <1>5, <2>1, ThroughKeeps
<1>6. CASE after = before /\ stages = <<>>
  BY <1>1, <1>3, <1>6 DEF UndoStep
<1> QED BY <1>4, <1>5, <1>6

-----------------------------------------------------------------------------
(* The invariant.                                                           *)

Presses   == [pointer : Pointers, moved : BOOLEAN]
AreaDrags == [pointer : Pointers, before : Places]
Boxes     == [pointer : Pointers, previous : SUBSET Nodes]
Pulls     == [pointer : Pointers, edge : {c \in Conns : Offers(c)}, moved : BOOLEAN]
Drawings  == {d \in [source : Nodes, port : AllPorts, replace : Nodes \cup {None}] :
                Offers(<<d.source, d.port, d.replace>>)}

\* What is shown is what the document has, but for a drag that moved.
Rests(drag) == drag = None \/ ~drag.moved

PlaceInv ==
  /\ positions \in [Nodes -> Places] /\ dragging \in Drags \cup {None}
  /\ Rests(dragging) => positions = doc.at

SelectInv == selected \in SUBSET Nodes /\ copied \in SUBSET Nodes

\* Cards are going to be put at places only.
FrameInv ==
  /\ \A t \in frames : \A n \in DOMAIN t.desired : t.desired[n] \in Places
  /\ pendingInsertion # None =>
       \A n \in DOMAIN pendingInsertion.at : pendingInsertion.at[n] \in Places

ClipInv == clipboard \in Graphs /\ Joined(clipboard)

\* Connections that are pulled, drawn or to be inserted on start at a port that
\* their source has, whether it still exists or not.
OfferInv ==
  /\ insertConnection = None \/ Offers(insertConnection)
  /\ pendingEdgeDrag \in Pulls \cup {None} /\ connecting \in Drawings \cup {None}

\* A gesture is held by a pointer that is down and holds no other.
Held(gesture)   == gesture # None => gesture.pointer \in down
Apart(one, two) == one # None /\ two # None => one.pointer # two.pointer

HoldInv ==
  /\ canvasPan \in Presses \cup {None} /\ areaDrag \in AreaDrags \cup {None}
  /\ routeDrag \in Presses \cup {None} /\ selection \in Boxes \cup {None}
  /\ down \in SUBSET Pointers
  /\ Held(canvasPan) /\ Held(areaDrag) /\ Held(routeDrag) /\ Held(selection) /\ Held(pendingEdgeDrag)
  /\ Apart(canvasPan, areaDrag) /\ Apart(canvasPan, routeDrag) /\ Apart(canvasPan, selection)
  /\ Apart(canvasPan, pendingEdgeDrag) /\ Apart(areaDrag, routeDrag) /\ Apart(areaDrag, selection)
  /\ Apart(areaDrag, pendingEdgeDrag) /\ Apart(routeDrag, selection)
  /\ Apart(routeDrag, pendingEdgeDrag) /\ Apart(selection, pendingEdgeDrag)

\* Of the gestures that begin on the canvas itself one at most goes on.
AloneInv ==
  /\ canvasPan = None \/ selection = None
  /\ canvasPan = None \/ dragging = None
  /\ selection = None \/ dragging = None

IInv ==
  /\ DocInv /\ PlaceInv /\ SelectInv /\ FrameInv /\ ClipInv /\ OfferInv /\ HoldInv /\ AloneInv

-----------------------------------------------------------------------------
(* The document and what is shown of it.                                    *)

\* A step does not bring cards to rest that moved.
DragKept == dragging' \in Drags \cup {None} /\ (Rests(dragging') => Rests(dragging))

DocKept == DocInv' /\ PlaceInv' /\ UndoStep

LEMMA DragStays == ASSUME IInv, dragging' = dragging PROVE DragKept
BY DEF DragKept, IInv, PlaceInv

LEMMA IdleKeeps ==
  ASSUME IInv, UNCHANGED <<doc, undoStack, used, positions>>, DragKept
  PROVE  DocKept
<1>1. doc' = doc /\ undoStack' = undoStack /\ used' = used /\ positions' = positions  OBVIOUS
<1>2. DocInv'  BY <1>1 DEF IInv, DocInv
<1>3. UndoStep  BY <1>1 DEF UndoStep
<1>4. PlaceInv'  BY <1>1 DEF IInv, PlaceInv, DragKept
<1> QED BY <1>2, <1>3, <1>4 DEF DocKept

LEMMA SpentMore ==
  ASSUME IInv, NEW u \in SUBSET Nodes, used \subseteq u
  PROVE  doc \in Good(u) /\ undoStack \in Undos(u)
BY GoodGrows DEF IInv, DocInv

LEMMA SavingKeeps ==
  ASSUME IInv, NEW u \in SUBSET Nodes, used \subseteq u, used' = u,
         NEW stages \in Seq(Good(u)), Len(stages) <= 1, NEW shown \in [Nodes -> Places],
         SaveNodeLayout(stages, shown), dragging' \in Drags \cup {None}
  PROVE  DocKept
<1>1. doc' \in Good(u) /\ undoStack' \in Undos(u) /\ positions' = doc'.at /\ UndoStep
  BY SpentMore, SaveKeeps
<1>2. DocInv'  BY <1>1 DEF DocInv
<1>3. positions' \in [Nodes -> Places]  BY <1>1, GoodParts
<1>4. PlaceInv'  BY <1>1, <1>3 DEF PlaceInv
<1> QED BY <1>1, <1>2, <1>4 DEF DocKept

\* Places do not change, neither stored nor shown.
LEMMA StagesKeep ==
  ASSUME IInv, NEW u \in SUBSET Nodes, used \subseteq u, used' = u,
         NEW stages \in Seq(Good(u)), stages # <<>>, Few(stages), Through(stages),
         Last(stages).at = doc.at,
         positions' = positions, DragKept
  PROVE  DocKept
<1>1. doc' \in Good(u) /\ undoStack' \in Undos(u) /\ doc' = Last(stages) /\ UndoStep
  BY SpentMore, ThroughKeeps
<1>2. DocInv'  BY <1>1 DEF DocInv
<1>3. PlaceInv'  BY <1>1 DEF IInv, PlaceInv, DragKept
<1> QED BY <1>1, <1>2, <1>3 DEF DocKept

LEMMA GraphKeeps ==
  ASSUME IInv, NEW g \in Graphs, Joined(g), g.nodes = Graph.nodes, used' = used,
         Through(<<[doc EXCEPT !.graph = g]>>), positions' = positions, DragKept
  PROVE  DocKept
<1>1. used \in SUBSET Nodes /\ doc \in Good(used)  BY DEF IInv, DocInv
<1>2. g.nodes = doc.graph.nodes /\ g.nodes \subseteq used  BY <1>1, GoodParts DEF Graph
<1>3. [doc EXCEPT !.graph = g] \in Good(used) /\ [doc EXCEPT !.graph = g].at = doc.at
  BY <1>1, <1>2, GraphGood
<1> QED BY <1>1, <1>3, OneStage, StagesKeep

LEMMA AreaKeeps ==
  ASSUME IInv, NEW v \in Places \cup {None}, SetArea(v), DragKept
  PROVE  DocKept
<1>1. used' = used /\ positions' = positions  BY DEF SetArea
<1>2. used \in SUBSET Nodes /\ doc \in Good(used)  BY DEF IInv, DocInv
<1>3. CASE doc.area = v
  <2>1. UNCHANGED <<doc, undoStack>>  BY <1>3 DEF SetArea
  <2> QED BY <1>1, <2>1, IdleKeeps
<1>4. CASE doc.area # v
  <2>1. Through(<<[doc EXCEPT !.area = v]>>)  BY <1>4 DEF SetArea
  <2>2. [doc EXCEPT !.area = v] \in Good(used) /\ [doc EXCEPT !.area = v].at = doc.at
    BY <1>2, AreaGood
  <2> QED BY <1>1, <1>2, <2>1, <2>2, OneStage, StagesKeep
<1> QED BY <1>3, <1>4

LEMMA GraphParts ==
  ASSUME IInv
  PROVE  /\ used \in SUBSET Nodes /\ doc \in Good(used) /\ undoStack \in Undos(used)
         /\ Graph \in Graphs /\ Joined(Graph) /\ Live \subseteq Nodes /\ Live \subseteq used
         /\ doc.at \in [Nodes -> Places] /\ positions \in [Nodes -> Places]
BY GoodParts DEF IInv, DocInv, PlaceInv, Graph, Live

\* A connection that the document accepts.
LEMMA ConnectedGraph ==
  ASSUME IInv, NEW m, NEW port, NEW n, Connectable(Graph, <<m, port, n>>), NEW old
  PROVE  LET g == Connect(Graph, <<m, port, n>>, old)
         IN g \in Graphs /\ Joined(g) /\ g.nodes = Graph.nodes
<1> DEFINE e == <<m, port, n>>
           g == Connect(Graph, e, old)
<1>1. Graph \in Graphs /\ Joined(Graph) /\ Graph.nodes \subseteq Nodes
  BY GraphParts DEF Live
<1>2. Joins(Graph, e)  BY DEF Connectable
<1>3. m \in Nodes /\ n \in Nodes /\ port \in Ports(m)  BY <1>1, <1>2 DEF Joins
<1>4. e \in Edges  BY <1>3, PortsOfNodes DEF Edges
<1>5. g.nodes = Graph.nodes  BY <1>1 DEF Connect, Graphs
<1>6. "nodes" \in DOMAIN Graph /\ "edges" \in DOMAIN Graph  BY <1>1 DEF Graphs
<1> HIDE DEF e
<1>7. g \in Graphs  BY <1>1, <1>4, ConnectType
<1>8. Joined(g)  BY <1>1, <1>2, <1>6, ConnectJoins
<1> QED BY <1>5, <1>7, <1>8 DEF e

LEMMA CompleteKeeps ==
  ASSUME IInv, NEW n, used' = used, positions' = positions, DragKept, CompleteConnection(n)
  PROVE  DocKept
<1> DEFINE g == Connect(Graph, <<connecting.source, connecting.port, n>>, connecting.replace)
<1>1. CASE Connectable(Graph, <<connecting.source, connecting.port, n>>)
  <2>1. g \in Graphs /\ Joined(g) /\ g.nodes = Graph.nodes  BY <1>1, ConnectedGraph
  <2>2. Through(<<[doc EXCEPT !.graph = Connect(@, <<connecting.source, connecting.port, n>>,
                                                connecting.replace)]>>)
    BY <1>1 DEF CompleteConnection
  <2>3. Through(<<[doc EXCEPT !.graph = g]>>)
    BY <2>2 DEF Graph
  <2> HIDE DEF g
  <2> QED BY <2>1, <2>3, GraphKeeps
<1>2. CASE ~Connectable(Graph, <<connecting.source, connecting.port, n>>)
  BY <1>2, IdleKeeps DEF CompleteConnection
<1> QED BY <1>1, <1>2

LEMMA UndoDoc == ASSUME IInv, Undo PROVE DocKept
<1> HIDE DEF Good
<1>1. /\ undoStack \in Seq(Good(used)) /\ Len(undoStack) <= UndoLimit /\ undoStack # <<>>
      /\ used' = used /\ dragging' = dragging
  BY GraphParts DEF Undo, Undos, holdVars
<1>2. doc' = Last(undoStack) /\ undoStack' = Front(undoStack) /\ positions' = doc'.at
  BY DEF Undo
<1>3. Len(undoStack) \in Nat \ {0} /\ \A i \in 1..Len(undoStack) : undoStack[i] \in Good(used)
  BY <1>1
<1>4. doc' \in Good(used)
  <2>1. Len(undoStack) \in 1..Len(undoStack)  BY <1>3
  <2> QED BY <1>2, <1>3, <2>1 DEF Last
<1>5. undoStack' \in Undos(used) /\ Len(undoStack') = Len(undoStack) - 1
  <2>1. 1 \in Int /\ Len(undoStack) - 1 \in Int
        /\ \A i \in 1..(Len(undoStack) - 1) : undoStack[i] \in Good(used)
    BY <1>3
  <2>2. /\ SubSeq(undoStack, 1, Len(undoStack) - 1) \in Seq(Good(used))
        /\ Len(SubSeq(undoStack, 1, Len(undoStack) - 1))
             = IF 1 <= Len(undoStack) - 1 THEN Len(undoStack) - 1 - 1 + 1 ELSE 0
    BY <2>1, SubSeqProperties
  <2>3. undoStack' = SubSeq(undoStack, 1, Len(undoStack) - 1)  BY <1>2 DEF Front
  <2>4. \A n \in Nat \ {0} : (IF 1 <= n - 1 THEN n - 1 - 1 + 1 ELSE 0) = n - 1  OBVIOUS
  <2>5. undoStack' \in Seq(Good(used))  BY <2>2, <2>3
  <2>6. Len(undoStack') = Len(undoStack) - 1
    <3>1. Len(undoStack') = IF 1 <= Len(undoStack) - 1 THEN Len(undoStack) - 1 - 1 + 1 ELSE 0
      BY <2>2, <2>3, Zenon
    <3> QED BY <1>3, <2>4, <3>1
  <2> QED BY <1>1, <1>3, <2>5, <2>6, CanvasAssumption DEF Undos
<1>6. ~(Len(undoStack') >= Len(undoStack))  BY <1>3, <1>5
<1>7. UndoStep  BY <1>6 DEF UndoStep
<1>8. DocInv'  BY <1>1, <1>4, <1>5, GraphParts DEF DocInv
<1>9. positions' \in [Nodes -> Places]  BY <1>2, <1>4, GoodParts
<1>10. PlaceInv'  BY <1>1, <1>2, <1>9 DEF IInv, PlaceInv
<1> QED BY <1>7, <1>8, <1>10 DEF DocKept

LEMMA DeleteDoc == ASSUME IInv, DeleteSelected PROVE DocKept
<1>1. /\ used' = used /\ dragging' = dragging
      /\ positions' = [n \in Nodes |-> IF n \in selected THEN 0 ELSE positions[n]]
  BY DEF DeleteSelected
<1>2. doc \in Good(used) /\ undoStack \in Undos(used) /\ used \in SUBSET Nodes
      /\ Live \subseteq Nodes /\ positions \in [Nodes -> Places] /\ doc.at \in [Nodes -> Places]
  BY GraphParts
<1>3. positions' \in [Nodes -> Places]  BY <1>1, <1>2 DEF Places
<1>4. \A n \in Nodes \ Live : doc.at[n] = 0  BY <1>2 DEF Good, Live, Graph
<1>5. CASE selected \cap Live = {}
  <2>1. UNCHANGED <<doc, undoStack>>  BY <1>5 DEF DeleteSelected
  <2>2. Rests(dragging) => positions' = doc.at
    <3> SUFFICES ASSUME Rests(dragging) PROVE positions' = doc.at
      OBVIOUS
    <3>1. positions = doc.at  BY DEF IInv, PlaceInv
    <3>2. \A n \in Nodes : positions'[n] = doc.at[n]  BY <1>1, <1>4, <1>5, <3>1
    <3> QED BY <1>2, <1>3, <3>2
  <2>3. PlaceInv'  BY <1>1, <1>3, <2>1, <2>2 DEF IInv, PlaceInv
  <2>4. UndoStep  BY <2>1 DEF UndoStep
  <2>5. DocInv'  BY <1>1, <2>1 DEF IInv, DocInv
  <2> QED BY <2>3, <2>4, <2>5 DEF DocKept
<1>6. CASE selected \cap Live # {}
  <2> DEFINE S == selected \cap Live
             order == SetToSeq(S)
             stages == Deletions(doc, order)
  <2>1. IsFiniteSet(S) /\ S \subseteq Nodes  BY <1>2, GraphAssumption, FS_Subset
  <2>2. order \in Seq(S) /\ Range(order) = S /\ Len(order) = Cardinality(S)  BY <2>1, SetInOrder
  <2>3. order \in Seq(Nodes) /\ order # <<>>
    <3>1. order \in Seq(Nodes)  BY <2>1, <2>2
    <3>2. S # {}  BY <1>6
    <3> HIDE DEF order, S
    <3>3. order # <<>>  BY <2>2, <3>2 DEF Range
    <3> QED BY <3>1, <3>3
  <2>4. Through(stages)  BY <1>6 DEF DeleteSelected
  <2> HIDE DEF order
  <2>5. /\ stages \in Seq(Good(used)) /\ stages # <<>> /\ Len(stages) = Len(order)
        /\ Last(stages).graph.nodes \cap Range(order) = {}
        /\ \A n \in Nodes : Last(stages).at[n] = IF n \in Range(order) THEN 0 ELSE doc.at[n]
    BY <1>2, <2>3, DeletionsGood
  <2> HIDE DEF stages
  <2>6. doc' \in Good(used) /\ undoStack' \in Undos(used) /\ doc' = Last(stages) /\ UndoStep
    <3>1. doc' = Last(stages)  BY <2>4 DEF Through
    <3>2. Live' \cap S = {}  BY <2>2, <2>5, <3>1 DEF Live, Graph
    <3>3. doc' \in Good(used)
      <4> HIDE DEF Good
      <4>1. Len(stages) \in 1..Len(stages)  BY <2>5
      <4> QED BY <2>5, <3>1, <4>1 DEF Last
    <3>4. Live' \subseteq Nodes  BY <3>3, GoodParts DEF Live, Graph
    <3>5. S \subseteq Changed  BY <3>2 DEF Changed
    <3> HIDE DEF S
    <3>6. Cardinality(S) <= Cardinality(Changed)  BY <1>2, <3>4, <3>5, ChangedFinite, FS_Subset
    <3>7. Few(stages)  BY <2>2, <2>5, <3>6 DEF Few
    <3> QED BY <1>2, <2>4, <2>5, <3>7, ThroughKeeps
  <2>7. doc'.at \in [Nodes -> Places]  BY <2>6, GoodParts
  <2>8. Rests(dragging) => positions' = doc'.at
    <3> SUFFICES ASSUME Rests(dragging) PROVE positions' = doc'.at
      OBVIOUS
    <3>1. positions = doc.at  BY DEF IInv, PlaceInv
    <3>2. \A n \in Nodes : doc'.at[n] = IF n \in S THEN 0 ELSE doc.at[n]  BY <2>2, <2>5, <2>6
    <3>3. \A n \in Nodes : positions'[n] = doc'.at[n]  BY <1>1, <1>4, <3>1, <3>2
    <3> QED BY <1>3, <2>7, <3>3
  <2>9. PlaceInv'  BY <1>1, <1>3, <2>8 DEF IInv, PlaceInv
  <2>10. DocInv'  BY <1>1, <1>2, <2>6 DEF DocInv
  <2> QED BY <2>6, <2>9, <2>10 DEF DocKept
<1> QED BY <1>5, <1>6

LEMMA RemoveDoc == ASSUME IInv, NEW n \in Nodes, RemoveNode(n) PROVE DocKept
<1>1. /\ used' = used /\ dragging' = dragging /\ positions' = [positions EXCEPT ![n] = 0]
      /\ Through(<<Removed(doc, n)>>)
  BY DEF RemoveNode, holdVars
<1>2. doc \in Good(used) /\ undoStack \in Undos(used) /\ used \in SUBSET Nodes
      /\ positions \in [Nodes -> Places]
  BY GraphParts
<1>3. Removed(doc, n) \in Good(used) /\ Removed(doc, n).at = [doc.at EXCEPT ![n] = 0]
  BY <1>2, RemovedGood
<1>4. <<Removed(doc, n)>> \in Seq(Good(used)) /\ <<Removed(doc, n)>> # <<>> /\ Few(<<Removed(doc, n)>>)
      /\ Last(<<Removed(doc, n)>>) = Removed(doc, n)
  BY <1>3, OneStage
<1>5. doc' \in Good(used) /\ undoStack' \in Undos(used) /\ doc' = Removed(doc, n) /\ UndoStep
  BY <1>1, <1>2, <1>4, ThroughKeeps
<1>6. positions' \in [Nodes -> Places]  BY <1>1, <1>2 DEF Places
<1>7. PlaceInv'  BY <1>1, <1>3, <1>5, <1>6 DEF IInv, PlaceInv
<1>8. DocInv'  BY <1>1, <1>2, <1>5 DEF DocInv
<1> QED BY <1>5, <1>7, <1>8 DEF DocKept

\* Copies of nodes of the clipboard, with identifiers that are free.
LEMMA CopiesGood ==
  ASSUME IInv, NEW clip \in Graphs, Joined(clip), clip.nodes # {}, NEW f \in Renamings(clip, Fresh)
  PROVE  LET u == used \cup {f[n] : n \in clip.nodes}
         IN /\ u \in SUBSET Nodes /\ used \subseteq u /\ f \in [clip.nodes -> Nodes]
            /\ Pastes(clip, f) \in Seq(Good(u)) /\ Pastes(clip, f) # <<>>
            /\ Len(Pastes(clip, f)) = Cardinality(clip.nodes)
            /\ Last(Pastes(clip, f)).at = doc.at
            /\ {f[n] : n \in clip.nodes} \subseteq Last(Pastes(clip, f)).graph.nodes
<1> DEFINE u == used \cup {f[n] : n \in clip.nodes}
<1>1. Fresh \in SUBSET Nodes  BY DEF Fresh
<1>2. f \in [clip.nodes -> Nodes]  BY <1>1 DEF Renamings
<1>3. u \in SUBSET Nodes /\ used \subseteq u /\ \A n \in clip.nodes : f[n] \in u
  BY <1>2, GraphParts
<1> HIDE DEF u
<1>4. doc \in Good(u)  BY <1>3, SpentMore
<1> QED BY <1>1, <1>2, <1>3, <1>4, PastesGood DEF u

\* Each copy is a node more.
LEMMA CopiesApart ==
  ASSUME NEW clip \in Graphs, NEW f \in Renamings(clip, Fresh)
  PROVE  LET new == {f[n] : n \in clip.nodes}
         IN new \cap Live = {} /\ Cardinality(new) = Cardinality(clip.nodes)
<1> DEFINE new == {f[n] : n \in clip.nodes}
<1>1. f \in [clip.nodes -> Fresh] /\ \A m, n \in clip.nodes : f[m] = f[n] => m = n
  BY DEF Renamings
<1>2. new \cap Live = {}  BY <1>1 DEF Fresh
<1>3. f \in Bijection(clip.nodes, new)
  <2>1. f \in [clip.nodes -> new]  BY <1>1
  <2>2. \A y \in new : \E n \in clip.nodes : f[n] = y  OBVIOUS
  <2> HIDE DEF new
  <2> QED BY <1>1, <2>1, <2>2 DEF Bijection, Injection, Surjection, IsInjective
<1>4. IsFiniteSet(clip.nodes)
  <2>1. clip.nodes \subseteq Nodes  BY DEF Graphs
  <2> QED BY <2>1, GraphAssumption, FS_Subset
<1> HIDE DEF new
<1>5. Cardinality(new) = Cardinality(clip.nodes)
  <2>1. ExistsBijection(clip.nodes, new)  BY <1>3 DEF ExistsBijection
  <2> QED BY <1>4, <2>1, FS_Bijection
<1> QED BY <1>2, <1>5 DEF new

LEMMA PasteDoc == ASSUME IInv, PasteClipboard PROVE DocKept
<1>1. clipboard \in Graphs /\ Joined(clipboard) /\ clipboard.nodes # {}
  BY DEF IInv, ClipInv, PasteClipboard
<1>2. PICK f \in Renamings(clipboard, Fresh) :
        Through(Pastes(clipboard, f)) /\ used' = used \cup {f[n] : n \in clipboard.nodes}
  BY DEF PasteClipboard
<1>3. positions' = positions /\ dragging' = dragging  BY DEF PasteClipboard, holdVars
<1> DEFINE new == {f[n] : n \in clipboard.nodes}
           u == used \cup new
           stages == Pastes(clipboard, f)
<1>4. /\ u \in SUBSET Nodes /\ used \subseteq u
      /\ stages \in Seq(Good(u)) /\ stages # <<>> /\ Len(stages) = Cardinality(clipboard.nodes)
      /\ Last(stages).at = doc.at /\ new \subseteq Last(stages).graph.nodes
  BY <1>1, CopiesGood
<1>5. new \cap Live = {} /\ Cardinality(new) = Cardinality(clipboard.nodes)
  BY <1>1, CopiesApart
<1>6. used' = u /\ Through(stages)  BY <1>2
<1> HIDE DEF new, u, stages
<1>7. Few(stages)
  <2>1. doc' = Last(stages)  BY <1>6 DEF Through
  <2>2. doc' \in Good(u)
    <3> HIDE DEF Good
    <3>1. Len(stages) \in 1..Len(stages)  BY <1>4
    <3> QED BY <1>4, <2>1, <3>1 DEF Last
  <2>3. Live \subseteq Nodes /\ Live' \subseteq Nodes  BY <2>2, GraphParts, GoodParts DEF Live, Graph
  <2>4. new \subseteq Changed  BY <1>4, <1>5, <2>1 DEF Changed, Live, Graph
  <2>5. Cardinality(new) <= Cardinality(Changed)  BY <2>3, <2>4, ChangedFinite, FS_Subset
  <2> QED BY <1>4, <1>5, <2>5 DEF Few
<1> QED BY <1>3, <1>4, <1>6, <1>7, StagesKeep, DragStays

LEMMA DuplicateDoc == ASSUME IInv, NEW n \in Nodes, DuplicateNode(n) PROVE DocKept
<1>1. /\ n \in Live /\ clipboard' = Copy(Graph, {n}) /\ dragging' = dragging
      /\ \E f \in Renamings(clipboard', Fresh), v \in Places :
           /\ SaveNodeLayout(Pastes(clipboard', f), [positions EXCEPT ![f[n]] = v])
           /\ used' = used \cup {f[n]}
  BY DEF DuplicateNode, holdVars
<1> DEFINE clip == Copy(Graph, {n})
<1>2. clip \in Graphs /\ Joined(clip) /\ clip.nodes = {n}
  <2>1. clip.nodes = {n}  BY <1>1 DEF Copy, Live
  <2> QED BY <2>1, GraphParts, CopyType, CopyJoins
<1>3. PICK f \in Renamings(clip, Fresh), v \in Places :
        /\ SaveNodeLayout(Pastes(clip, f), [positions EXCEPT ![f[n]] = v])
        /\ used' = used \cup {f[n]}
  BY <1>1
<1> HIDE DEF clip
<1> DEFINE u == used \cup {f[m] : m \in clip.nodes}
<1>4. u \in SUBSET Nodes /\ used \subseteq u /\ f \in [clip.nodes -> Nodes]
      /\ Pastes(clip, f) \in Seq(Good(u)) /\ Len(Pastes(clip, f)) <= 1
  <2>1. Cardinality(clip.nodes) = 1  BY <1>2, FS_Singleton
  <2>2. Len(Pastes(clip, f)) = Cardinality(clip.nodes)  BY <1>2, <1>3, CopiesGood
  <2>3. Pastes(clip, f) \in Seq(Good(u)) /\ u \in SUBSET Nodes /\ used \subseteq u
        /\ f \in [clip.nodes -> Nodes]
    BY <1>2, <1>3, CopiesGood
  <2> QED BY <2>1, <2>2, <2>3
<1>5. used' = u  BY <1>2, <1>3
<1>6. [positions EXCEPT ![f[n]] = v] \in [Nodes -> Places]  BY GraphParts
<1>7. dragging' \in Drags \cup {None}  BY <1>1 DEF IInv, PlaceInv
<1> HIDE DEF u
<1> QED BY <1>3, <1>4, <1>5, <1>6, <1>7, SavingKeeps

\* No stages but the layout.
LEMMA LayoutKeeps ==
  ASSUME IInv, NEW shown \in [Nodes -> Places], SaveNodeLayout(<<>>, shown), used' = used,
         dragging' \in Drags \cup {None}
  PROVE  DocKept
<1>1. <<>> \in Seq(Good(used)) /\ Len(<<>>) <= 1 /\ used \in SUBSET Nodes /\ used \subseteq used
  BY GraphParts
<1> QED BY <1>1, SavingKeeps

LEMMA FrameDoc == ASSUME IInv, NEW t \in frames, Frame(t) PROVE DocKept
<1>1. SaveNodeLayout(<<>>, Moved(positions, t.desired, Live)) /\ used' = used /\ dragging' = dragging
  BY DEF Frame, holdVars
<1>2. Moved(positions, t.desired, Live) \in [Nodes -> Places]
  <2>1. \A n \in DOMAIN t.desired : t.desired[n] \in Places  BY DEF IInv, FrameInv
  <2> QED BY <2>1, GraphParts DEF Moved
<1>3. dragging' \in Drags \cup {None}  BY <1>1 DEF IInv, PlaceInv
<1> QED BY <1>1, <1>2, <1>3, LayoutKeeps

LEMMA InsertDoc == ASSUME IInv, NEW n \in Nodes, InsertNode(n) PROVE DocKept
<1> DEFINE c == insertConnection
           g == Insert(Graph, n, c)
           u == used \cup {n}
           inserted == [doc EXCEPT !.graph = g]
<1>1. n \in Fresh /\ Insertable(Graph, c) /\ used' = u /\ dragging' = dragging
  BY DEF InsertNode, holdVars
<1>2. PICK v \in Places :
        \/ SaveNodeLayout(<<[doc EXCEPT !.graph = Insert(@, n, c)]>>, positions)
        \/ SaveNodeLayout(<<[doc EXCEPT !.graph = Insert(@, n, c)]>>, [positions EXCEPT ![n] = v])
  BY DEF InsertNode
<1>3. n \in Nodes \ Graph.nodes  BY <1>1 DEF Fresh, Live
<1>4. c = None \/ Offers(c)  BY DEF IInv, OfferInv
<1>5. g \in Graphs /\ Joined(g)
  <2>1. c = None \/ c \in Conns  BY <1>4 DEF Offers
  <2>2. Graph \in Graphs /\ Joined(Graph)  BY GraphParts
  <2>3. g \in Graphs  BY <2>1, <2>2, InsertType
  <2>4. Joined(g)  BY <1>1, <1>3, <1>4, <2>2, InsertJoins
  <2> QED BY <2>3, <2>4
<1>6. g.nodes = doc.graph.nodes \cup {n}  BY DEF Insert, Graph
<1> HIDE DEF g
<1>7. u \in SUBSET Nodes /\ used \subseteq u /\ doc.graph.nodes \subseteq used
  BY GraphParts DEF Live, Graph
<1> HIDE DEF u
<1>8. doc \in Good(u)  BY <1>7, SpentMore
<1>9. inserted \in Good(u)
  <2>1. doc.graph.nodes \subseteq g.nodes /\ g.nodes \subseteq u  BY <1>6, <1>7 DEF u
  <2> QED BY <1>5, <1>8, <2>1, GraphGood
<1>10. <<inserted>> \in Seq(Good(u)) /\ Len(<<inserted>>) <= 1  BY <1>9, OneStage
<1>11. SaveNodeLayout(<<inserted>>, positions) \/ SaveNodeLayout(<<inserted>>, [positions EXCEPT ![n] = v])
  BY <1>2 DEF g, Graph
<1>12. positions \in [Nodes -> Places] /\ [positions EXCEPT ![n] = v] \in [Nodes -> Places]
  BY GraphParts
<1>13. dragging' \in Drags \cup {None}  BY <1>1 DEF IInv, PlaceInv
<1> HIDE DEF inserted
<1> QED BY <1>1, <1>7, <1>10, <1>11, <1>12, <1>13, SavingKeeps

LEMMA DisconnectDoc == ASSUME IInv, NEW e \in Graph.edges, RemoveSelectedEdge(e) PROVE DocKept
<1> DEFINE g == Disconnect(Graph, e)
           stage == [doc EXCEPT !.graph = g]
<1>1. SaveNodeLayout(<<stage>>, positions) /\ used' = used /\ dragging' = dragging
  BY DEF RemoveSelectedEdge, holdVars, Graph
<1>2. Graph \in Graphs /\ Joined(Graph) /\ doc \in Good(used) /\ used \in SUBSET Nodes
      /\ positions \in [Nodes -> Places] /\ Live \subseteq used
  BY GraphParts
<1>3. "nodes" \in DOMAIN Graph /\ "edges" \in DOMAIN Graph  BY <1>2 DEF Graphs
<1>4. g \in Graphs /\ Joined(g)  BY <1>2, <1>3, DisconnectType, DisconnectJoins
<1>5. g.nodes = doc.graph.nodes /\ doc.graph.nodes \subseteq used
  BY <1>2 DEF Disconnect, Graphs, Graph, Live
<1> HIDE DEF g
<1>6. stage \in Good(used)  BY <1>2, <1>4, <1>5, GraphGood
<1>7. <<stage>> \in Seq(Good(used)) /\ Len(<<stage>>) <= 1  BY <1>6, OneStage
<1>8. dragging' \in Drags \cup {None}  BY <1>1 DEF IInv, PlaceInv
<1> HIDE DEF stage
<1> QED BY <1>1, <1>2, <1>7, <1>8, SavingKeeps

LEMMA StopAreaKeeps ==
  ASSUME IInv, NEW cancel, StopAreaDrag(cancel), DragKept
  PROVE  DocKept
<1>1. CASE cancel /\ areaDrag # None /\ doc.area # None
  <2>1. SetArea(areaDrag.before)  BY <1>1 DEF StopAreaDrag
  <2>2. areaDrag.before \in Places \cup {None}
    BY <1>1 DEF IInv, HoldInv, AreaDrags
  <2> QED BY <2>1, <2>2, AreaKeeps
<1>2. CASE ~(cancel /\ areaDrag # None /\ doc.area # None)
  BY <1>2, IdleKeeps DEF StopAreaDrag
<1> QED BY <1>1, <1>2

LEMMA ClickDoc == ASSUME IInv, Click PROVE DocKept
<1> USE DEF docVars, clipVars, edgeVars, holdVars, libVars
<1>1. CASE Undo  BY <1>1, UndoDoc
<1>2. CASE DeleteSelected  BY <1>2, DeleteDoc
<1>3. CASE CopySelected  BY <1>3, IdleKeeps, DragStays DEF CopySelected
<1>4. CASE PasteClipboard  BY <1>4, PasteDoc
<1>5. CASE ResetNodeLayout
  <2>1. NoPlaces \in [Nodes -> Places]  BY DEF NoPlaces, Places
  <2>2. SaveNodeLayout(<<>>, NoPlaces) /\ used' = used /\ dragging' = dragging
    BY <1>5 DEF ResetNodeLayout
  <2>3. dragging' \in Drags \cup {None}  BY <2>2 DEF IInv, PlaceInv
  <2> QED BY <2>1, <2>2, <2>3, LayoutKeeps
<1>6. ASSUME NEW n \in Nodes, RemoveNode(n) PROVE DocKept  BY <1>6, RemoveDoc
<1>7. ASSUME NEW n \in Nodes, DuplicateNode(n) PROVE DocKept  BY <1>7, DuplicateDoc
<1>8. ASSUME NEW n \in Nodes, InsertNode(n) PROVE DocKept  BY <1>8, InsertDoc
<1>9. ASSUME NEW n \in Nodes, ClickTarget(n) PROVE DocKept
  <2>1. used' = used /\ positions' = positions /\ dragging' = dragging /\ CompleteConnection(n)
    BY <1>9 DEF ClickTarget
  <2> QED BY <2>1, CompleteKeeps, DragStays
<1>10. ASSUME NEW v \in Places \cup {None}, EditArea(v) PROVE DocKept
  <2>1. SetArea(v) /\ dragging' = dragging  BY <1>10 DEF EditArea
  <2> QED BY <2>1, AreaKeeps, DragStays
<1>11. CASE OpenCanvasPalette  BY <1>11, IdleKeeps, DragStays DEF OpenCanvasPalette
<1>12. CASE OpenLibrary  BY <1>12, IdleKeeps, DragStays DEF OpenLibrary
<1>13. CASE OpenEmpty  BY <1>13, IdleKeeps, DragStays DEF OpenEmpty
<1>14. CASE CloseLibrary  BY <1>14, IdleKeeps, DragStays DEF CloseLibrary
<1>15. CASE CloseHint  BY <1>15, IdleKeeps, DragStays DEF CloseHint
<1>16. CASE Escape
  <2>1. StopAreaDrag(TRUE) /\ dragging' = dragging  BY <1>16 DEF Escape
  <2> QED BY <2>1, StopAreaKeeps, DragStays
<1>17. ASSUME NEW c, ClickEdge(c) PROVE DocKept
  BY <1>17, IdleKeeps, DragStays DEF ClickEdge
<1>18. ASSUME NEW e \in Graph.edges, RemoveSelectedEdge(e) PROVE DocKept  BY <1>18, DisconnectDoc
<1> QED BY <1>1, <1>2, <1>3, <1>4, <1>5, <1>6, <1>7, <1>8, <1>9, <1>10, <1>11, <1>12, <1>13,
           <1>14, <1>15, <1>16, <1>17, <1>18 DEF Click

LEMMA PressDoc == ASSUME IInv, NEW p \in Pointers, PressSomething(p) PROVE DocKept
<1> USE DEF docVars, clipVars, edgeVars, holdVars, libVars, Rest
<1>1. CASE PressNothing(p)  BY <1>1, IdleKeeps, DragStays DEF PressNothing
<1>2. CASE StartCanvasPan(p)  BY <1>2, IdleKeeps, DragStays DEF StartCanvasPan
<1>3. CASE StartBoxSelection(p)  BY <1>3, IdleKeeps, DragStays DEF StartBoxSelection
<1>4. CASE StartAreaDrag(p)  BY <1>4, IdleKeeps, DragStays DEF StartAreaDrag
<1>5. CASE StartEdgeRouteDrag(p)  BY <1>5, IdleKeeps, DragStays DEF StartEdgeRouteDrag
<1>6. ASSUME NEW n \in Live, ToggleSelected(p, n) PROVE DocKept
  BY <1>6, IdleKeeps, DragStays DEF ToggleSelected
<1>7. ASSUME NEW n \in Live, StartNodeDrag(p, n) PROVE DocKept
  <2>1. UNCHANGED <<doc, undoStack, used, positions>> /\ dragging = None
    BY <1>7 DEF StartNodeDrag, Busy
  <2>2. dragging' = [pointer |-> p, moved |-> FALSE, origins |-> [m \in selected' |-> positions[m]]]
        /\ selected' = IF n \in selected THEN selected ELSE {n}
    BY <1>7 DEF StartNodeDrag
  <2>3. selected' \in SUBSET Nodes  BY <2>2, GraphParts DEF IInv, SelectInv
  <2>4. [m \in selected' |-> positions[m]] \in [selected' -> Places]
    BY <2>3, GraphParts
  <2>5. dragging' \in Drags  BY <2>2, <2>3, <2>4 DEF Drags
  <2>6. DragKept  BY <2>1, <2>5 DEF DragKept, Rests
  <2> QED BY <2>1, <2>6, IdleKeeps
<1>8. ASSUME NEW n, NEW port, StartConnection(p, n, port) PROVE DocKept
  BY <1>8, IdleKeeps, DragStays DEF StartConnection
<1>9. ASSUME NEW c, StartEdgeControlDrag(p, c) PROVE DocKept
  BY <1>9, IdleKeeps, DragStays DEF StartEdgeControlDrag
<1>10. ASSUME NEW e, StartIncomingConnection(p, e) PROVE DocKept
  BY <1>10, IdleKeeps, DragStays DEF StartIncomingConnection
<1> QED BY <1>1, <1>2, <1>3, <1>4, <1>5, <1>6, <1>7, <1>8, <1>9, <1>10 DEF PressSomething

LEMMA MoveDoc == ASSUME IInv, NEW p \in Pointers, Move(p) PROVE DocKept
<1> USE DEF docVars, clipVars, edgeVars, holdVars, libVars
<1>1. CASE MovePan(p)  BY <1>1, IdleKeeps, DragStays DEF MovePan
<1>2. CASE MoveRoute(p)  BY <1>2, IdleKeeps, DragStays DEF MoveRoute
<1>3. CASE MoveEdge(p)  BY <1>3, IdleKeeps, DragStays DEF MoveEdge
<1>4. ASSUME NEW v \in Places, MoveAreaDrag(p, v) PROVE DocKept
  <2>1. SetArea(v) /\ dragging' = dragging  BY <1>4 DEF MoveAreaDrag
  <2> QED BY <2>1, AreaKeeps, DragStays
<1>5. ASSUME NEW v \in Places, MoveNodes(p, v) PROVE DocKept
  <2>1. /\ doc' = doc /\ undoStack' = undoStack /\ used' = used
        /\ dragging # None /\ dragging' = [dragging EXCEPT !.moved = TRUE]
        /\ positions' = [n \in Nodes |-> IF n \in DOMAIN dragging.origins
                                         THEN Land(dragging.origins[n], v) ELSE positions[n]]
    BY <1>5 DEF MoveNodes, Holds
  <2>2. dragging \in Drags  BY <2>1 DEF IInv, PlaceInv
  <2>3. dragging' \in Drags /\ dragging'.moved = TRUE  BY <2>1, <2>2 DEF Drags
  <2>4. ~Rests(dragging')  BY <2>3, CanvasAssumption DEF Rests
  <2>5. positions' \in [Nodes -> Places]
    <3>1. \A place \in Places : Land(place, v) \in Places  BY DEF Land, Places
    <3>2. PICK S \in SUBSET Nodes : dragging.origins \in [S -> Places]  BY <2>2 DEF Drags
    <3>3. \A n \in DOMAIN dragging.origins : dragging.origins[n] \in Places  BY <3>2
    <3> HIDE DEF Places
    <3> QED BY <2>1, <3>1, <3>3, GraphParts
  <2>6. PlaceInv'  BY <2>3, <2>4, <2>5 DEF PlaceInv
  <2>7. DocInv' /\ UndoStep  BY <2>1 DEF IInv, DocInv, UndoStep
  <2> QED BY <2>6, <2>7 DEF DocKept
<1>6. ASSUME NEW S, MoveBox(p, S) PROVE DocKept
  BY <1>6, IdleKeeps, DragStays DEF MoveBox
<1> QED BY <1>1, <1>2, <1>3, <1>4, <1>5, <1>6 DEF Move

\* A release that may end a drag, may join two nodes, or both.
LEMMA ReleaseRestDoc ==
  ASSUME IInv, NEW p \in Pointers, NEW up \in BOOLEAN, NEW where, ReleaseRest(p, up, where)
  PROVE  DocKept
<1> DEFINE e == <<connecting.source, connecting.port, where>>
           g == Connect(Graph, e, connecting.replace)
           ends == connecting # None /\ (~up \/ where # "goes on")
           joined == IF ends /\ up /\ where \in Live \cap Actions /\ Connectable(Graph, e)
                     THEN <<[doc EXCEPT !.graph = Connect(@, e, connecting.replace)]>> ELSE <<>>
<1>1. used' = used /\ used \in SUBSET Nodes /\ used \subseteq used /\ positions \in [Nodes -> Places]
  BY GraphParts DEF ReleaseRest
<1>2. IF Holds(dragging, p)
      THEN /\ dragging' = None
           /\ IF dragging.moved THEN SaveNodeLayout(joined, positions)
              ELSE /\ positions' = positions
                   /\ IF joined # <<>> THEN Through(joined) ELSE UNCHANGED <<doc, undoStack>>
      ELSE /\ dragging' = dragging /\ positions' = positions
           /\ IF joined # <<>> THEN Through(joined) ELSE UNCHANGED <<doc, undoStack>>
  BY DEF ReleaseRest
<1>3. /\ joined \in Seq(Good(used)) /\ Len(joined) <= 1 /\ Few(joined)
      /\ joined # <<>> => Last(joined).at = doc.at
  <2>1. CASE ends /\ up /\ where \in Live \cap Actions /\ Connectable(Graph, e)
    <3> DEFINE stage == [doc EXCEPT !.graph = g]
    <3>1. joined = <<stage>>  BY <2>1 DEF Graph
    <3>2. g \in Graphs /\ Joined(g) /\ g.nodes = Graph.nodes
      <4>1. Connectable(Graph, <<connecting.source, connecting.port, where>>)  BY <2>1
      <4> QED BY <4>1, ConnectedGraph
    <3> HIDE DEF g
    <3>3. g.nodes = doc.graph.nodes /\ g.nodes \subseteq used /\ doc \in Good(used)
      BY <3>2, GraphParts DEF Graph, Live
    <3>4. stage \in Good(used) /\ stage.at = doc.at  BY <3>2, <3>3, GraphGood
    <3> HIDE DEF stage, joined
    <3>5. /\ <<stage>> \in Seq(Good(used)) /\ Last(<<stage>>) = stage
          /\ Len(<<stage>>) = 1 /\ Few(<<stage>>)
      BY <3>4, OneStage
    <3> QED BY <3>1, <3>4, <3>5
  <2>2. CASE ~(ends /\ up /\ where \in Live \cap Actions /\ Connectable(Graph, e))
    <3>1. joined = <<>>  BY <2>2
    <3> HIDE DEF joined, Good
    <3> QED BY <3>1 DEF Few
  <2> QED BY <2>1, <2>2
<1> HIDE DEF joined
<1>4. CASE Holds(dragging, p) /\ dragging.moved
  <2>1. SaveNodeLayout(joined, positions) /\ dragging' \in Drags \cup {None}  BY <1>2, <1>4
  <2> QED BY <1>1, <1>3, <2>1, SavingKeeps
<1>5. CASE ~(Holds(dragging, p) /\ dragging.moved)
  <2>1. positions' = positions
        /\ (IF joined # <<>> THEN Through(joined) ELSE UNCHANGED <<doc, undoStack>>)
    BY <1>2, <1>5
  <2>2. DragKept
    <3>1. CASE Holds(dragging, p)
      <4>1. dragging' = None /\ Rests(dragging)  BY <1>2, <1>5, <3>1 DEF Rests
      <4> QED BY <4>1 DEF DragKept
    <3>2. CASE ~Holds(dragging, p)  BY <1>2, <3>2, DragStays
    <3> QED BY <3>1, <3>2
  <2>3. CASE joined # <<>>  BY <1>1, <1>3, <2>1, <2>2, <2>3, StagesKeep
  <2>4. CASE joined = <<>>  BY <1>1, <2>1, <2>2, <2>4, IdleKeeps
  <2> QED BY <2>3, <2>4
<1> QED BY <1>4, <1>5

LEMMA ReleaseDoc ==
  ASSUME IInv, NEW p \in Pointers, NEW up \in BOOLEAN, Release(p, up)
  PROVE  DocKept
<1> USE DEF docVars, clipVars, edgeVars, holdVars, libVars
<1>1. CASE ReleasePan(p, up)  BY <1>1, IdleKeeps, DragStays DEF ReleasePan
<1>2. CASE ReleaseBox(p)  BY <1>2, IdleKeeps, DragStays DEF ReleaseBox
<1>3. CASE ReleaseArea(p, up)
  <2>1. StopAreaDrag(~up) /\ dragging' = dragging  BY <1>3 DEF ReleaseArea
  <2> QED BY <2>1, StopAreaKeeps, DragStays
<1>4. CASE ReleaseRoute(p, up)
  <2>1. used' = used /\ dragging' = dragging  BY <1>4 DEF ReleaseRoute
  <2>2. CASE up /\ routeDrag.moved
    <3>1. SaveNodeLayout(<<>>, positions)  BY <1>4, <2>2 DEF ReleaseRoute
    <3>2. positions \in [Nodes -> Places] /\ dragging' \in Drags \cup {None}
      BY <2>1 DEF IInv, PlaceInv
    <3> QED BY <2>1, <3>1, <3>2, LayoutKeeps
  <2>3. CASE ~(up /\ routeDrag.moved)
    BY <1>4, <2>1, <2>3, IdleKeeps, DragStays DEF ReleaseRoute
  <2> QED BY <2>2, <2>3
<1>5. ASSUME NEW where, ReleaseRest(p, up, where) PROVE DocKept  BY <1>5, ReleaseRestDoc
<1> QED BY <1>1, <1>2, <1>3, <1>4, <1>5 DEF Release

LEMMA OnInputDoc == ASSUME IInv, NEW p, NEW n, ReleaseOnInput(p, n) PROVE DocKept
<1>1. used' = used /\ positions' = positions /\ dragging' = dragging
  BY DEF ReleaseOnInput, holdVars
<1>2. CompleteConnection(n) \/ UNCHANGED <<doc, undoStack>>  BY DEF ReleaseOnInput
<1> QED BY <1>1, <1>2, CompleteKeeps, IdleKeeps, DragStays

LEMMA NextDoc == ASSUME IInv, Next PROVE DocKept
<1>1. CASE Click  BY <1>1, ClickDoc
<1>2. CASE StopCanvasPan
  BY <1>2, IdleKeeps, DragStays DEF StopCanvasPan, Rest, docVars
<1>3. ASSUME NEW t \in frames, Frame(t) PROVE DocKept  BY <1>3, FrameDoc
<1>4. ASSUME NEW p \in Pointers, PressSomething(p) PROVE DocKept  BY <1>4, PressDoc
<1>5. ASSUME NEW p \in Pointers, Move(p) PROVE DocKept  BY <1>5, MoveDoc
<1>6. ASSUME NEW p \in Pointers, NEW up \in BOOLEAN, Release(p, up) PROVE DocKept  BY <1>6, ReleaseDoc
<1>7. ASSUME NEW p, NEW n, ReleaseOnInput(p, n) PROVE DocKept  BY <1>7, OnInputDoc
<1> QED BY <1>1, <1>2, <1>3, <1>4, <1>5, <1>6, <1>7 DEF Next

-----------------------------------------------------------------------------
(* Selections, the clipboard, and the placements that are left.             *)

CardsKept == SelectInv' /\ FrameInv' /\ ClipInv'

LEMMA CardsIdle ==
  ASSUME IInv, selected' = selected \/ selected' \in SUBSET Nodes,
         UNCHANGED <<copied, clipboard, frames>>,
         pendingInsertion' \in {pendingInsertion, None}
  PROVE  CardsKept
BY DEF IInv, SelectInv, FrameInv, ClipInv, CardsKept

\* The places of the cards that are remembered for an insertion.
LEMMA CapturePlaces ==
  ASSUME IInv, NEW c, NEW dropped, CaptureInsertion(c, dropped),
         UNCHANGED <<selected, copied, clipboard, frames>>
  PROVE  CardsKept
<1>1. pendingInsertion'.at = [n \in Live |-> positions[n]]  BY DEF CaptureInsertion
<1>2. \A n \in DOMAIN pendingInsertion'.at : pendingInsertion'.at[n] \in Places
  BY <1>1, GraphParts
<1>3. FrameInv'  BY <1>2 DEF IInv, FrameInv
<1>4. SelectInv' /\ ClipInv'  BY DEF IInv, SelectInv, ClipInv
<1> QED BY <1>3, <1>4 DEF CardsKept

LEMMA PasteCards == ASSUME IInv, PasteClipboard PROVE CardsKept
<1>1. PICK f \in Renamings(clipboard, Fresh), v \in Places :
        LET new == {f[n] : n \in clipboard.nodes}
            placed == {f[n] : n \in clipboard.nodes \cap copied}
        IN /\ Through(Pastes(clipboard, f))
           /\ used' = used \cup new
           /\ frames' = frames \cup {[kind |-> "paste", desired |-> [n \in placed |-> v]]}
  BY Zenon DEF PasteClipboard
<1> DEFINE placed == {f[m] : m \in clipboard.nodes \cap copied}
<1>2. frames' = frames \cup {[kind |-> "paste", desired |-> [n \in placed |-> v]]}
  BY <1>1
<1> HIDE DEF placed
<1>3. \A t \in frames' : \A n \in DOMAIN t.desired : t.desired[n] \in Places
  BY <1>2 DEF IInv, FrameInv
<1>4. UNCHANGED <<selected, copied, clipboard, pendingInsertion>>
  BY DEF PasteClipboard, clipVars, libVars
<1> QED BY <1>3, <1>4 DEF CardsKept, IInv, SelectInv, FrameInv, ClipInv

LEMMA InsertCards == ASSUME IInv, NEW n \in Nodes, InsertNode(n) PROVE CardsKept
<1> DEFINE captured == ~pendingDrop /\ pendingInsertion # None /\ n \notin Starts
<1>1. PICK v \in Places :
        /\ selected' = IF pendingDrop \/ captured THEN selected ELSE {n}
        /\ pendingInsertion' = IF captured THEN None ELSE pendingInsertion
        /\ \/ /\ captured
              /\ \E room \in {{}, pendingInsertion.ahead} :
                   frames' = frames \cup
                     {[kind |-> "insert",
                       desired |-> [m \in DOMAIN pendingInsertion.at \cup {n} |->
                                      IF m = n THEN v
                                      ELSE IF m \in room /\ ~pendingInsertion.dropped THEN 1
                                      ELSE pendingInsertion.at[m]]]}
           \/ frames' = frames
  BY DEF InsertNode
<1>2. copied' = copied /\ clipboard' = clipboard  BY DEF InsertNode, clipVars
<1>3. selected' \in SUBSET Nodes /\ pendingInsertion' \in {pendingInsertion, None}
  BY <1>1 DEF IInv, SelectInv
<1>4. CASE frames' = frames  BY <1>2, <1>3, <1>4, CardsIdle
<1>5. CASE frames' # frames
  <2>1. captured  BY <1>1, <1>5
  <2>2. PICK room :
          frames' = frames \cup
            {[kind |-> "insert",
              desired |-> [m \in DOMAIN pendingInsertion.at \cup {n} |->
                             IF m = n THEN v
                             ELSE IF m \in room /\ ~pendingInsertion.dropped THEN 1
                             ELSE pendingInsertion.at[m]]]}
    BY <1>1, <1>5
  <2> DEFINE desired == [m \in DOMAIN pendingInsertion.at \cup {n} |->
                           IF m = n THEN v
                           ELSE IF m \in room /\ ~pendingInsertion.dropped THEN 1
                           ELSE pendingInsertion.at[m]]
  <2>3. \A m \in DOMAIN pendingInsertion.at : pendingInsertion.at[m] \in Places
    BY <2>1 DEF IInv, FrameInv
  <2>4. \A m \in DOMAIN desired : desired[m] \in Places
    <3>1. 1 \in Places  BY DEF Places
    <3> HIDE DEF Places
    <3> QED BY <2>3, <3>1
  <2> HIDE DEF desired
  <2>5. frames' = frames \cup {[kind |-> "insert", desired |-> desired]}  BY <2>2 DEF desired
  <2>6. \A t \in frames' : \A m \in DOMAIN t.desired : t.desired[m] \in Places
    BY <2>4, <2>5 DEF IInv, FrameInv
  <2>7. pendingInsertion' = None  BY <1>1, <2>1
  <2> QED BY <1>2, <1>3, <2>6, <2>7 DEF CardsKept, IInv, SelectInv, FrameInv, ClipInv
<1> QED BY <1>4, <1>5

LEMMA ClickCards == ASSUME IInv, Click PROVE CardsKept
<1> USE DEF docVars, clipVars, edgeVars, holdVars, libVars
<1>0. Graph \in Graphs /\ Joined(Graph) /\ Live \subseteq Nodes  BY GraphParts
<1>1. CASE Undo  BY <1>1, CardsIdle DEF Undo
<1>2. CASE DeleteSelected  BY <1>2, CardsIdle DEF DeleteSelected
<1>3. CASE CopySelected
  <2>1. /\ clipboard' = Copy(Graph, selected)
        /\ copied' = (IF selected \cap Live # {} THEN selected \cap Live ELSE copied)
        /\ UNCHANGED <<selected, frames, pendingInsertion>>
    BY <1>3 DEF CopySelected
  <2>2. ClipInv'  BY <1>0, <2>1, CopyType, CopyJoins DEF ClipInv
  <2>3. copied' \in SUBSET Nodes  BY <1>0, <2>1 DEF IInv, SelectInv
  <2> QED BY <2>1, <2>2, <2>3 DEF CardsKept, IInv, SelectInv, FrameInv
<1>4. CASE PasteClipboard  BY <1>4, PasteCards
<1>5. CASE ResetNodeLayout  BY <1>5, CardsIdle DEF ResetNodeLayout
<1>6. ASSUME NEW n \in Nodes, RemoveNode(n) PROVE CardsKept  BY <1>6, CardsIdle DEF RemoveNode
<1>7. ASSUME NEW n \in Nodes, DuplicateNode(n) PROVE CardsKept
  <2>1. clipboard' = Copy(Graph, {n}) /\ UNCHANGED <<selected, copied, frames, pendingInsertion>>
    BY <1>7 DEF DuplicateNode
  <2>2. ClipInv'  BY <1>0, <2>1, CopyType, CopyJoins DEF ClipInv
  <2> QED BY <2>1, <2>2 DEF CardsKept, IInv, SelectInv, FrameInv
<1>8. ASSUME NEW n \in Nodes, InsertNode(n) PROVE CardsKept  BY <1>8, InsertCards
<1>9. ASSUME NEW n \in Nodes, ClickTarget(n) PROVE CardsKept  BY <1>9, CardsIdle DEF ClickTarget
<1>10. ASSUME NEW v, EditArea(v) PROVE CardsKept  BY <1>10, CardsIdle DEF EditArea
<1>11. CASE OpenCanvasPalette  BY <1>11, CardsIdle DEF OpenCanvasPalette
<1>12. CASE OpenLibrary  BY <1>12, CardsIdle DEF OpenLibrary
<1>13. CASE OpenEmpty  BY <1>13, CardsIdle DEF OpenEmpty
<1>14. CASE CloseLibrary  BY <1>14, CardsIdle DEF CloseLibrary
<1>15. CASE CloseHint  BY <1>15, CardsIdle DEF CloseHint
<1>16. CASE Escape  BY <1>16, CardsIdle DEF Escape
<1>17. ASSUME NEW c, ClickEdge(c) PROVE CardsKept
  <2>1. CaptureInsertion(c, FALSE) /\ UNCHANGED <<selected, copied, clipboard, frames>>
    BY <1>17 DEF ClickEdge, OpenEdgePalette
  <2> QED BY <2>1, CapturePlaces
<1>18. ASSUME NEW e \in Graph.edges, RemoveSelectedEdge(e) PROVE CardsKept
  BY <1>18, CardsIdle DEF RemoveSelectedEdge
<1> QED BY <1>1, <1>2, <1>3, <1>4, <1>5, <1>6, <1>7, <1>8, <1>9, <1>10, <1>11, <1>12, <1>13,
           <1>14, <1>15, <1>16, <1>17, <1>18 DEF Click

LEMMA PressCards == ASSUME IInv, NEW p \in Pointers, PressSomething(p) PROVE CardsKept
<1> USE DEF docVars, clipVars, edgeVars, holdVars, libVars, Rest
<1>0. Live \subseteq Nodes  BY GraphParts
<1>1. CASE PressNothing(p)  BY <1>1, CardsIdle DEF PressNothing
<1>2. CASE StartCanvasPan(p)  BY <1>2, CardsIdle DEF StartCanvasPan
<1>3. CASE StartBoxSelection(p)  BY <1>3, CardsIdle DEF StartBoxSelection
<1>4. CASE StartAreaDrag(p)  BY <1>4, CardsIdle DEF StartAreaDrag
<1>5. CASE StartEdgeRouteDrag(p)  BY <1>5, CardsIdle DEF StartEdgeRouteDrag
<1>6. ASSUME NEW n \in Live, ToggleSelected(p, n) PROVE CardsKept
  <2>1. selected' \in SUBSET Nodes  BY <1>0, <1>6 DEF ToggleSelected, IInv, SelectInv
  <2> QED BY <1>6, <2>1, CardsIdle DEF ToggleSelected
<1>7. ASSUME NEW n \in Live, StartNodeDrag(p, n) PROVE CardsKept
  <2>1. selected' \in SUBSET Nodes  BY <1>0, <1>7 DEF StartNodeDrag, IInv, SelectInv
  <2> QED BY <1>7, <2>1, CardsIdle DEF StartNodeDrag
<1>8. ASSUME NEW n, NEW port, StartConnection(p, n, port) PROVE CardsKept
  BY <1>8, CardsIdle DEF StartConnection
<1>9. ASSUME NEW c, StartEdgeControlDrag(p, c) PROVE CardsKept
  BY <1>9, CardsIdle DEF StartEdgeControlDrag
<1>10. ASSUME NEW e, StartIncomingConnection(p, e) PROVE CardsKept
  BY <1>10, CardsIdle DEF StartIncomingConnection
<1> QED BY <1>1, <1>2, <1>3, <1>4, <1>5, <1>6, <1>7, <1>8, <1>9, <1>10 DEF PressSomething

LEMMA MoveCards == ASSUME IInv, NEW p \in Pointers, Move(p) PROVE CardsKept
<1> USE DEF docVars, clipVars, edgeVars, holdVars, libVars
<1>0. UNCHANGED <<copied, clipboard, frames, pendingInsertion>>  BY DEF Move
<1>1. CASE MovePan(p)  BY <1>0, <1>1, CardsIdle DEF MovePan
<1>2. CASE MoveRoute(p)  BY <1>0, <1>2, CardsIdle DEF MoveRoute
<1>3. CASE MoveEdge(p)  BY <1>0, <1>3, CardsIdle DEF MoveEdge
<1>4. ASSUME NEW v \in Places, MoveAreaDrag(p, v) PROVE CardsKept
  BY <1>0, <1>4, CardsIdle DEF MoveAreaDrag
<1>5. ASSUME NEW v \in Places, MoveNodes(p, v) PROVE CardsKept
  BY <1>0, <1>5, CardsIdle DEF MoveNodes
<1>6. ASSUME NEW S \in SUBSET Live, MoveBox(p, S) PROVE CardsKept
  <2>1. selection # None /\ selected' = selection.previous \cup S  BY <1>6 DEF MoveBox, Holds
  <2>2. selection.previous \in SUBSET Nodes  BY <2>1 DEF IInv, HoldInv, Boxes
  <2>3. selected' \in SUBSET Nodes  BY <2>1, <2>2, GraphParts
  <2> QED BY <1>0, <2>3, CardsIdle
<1> QED BY <1>1, <1>2, <1>3, <1>4, <1>5, <1>6 DEF Move

LEMMA ReleaseCards ==
  ASSUME IInv, NEW p \in Pointers, NEW up \in BOOLEAN, Release(p, up)
  PROVE  CardsKept
<1> USE DEF docVars, clipVars, edgeVars, holdVars, libVars
<1>0. UNCHANGED <<copied, clipboard, frames>>  BY DEF Release
<1>1. CASE ReleasePan(p, up)  BY <1>0, <1>1, CardsIdle DEF ReleasePan
<1>2. CASE ReleaseBox(p)  BY <1>0, <1>2, CardsIdle DEF ReleaseBox
<1>3. CASE ReleaseArea(p, up)  BY <1>0, <1>3, CardsIdle DEF ReleaseArea
<1>4. CASE ReleaseRoute(p, up)  BY <1>0, <1>4, CardsIdle DEF ReleaseRoute
<1>5. ASSUME NEW where, ReleaseRest(p, up, where) PROVE CardsKept
  <2>1. selected' = selected  BY <1>5 DEF ReleaseRest
  <2>2. pendingInsertion' = pendingInsertion \/ \E c, dropped : CaptureInsertion(c, dropped)
    BY <1>5 DEF ReleaseRest, OpenEdgePalette
  <2> QED BY <1>0, <2>1, <2>2, CardsIdle, CapturePlaces
<1> QED BY <1>1, <1>2, <1>3, <1>4, <1>5 DEF Release

LEMMA NextCards == ASSUME IInv, Next PROVE CardsKept
<1> USE DEF docVars, clipVars, edgeVars, holdVars, libVars
<1>1. CASE Click  BY <1>1, ClickCards
<1>2. CASE StopCanvasPan  BY <1>2, CardsIdle DEF StopCanvasPan, Rest
<1>3. ASSUME NEW t \in frames, Frame(t) PROVE CardsKept
  <2>1. frames' \subseteq frames /\ UNCHANGED <<copied, clipboard, pendingInsertion>>
    BY <1>3 DEF Frame
  <2>2. selected' \in SUBSET Nodes
    BY <1>3, GraphParts DEF Frame, IInv, SelectInv
  <2> QED BY <2>1, <2>2 DEF CardsKept, IInv, SelectInv, FrameInv, ClipInv
<1>4. ASSUME NEW p \in Pointers, PressSomething(p) PROVE CardsKept  BY <1>4, PressCards
<1>5. ASSUME NEW p \in Pointers, Move(p) PROVE CardsKept  BY <1>5, MoveCards
<1>6. ASSUME NEW p \in Pointers, NEW up \in BOOLEAN, Release(p, up) PROVE CardsKept
  BY <1>6, ReleaseCards
<1>7. ASSUME NEW p, NEW n, ReleaseOnInput(p, n) PROVE CardsKept
  BY <1>7, CardsIdle DEF ReleaseOnInput
<1> QED BY <1>1, <1>2, <1>3, <1>4, <1>5, <1>6, <1>7 DEF Next

-----------------------------------------------------------------------------
(* Gestures.                                                                *)

GesturesKept == OfferInv' /\ HoldInv' /\ AloneInv'

\* A gesture is over, or goes on with its pointer, which is not released.
Goes(new, old, released) ==
  new = None \/ (old # None /\ new.pointer = old.pointer /\ new.pointer \notin released)

HoldTypes ==
  /\ canvasPan \in Presses \cup {None} /\ areaDrag \in AreaDrags \cup {None}
  /\ routeDrag \in Presses \cup {None} /\ selection \in Boxes \cup {None}
  /\ down \in SUBSET Pointers

LEMMA GoingOn ==
  ASSUME IInv, NEW released, down \ released \subseteq down', HoldTypes',
         Goes(canvasPan', canvasPan, released), Goes(areaDrag', areaDrag, released),
         Goes(routeDrag', routeDrag, released), Goes(selection', selection, released),
         Goes(pendingEdgeDrag', pendingEdgeDrag, released), dragging' = None \/ dragging # None
  PROVE  HoldInv' /\ AloneInv'
<1>1. /\ Held(canvasPan)' /\ Held(areaDrag)' /\ Held(routeDrag)' /\ Held(selection)'
      /\ Held(pendingEdgeDrag)'
  BY DEF IInv, HoldInv, Held, Goes
<1>2. /\ Apart(canvasPan, areaDrag)' /\ Apart(canvasPan, routeDrag)' /\ Apart(canvasPan, selection)'
      /\ Apart(canvasPan, pendingEdgeDrag)' /\ Apart(areaDrag, routeDrag)'
      /\ Apart(areaDrag, selection)' /\ Apart(areaDrag, pendingEdgeDrag)'
      /\ Apart(routeDrag, selection)' /\ Apart(routeDrag, pendingEdgeDrag)'
      /\ Apart(selection, pendingEdgeDrag)'
  BY DEF IInv, HoldInv, Apart, Goes
<1>3. AloneInv'  BY DEF IInv, AloneInv, Goes
<1> QED BY <1>1, <1>2, <1>3 DEF HoldInv, HoldTypes

LEMMA TypesOfHolds == ASSUME IInv PROVE HoldTypes
BY DEF IInv, HoldInv, HoldTypes

LEMMA OffersIdle ==
  ASSUME IInv, insertConnection' \in {insertConnection, None}, connecting' \in {connecting, None},
         pendingEdgeDrag' \in {pendingEdgeDrag, None}
  PROVE  OfferInv'
BY DEF IInv, OfferInv

\* Gestures may be over; none begins.
LEMMA GesturesIdle ==
  ASSUME IInv, down \subseteq down', down' \in SUBSET Pointers,
         canvasPan' \in {canvasPan, None}, areaDrag' \in {areaDrag, None},
         routeDrag' \in {routeDrag, None}, selection' \in {selection, None},
         pendingEdgeDrag' \in {pendingEdgeDrag, None}, dragging' \in {dragging, None},
         connecting' \in {connecting, None}, insertConnection' \in {insertConnection, None}
  PROVE  GesturesKept
<1>1. HoldTypes'  BY TypesOfHolds DEF HoldTypes
<1>2. /\ Goes(canvasPan', canvasPan, {}) /\ Goes(areaDrag', areaDrag, {})
      /\ Goes(routeDrag', routeDrag, {}) /\ Goes(selection', selection, {})
      /\ Goes(pendingEdgeDrag', pendingEdgeDrag, {})
  BY DEF Goes
<1>3. down \ {} \subseteq down' /\ (dragging' = None \/ dragging # None)  OBVIOUS
<1>4. HoldInv' /\ AloneInv'  BY <1>1, <1>2, <1>3, GoingOn
<1> QED BY <1>4, OffersIdle DEF GesturesKept

\* What the canvas offers, and what begins there.
LEMMA CanvasOffers == ASSUME IInv, NEW c \in CanvasEdges PROVE Offers(c)
<1>1. Graph \in Graphs /\ Joined(Graph) /\ Live \subseteq Nodes  BY GraphParts
<1>2. CASE c \in Graph.edges
  <2>1. c \in Edges /\ Joins(Graph, c)  BY <1>1, <1>2 DEF Graphs, Joined
  <2> QED BY <2>1 DEF Offers, Conns, Edges, Joins
<1>3. CASE c \notin Graph.edges
  BY <1>1, <1>3 DEF CanvasEdges, Offers, Conns
<1> QED BY <1>2, <1>3

LEMMA OffersDrawn ==
  ASSUME NEW c, Offers(c)
  PROVE  /\ [source |-> c[1], port |-> c[2], replace |-> c[3]] \in Drawings
         /\ \A d \in Drawings : Offers(<<d.source, d.port, d.replace>>)
<1>1. c = <<c[1], c[2], c[3]>> /\ c[1] \in Nodes /\ c[2] \in AllPorts /\ c[3] \in Nodes \cup {None}
  BY DEF Offers, Conns
<1> QED BY <1>1 DEF Drawings

LEMMA ClickGestures == ASSUME IInv, Click PROVE GesturesKept
<1> USE DEF docVars, clipVars, edgeVars, holdVars, libVars, CancelConnection
<1>0. down \in SUBSET Pointers  BY DEF IInv, HoldInv
<1>1. CASE Undo  BY <1>0, <1>1, GesturesIdle DEF Undo
<1>2. CASE DeleteSelected  BY <1>0, <1>2, GesturesIdle DEF DeleteSelected
<1>3. CASE CopySelected  BY <1>0, <1>3, GesturesIdle DEF CopySelected
<1>4. CASE PasteClipboard  BY <1>0, <1>4, GesturesIdle DEF PasteClipboard
<1>5. CASE ResetNodeLayout  BY <1>0, <1>5, GesturesIdle DEF ResetNodeLayout
<1>6. ASSUME NEW n, RemoveNode(n) PROVE GesturesKept  BY <1>0, <1>6, GesturesIdle DEF RemoveNode
<1>7. ASSUME NEW n, DuplicateNode(n) PROVE GesturesKept
  BY <1>0, <1>7, GesturesIdle DEF DuplicateNode
<1>8. ASSUME NEW n, InsertNode(n) PROVE GesturesKept  BY <1>0, <1>8, GesturesIdle DEF InsertNode
<1>9. ASSUME NEW n, ClickTarget(n) PROVE GesturesKept
  BY <1>0, <1>9, GesturesIdle DEF ClickTarget, CompleteConnection
<1>10. ASSUME NEW v, EditArea(v) PROVE GesturesKept  BY <1>0, <1>10, GesturesIdle DEF EditArea
<1>11. CASE OpenCanvasPalette
  BY <1>0, <1>11, GesturesIdle DEF OpenCanvasPalette, PreparePalette
<1>12. CASE OpenLibrary  BY <1>0, <1>12, GesturesIdle DEF OpenLibrary, PreparePalette
<1>13. CASE OpenEmpty  BY <1>0, <1>13, GesturesIdle DEF OpenEmpty
<1>14. CASE CloseLibrary  BY <1>0, <1>14, GesturesIdle DEF CloseLibrary
<1>15. CASE CloseHint  BY <1>0, <1>15, GesturesIdle DEF CloseHint
<1>16. CASE Escape  BY <1>0, <1>16, GesturesIdle DEF Escape, StopAreaDrag
<1>17. ASSUME NEW c \in CanvasEdges, ClickEdge(c) PROVE GesturesKept
  <2>1. insertConnection' = c /\ UNCHANGED <<down, edgeVars, holdVars>>
    BY <1>17 DEF ClickEdge, OpenEdgePalette, PreparePalette
  <2>2. OfferInv'  BY <2>1, CanvasOffers DEF IInv, OfferInv
  <2>3. HoldInv' /\ AloneInv'  BY <2>1 DEF IInv, HoldInv, AloneInv, Held, Apart
  <2> QED BY <2>2, <2>3 DEF GesturesKept
<1>18. ASSUME NEW e, RemoveSelectedEdge(e) PROVE GesturesKept
  BY <1>0, <1>18, GesturesIdle DEF RemoveSelectedEdge
<1> QED BY <1>1, <1>2, <1>3, <1>4, <1>5, <1>6, <1>7, <1>8, <1>9, <1>10, <1>11, <1>12, <1>13,
           <1>14, <1>15, <1>16, <1>17, <1>18 DEF Click

LEMMA PressGestures == ASSUME IInv, NEW p \in Pointers, PressSomething(p) PROVE GesturesKept
<1> USE DEF docVars, clipVars, edgeVars, holdVars, libVars, Rest, Press
<1>0. /\ down \in SUBSET Pointers /\ HoldTypes
      /\ Graph \in Graphs /\ Joined(Graph) /\ Live \subseteq Nodes
  BY TypesOfHolds, GraphParts DEF IInv, HoldInv
<1>1. CASE PressNothing(p)  BY <1>0, <1>1, GesturesIdle DEF PressNothing
<1>2. CASE StartCanvasPan(p)
  <2>1. /\ p \notin down /\ down' = down \cup {p} /\ canvasPan' = [pointer |-> p, moved |-> FALSE]
        /\ selection = None /\ dragging = None
        /\ UNCHANGED <<edgeVars, areaDrag, selection, dragging, insertConnection>>
    BY <1>2 DEF StartCanvasPan, Busy
  <2>2. canvasPan' \in Presses /\ canvasPan'.pointer = p  BY <2>1 DEF Presses
  <2>3. HoldInv'  BY <1>0, <2>1, <2>2 DEF IInv, HoldInv, Held, Apart
  <2>4. OfferInv' /\ AloneInv'  BY <2>1, OffersIdle DEF AloneInv
  <2> QED BY <2>3, <2>4 DEF GesturesKept
<1>3. CASE StartBoxSelection(p)
  <2>1. /\ p \notin down /\ down' = down \cup {p}
        /\ selection' = [pointer |-> p, previous |-> selected]
        /\ canvasPan = None /\ dragging = None
        /\ UNCHANGED <<edgeVars, areaDrag, canvasPan, dragging, insertConnection>>
    BY <1>3 DEF StartBoxSelection, Busy
  <2>2. selection' \in Boxes /\ selection'.pointer = p  BY <2>1 DEF Boxes, IInv, SelectInv
  <2>3. HoldInv'  BY <1>0, <2>1, <2>2 DEF IInv, HoldInv, Held, Apart
  <2>4. OfferInv' /\ AloneInv'  BY <2>1, OffersIdle DEF AloneInv
  <2> QED BY <2>3, <2>4 DEF GesturesKept
<1>4. CASE StartAreaDrag(p)
  <2>1. /\ p \notin down /\ down' = down \cup {p} /\ doc.area # None
        /\ areaDrag' = [pointer |-> p, before |-> doc.area]
        /\ UNCHANGED <<edgeVars, canvasPan, selection, dragging, insertConnection>>
    BY <1>4 DEF StartAreaDrag
  <2>2. doc.area \in Places  BY <2>1, GraphParts, GoodParts
  <2>3. areaDrag' \in AreaDrags /\ areaDrag'.pointer = p  BY <2>1, <2>2 DEF AreaDrags
  <2>4. HoldInv'  BY <1>0, <2>1, <2>3 DEF IInv, HoldInv, Held, Apart
  <2>5. OfferInv' /\ AloneInv'  BY <2>1, OffersIdle DEF IInv, AloneInv
  <2> QED BY <2>4, <2>5 DEF GesturesKept
<1>5. CASE StartEdgeRouteDrag(p)
  <2>1. /\ p \notin down /\ down' = down \cup {p} /\ routeDrag' = [pointer |-> p, moved |-> FALSE]
        /\ UNCHANGED <<pendingEdgeDrag, connecting, holdVars, insertConnection>>
    BY <1>5 DEF StartEdgeRouteDrag
  <2>2. routeDrag' \in Presses /\ routeDrag'.pointer = p  BY <2>1 DEF Presses
  <2>3. HoldInv'  BY <1>0, <2>1, <2>2 DEF IInv, HoldInv, Held, Apart
  <2>4. OfferInv' /\ AloneInv'  BY <2>1, OffersIdle DEF IInv, AloneInv
  <2> QED BY <2>3, <2>4 DEF GesturesKept
<1>6. ASSUME NEW n, ToggleSelected(p, n) PROVE GesturesKept
  BY <1>0, <1>6, GesturesIdle DEF ToggleSelected
<1>7. ASSUME NEW n, StartNodeDrag(p, n) PROVE GesturesKept
  <2>1. /\ down' = down \cup {p} /\ canvasPan = None /\ selection = None
        /\ UNCHANGED <<edgeVars, canvasPan, areaDrag, selection, insertConnection>>
    BY <1>7 DEF StartNodeDrag, Busy
  <2>2. HoldInv'  BY <1>0, <2>1 DEF IInv, HoldInv, Held, Apart
  <2>3. OfferInv' /\ AloneInv'  BY <2>1, OffersIdle DEF AloneInv
  <2> QED BY <2>2, <2>3 DEF GesturesKept
<1>8. ASSUME NEW n \in Live, NEW port \in Ports(n), StartConnection(p, n, port) PROVE GesturesKept
  <2>1. /\ down' = down \cup {p} /\ connecting' = [source |-> n, port |-> port, replace |-> None]
        /\ UNCHANGED <<routeDrag, pendingEdgeDrag, holdVars, insertConnection>>
    BY <1>8 DEF StartConnection
  <2>2. Offers(<<n, port, None>>)  BY <1>0, PortsOfNodes DEF Offers, Conns
  <2>3. connecting' \in Drawings
    <3> DEFINE c == <<n, port, None>>
    <3>1. Offers(c) /\ c[1] = n /\ c[2] = port /\ c[3] = None  BY <2>2
    <3> HIDE DEF c
    <3> QED BY <2>1, <3>1, OffersDrawn
  <2>4. OfferInv'  BY <2>1, <2>3 DEF IInv, OfferInv
  <2>5. HoldInv' /\ AloneInv'  BY <1>0, <2>1 DEF IInv, HoldInv, AloneInv, Held, Apart
  <2> QED BY <2>4, <2>5 DEF GesturesKept
<1>9. ASSUME NEW c \in CanvasEdges, StartEdgeControlDrag(p, c) PROVE GesturesKept
  <2>1. /\ p \notin down /\ down' = down \cup {p}
        /\ pendingEdgeDrag' = [pointer |-> p, edge |-> c, moved |-> FALSE]
        /\ UNCHANGED <<routeDrag, connecting, holdVars, insertConnection>>
    BY <1>9 DEF StartEdgeControlDrag
  <2>2. c \in Conns /\ Offers(c)  BY CanvasOffers DEF Offers
  <2>3. pendingEdgeDrag' \in Pulls /\ pendingEdgeDrag'.pointer = p  BY <2>1, <2>2 DEF Pulls
  <2>4. OfferInv'  BY <2>1, <2>3 DEF IInv, OfferInv
  <2>5. HoldInv'  BY <1>0, <2>1, <2>3 DEF IInv, HoldInv, Held, Apart
  <2>6. AloneInv'  BY <2>1 DEF IInv, AloneInv
  <2> QED BY <2>4, <2>5, <2>6 DEF GesturesKept
<1>10. ASSUME NEW e \in Graph.edges, StartIncomingConnection(p, e) PROVE GesturesKept
  <2>1. /\ down' = down \cup {p}
        /\ connecting' = [source |-> e[1], port |-> e[2], replace |-> e[3]]
        /\ UNCHANGED <<routeDrag, pendingEdgeDrag, holdVars, insertConnection>>
    BY <1>10 DEF StartIncomingConnection
  <2>2. Offers(e)  BY CanvasOffers DEF CanvasEdges
  <2>3. connecting' \in Drawings  BY <2>1, <2>2, OffersDrawn
  <2>4. OfferInv'  BY <2>1, <2>3 DEF IInv, OfferInv
  <2>5. HoldInv' /\ AloneInv'  BY <1>0, <2>1 DEF IInv, HoldInv, AloneInv, Held, Apart
  <2> QED BY <2>4, <2>5 DEF GesturesKept
<1> QED BY <1>1, <1>2, <1>3, <1>4, <1>5, <1>6, <1>7, <1>8, <1>9, <1>10 DEF PressSomething

LEMMA MoveGestures == ASSUME IInv, NEW p \in Pointers, Move(p) PROVE GesturesKept
<1> USE DEF docVars, clipVars, edgeVars, holdVars, libVars
<1>0. UNCHANGED <<down, insertConnection>> /\ down \in SUBSET Pointers /\ HoldTypes
  BY TypesOfHolds DEF Move, HoldTypes
<1>1. CASE MovePan(p)
  <2>1. /\ canvasPan # None /\ canvasPan' = [canvasPan EXCEPT !.moved = TRUE]
        /\ UNCHANGED <<edgeVars, areaDrag, selection, dragging>>
    BY <1>1 DEF MovePan, Holds
  <2>2. canvasPan \in Presses  BY <1>0, <2>1 DEF HoldTypes
  <2>3. canvasPan' \in Presses /\ canvasPan'.pointer = canvasPan.pointer  BY <2>1, <2>2 DEF Presses
  <2>4. HoldInv'  BY <1>0, <2>1, <2>3 DEF IInv, HoldInv, Held, Apart
  <2>5. OfferInv' /\ AloneInv'  BY <1>0, <2>1, OffersIdle DEF IInv, AloneInv
  <2> QED BY <2>4, <2>5 DEF GesturesKept
<1>2. CASE MoveRoute(p)
  <2>1. /\ routeDrag # None /\ routeDrag' = [routeDrag EXCEPT !.moved = TRUE]
        /\ UNCHANGED <<pendingEdgeDrag, connecting, holdVars>>
    BY <1>2 DEF MoveRoute, Holds
  <2>2. routeDrag \in Presses  BY <1>0, <2>1 DEF HoldTypes
  <2>3. routeDrag' \in Presses /\ routeDrag'.pointer = routeDrag.pointer  BY <2>1, <2>2 DEF Presses
  <2>4. HoldInv'  BY <1>0, <2>1, <2>3 DEF IInv, HoldInv, Held, Apart
  <2>5. OfferInv' /\ AloneInv'  BY <1>0, <2>1, OffersIdle DEF IInv, AloneInv
  <2> QED BY <2>4, <2>5 DEF GesturesKept
<1>3. CASE MoveEdge(p)
  <2> DEFINE e == pendingEdgeDrag.edge
  <2>1. /\ pendingEdgeDrag # None /\ pendingEdgeDrag' = [pendingEdgeDrag EXCEPT !.moved = TRUE]
        /\ connecting' = [source |-> e[1], port |-> e[2], replace |-> e[3]]
        /\ UNCHANGED <<routeDrag, holdVars>>
    BY <1>3 DEF MoveEdge, Holds
  <2>2. pendingEdgeDrag \in Pulls  BY <2>1 DEF IInv, OfferInv
  <2>3. /\ Offers(e) /\ pendingEdgeDrag' \in Pulls
        /\ pendingEdgeDrag'.pointer = pendingEdgeDrag.pointer
    BY <2>1, <2>2 DEF Pulls
  <2>4. connecting' \in Drawings  BY <2>1, <2>3, OffersDrawn
  <2>5. OfferInv'  BY <1>0, <2>3, <2>4 DEF IInv, OfferInv
  <2>6. HoldInv'  BY <1>0, <2>1, <2>3 DEF IInv, HoldInv, Held, Apart
  <2>7. AloneInv'  BY <2>1 DEF IInv, AloneInv
  <2> QED BY <2>5, <2>6, <2>7 DEF GesturesKept
<1>4. ASSUME NEW v, MoveAreaDrag(p, v) PROVE GesturesKept
  BY <1>0, <1>4, GesturesIdle DEF MoveAreaDrag
<1>5. ASSUME NEW v, MoveNodes(p, v) PROVE GesturesKept
  <2>1. dragging # None /\ UNCHANGED <<edgeVars, canvasPan, areaDrag, selection>>
    BY <1>5 DEF MoveNodes, Holds
  <2>2. HoldInv' /\ AloneInv'  BY <1>0, <2>1 DEF IInv, HoldInv, AloneInv, Held, Apart
  <2>3. OfferInv'  BY <1>0, <2>1, OffersIdle
  <2> QED BY <2>2, <2>3 DEF GesturesKept
<1>6. ASSUME NEW S, MoveBox(p, S) PROVE GesturesKept
  BY <1>0, <1>6, GesturesIdle DEF MoveBox
<1> QED BY <1>1, <1>2, <1>3, <1>4, <1>5, <1>6 DEF Move

\* When a pointer is released what it held is over.
LEMMA OverGestures ==
  ASSUME IInv, NEW p, down' = down \ {p},
         \A gesture \in {canvasPan', areaDrag', routeDrag', selection', pendingEdgeDrag'} :
           gesture # None => gesture.pointer # p,
         canvasPan' \in {canvasPan, None}, areaDrag' \in {areaDrag, None},
         routeDrag' \in {routeDrag, None}, selection' \in {selection, None},
         pendingEdgeDrag' \in {pendingEdgeDrag, None}, dragging' \in {dragging, None}
  PROVE  HoldInv' /\ AloneInv'
<1>1. HoldTypes'  BY TypesOfHolds DEF HoldTypes
<1>2. /\ Goes(canvasPan', canvasPan, {p}) /\ Goes(areaDrag', areaDrag, {p})
      /\ Goes(routeDrag', routeDrag, {p}) /\ Goes(selection', selection, {p})
      /\ Goes(pendingEdgeDrag', pendingEdgeDrag, {p})
  BY DEF Goes
<1>3. down \ {p} \subseteq down' /\ (dragging' = None \/ dragging # None)  OBVIOUS
<1> QED BY <1>1, <1>2, <1>3, GoingOn

LEMMA ReleaseGestures ==
  ASSUME IInv, NEW p \in Pointers, NEW up \in BOOLEAN, Release(p, up)
  PROVE  GesturesKept
<1> USE DEF docVars, clipVars, edgeVars, holdVars, libVars, CancelConnection, Holds
<1>0. /\ down' = down \ {p}
      /\ Apart(canvasPan, areaDrag) /\ Apart(canvasPan, routeDrag) /\ Apart(canvasPan, selection)
      /\ Apart(canvasPan, pendingEdgeDrag) /\ Apart(areaDrag, routeDrag) /\ Apart(areaDrag, selection)
      /\ Apart(areaDrag, pendingEdgeDrag) /\ Apart(routeDrag, selection)
      /\ Apart(routeDrag, pendingEdgeDrag) /\ Apart(selection, pendingEdgeDrag)
  BY DEF Release, IInv, HoldInv
<1>1. CASE ReleasePan(p, up)
  BY <1>0, <1>1, OverGestures, OffersIdle DEF ReleasePan, Apart, GesturesKept
<1>2. CASE ReleaseBox(p)
  BY <1>0, <1>2, OverGestures, OffersIdle DEF ReleaseBox, Apart, GesturesKept
<1>3. CASE ReleaseArea(p, up)
  BY <1>0, <1>3, OverGestures, OffersIdle DEF ReleaseArea, StopAreaDrag, Apart, GesturesKept
<1>4. CASE ReleaseRoute(p, up)
  BY <1>0, <1>4, OverGestures, OffersIdle DEF ReleaseRoute, Apart, GesturesKept
<1>5. ASSUME NEW where, ReleaseRest(p, up, where) PROVE GesturesKept
  <2>1. /\ ~Holds(canvasPan, p) /\ ~Holds(areaDrag, p) /\ ~Holds(routeDrag, p)
        /\ ~Holds(selection, p) /\ UNCHANGED <<canvasPan, areaDrag, selection>>
        /\ dragging' \in {dragging, None} /\ routeDrag' \in {routeDrag, None}
        /\ connecting' \in {connecting, None}
        /\ pendingEdgeDrag' \in {pendingEdgeDrag, None}
        /\ Holds(pendingEdgeDrag, p) => pendingEdgeDrag' = None
    BY <1>5 DEF ReleaseRest
  <2>2. HoldInv' /\ AloneInv'  BY <1>0, <2>1, OverGestures
  <2>3. \/ insertConnection' = insertConnection
        \/ connecting # None
           /\ insertConnection' = <<connecting.source, connecting.port, connecting.replace>>
        \/ pendingEdgeDrag # None /\ insertConnection' = pendingEdgeDrag.edge
    BY <1>5 DEF ReleaseRest, OpenEdgePalette, PreparePalette
  <2>4. insertConnection' = None \/ Offers(insertConnection')
    <3>1. CASE insertConnection' = insertConnection  BY <3>1 DEF IInv, OfferInv
    <3>2. CASE /\ connecting # None
               /\ insertConnection' = <<connecting.source, connecting.port, connecting.replace>>
      BY <3>2 DEF IInv, OfferInv, Drawings
    <3>3. CASE pendingEdgeDrag # None /\ insertConnection' = pendingEdgeDrag.edge
      BY <3>3 DEF IInv, OfferInv, Pulls
    <3> QED BY <2>3, <3>1, <3>2, <3>3
  <2>5. OfferInv'  BY <2>1, <2>4 DEF IInv, OfferInv
  <2> QED BY <2>2, <2>5 DEF GesturesKept
<1> QED BY <1>1, <1>2, <1>3, <1>4, <1>5 DEF Release

LEMMA NextGestures == ASSUME IInv, Next PROVE GesturesKept
<1> USE DEF docVars, clipVars, edgeVars, holdVars, libVars
<1>0. down \in SUBSET Pointers  BY DEF IInv, HoldInv
<1>1. CASE Click  BY <1>1, ClickGestures
<1>2. CASE StopCanvasPan  BY <1>0, <1>2, GesturesIdle DEF StopCanvasPan, Rest
<1>3. ASSUME NEW t, Frame(t) PROVE GesturesKept  BY <1>0, <1>3, GesturesIdle DEF Frame
<1>4. ASSUME NEW p \in Pointers, PressSomething(p) PROVE GesturesKept  BY <1>4, PressGestures
<1>5. ASSUME NEW p \in Pointers, Move(p) PROVE GesturesKept  BY <1>5, MoveGestures
<1>6. ASSUME NEW p \in Pointers, NEW up \in BOOLEAN, Release(p, up) PROVE GesturesKept
  BY <1>6, ReleaseGestures
<1>7. ASSUME NEW p, NEW n, ReleaseOnInput(p, n) PROVE GesturesKept
  <2>1. /\ down' = down \ {p} /\ UNCHANGED <<canvasPan, areaDrag, selection, dragging, insertConnection>>
        /\ \A gesture \in {canvasPan, areaDrag, routeDrag, selection, pendingEdgeDrag} :
             ~Holds(gesture, p)
        /\ routeDrag' \in {routeDrag, None} /\ pendingEdgeDrag' \in {pendingEdgeDrag, None}
        /\ connecting' \in {connecting, None}
    BY <1>7 DEF ReleaseOnInput, CompleteConnection, CancelConnection
  <2>2. HoldInv' /\ AloneInv'  BY <2>1, OverGestures DEF Holds
  <2> QED BY <2>1, <2>2, OffersIdle DEF GesturesKept
<1> QED BY <1>1, <1>2, <1>3, <1>4, <1>5, <1>6, <1>7 DEF Next

-----------------------------------------------------------------------------
(* The invariant holds, and what it shows.                                  *)

LEMMA Initially == Init => IInv
<1> SUFFICES ASSUME Init PROVE IInv
  OBVIOUS
<1>1. First \in Graphs /\ Joined(First) /\ First.nodes \subseteq Nodes
  BY CanvasAssumption DEF Joined, Graphs
<1>2. NoPlaces \in [Nodes -> Places] /\ 0 \in Places /\ \A n \in Nodes : NoPlaces[n] = 0
  BY DEF NoPlaces, Places
<1>3. /\ doc \in Documents /\ doc.graph = First /\ doc.at = NoPlaces /\ used = First.nodes
      /\ undoStack = <<>> /\ positions = NoPlaces
  BY <1>1, <1>2 DEF Init, Documents
<1>4. doc \in Good(used)  BY <1>1, <1>2, <1>3 DEF Good
<1>5. undoStack \in Undos(used)
  <2> HIDE DEF Good
  <2> QED BY <1>3, CanvasAssumption DEF Undos
<1>6. DocInv  BY <1>1, <1>3, <1>4, <1>5 DEF DocInv
<1>7. PlaceInv  BY <1>2, <1>3 DEF PlaceInv, Init, Rests
<1>8. clipboard \in Graphs /\ Joined(clipboard)  BY DEF Init, Graphs, Joined
<1>9. SelectInv /\ FrameInv /\ ClipInv  BY <1>8 DEF Init, SelectInv, FrameInv, ClipInv
<1>10. OfferInv /\ HoldInv /\ AloneInv
  BY DEF Init, OfferInv, HoldInv, AloneInv, Held, Apart
<1> QED BY <1>6, <1>7, <1>9, <1>10 DEF IInv

\* The invariant is inductive, and the step loses no document.
LEMMA Inductive == IInv /\ [Next]_vars => IInv' /\ UndoStep
<1> SUFFICES ASSUME IInv, [Next]_vars PROVE IInv' /\ UndoStep
  OBVIOUS
<1>1. CASE Next
  <2>1. DocKept  BY <1>1, NextDoc
  <2>2. CardsKept  BY <1>1, NextCards
  <2>3. GesturesKept  BY <1>1, NextGestures
  <2> QED BY <2>1, <2>2, <2>3 DEF DocKept, CardsKept, GesturesKept, IInv
<1>2. CASE UNCHANGED vars
  <2> USE <1>2 DEF vars, docVars, clipVars, edgeVars, holdVars, libVars
  <2>1. DocInv' /\ UndoStep  BY DEF IInv, DocInv, UndoStep
  <2>2. PlaceInv' /\ SelectInv' /\ FrameInv' /\ ClipInv'
    BY DEF IInv, PlaceInv, SelectInv, FrameInv, ClipInv
  <2>3. OfferInv' /\ HoldInv' /\ AloneInv'
    BY DEF IInv, OfferInv, HoldInv, AloneInv, Held, Apart
  <2> QED BY <2>1, <2>2, <2>3 DEF IInv
<1> QED BY <1>1, <1>2

\* Every behaviour of the canvas keeps the invariant.
THEOREM InvHolds == Spec => []IInv
<1>1. Init => IInv  BY Initially
<1>2. IInv /\ [Next]_vars => IInv'  BY Inductive
<1> QED BY <1>1, <1>2, PTL DEF Spec

\* Every connection of the document leads from a port that its source has to an
\* action that exists (app.js and BrowserWorkflowDocument: insert, remove,
\* connect, paste, undo).
THEOREM EdgesJoin == Spec => []EdgesJoinNodes
<1>1. IInv => EdgesJoinNodes
  BY GraphParts DEF EdgesJoinNodes, Joined
<1> QED BY <1>1, InvHolds, PTL

\* Unless cards are on the move each is shown where the document has it
\* (saveNodeLayout, restoreCardPositions, the frames of insertions and pastes).
THEOREM ShownStored == Spec => []ShownIsStored
<1>1. IInv => ShownIsStored
  BY GraphParts DEF IInv, PlaceInv, ShownIsStored, Rests
<1> QED BY <1>1, InvHolds, PTL

\* A gesture is held by a pointer that is down, and of a pan, a box and a drag of
\* cards one at most goes on (pointerdown, pointerup and pointercancel of the
\* canvas).
THEOREM GesturesHeld == Spec => []GesturesAreHeld
<1>1. ASSUME IInv PROVE GesturesAreHeld
  <2>1. \A gesture \in {canvasPan, areaDrag, routeDrag, selection, pendingEdgeDrag} :
          gesture # None => gesture.pointer \in down
    BY <1>1 DEF IInv, HoldInv, Held
  <2> DEFINE three == <<canvasPan, selection, dragging>>
             Goings == {i \in 1..3 : three[i] # None}
  <2>2. three[1] = canvasPan /\ three[2] = selection /\ three[3] = dragging  OBVIOUS
  <2> HIDE DEF three
  <2>3. \E i \in 1..3 : Goings \subseteq {i}
    <3>1. CASE canvasPan # None
      <4>1. selection = None /\ dragging = None  BY <1>1, <3>1 DEF IInv, AloneInv
      <4> QED BY <2>2, <4>1
    <3>2. CASE canvasPan = None /\ selection # None
      <4>1. dragging = None  BY <1>1, <3>2 DEF IInv, AloneInv
      <4> QED BY <2>2, <3>2, <4>1
    <3>3. CASE canvasPan = None /\ selection = None
      BY <2>2, <3>3
    <3> QED BY <3>1, <3>2, <3>3
  <2> HIDE DEF Goings
  <2>4. Cardinality(Goings) <= 1
    <3>1. PICK i \in 1..3 : Goings \subseteq {i}  BY <2>3
    <3>2. IsFiniteSet({i}) /\ Cardinality({i}) = 1  BY FS_Singleton
    <3>3. Cardinality(Goings) <= Cardinality({i})  BY <3>1, <3>2, FS_Subset
    <3> QED BY <3>2, <3>3
  <2> QED BY <2>1, <2>4 DEF GesturesAreHeld, Goings, three
<1> QED BY <1>1, InvHolds, PTL

\* For every limit of the stack: as many steps of undo as nodes were added or
\* removed, or two, bring back the document before a change, unless more nodes
\* than the limit were (BrowserWorkflowDocument.checkpoint, which drops the oldest
\* document; mutate and saveNodeLayout of the editor, a step before each stage).
THEOREM ChangesUndoable == Spec => ChangesCanBeUndone
<1>1. IInv /\ [Next]_vars => UndoStep  BY Inductive
<1> QED BY <1>1, InvHolds, PTL DEF Spec, ChangesCanBeUndone, UndoStep

-----------------------------------------------------------------------------
(* Types.                                                                   *)

FlagInv == inputs \in 0..MaxInputs /\ libraryOpen \in BOOLEAN /\ pendingDrop \in BOOLEAN

\* The library closes on demand, by Escape, or when a node is taken from it.
Closes == CloseLibrary \/ Escape \/ \E n \in Nodes : InsertNode(n)

\* A step is at most one input, and leaves the library open or closed.
FlagStep ==
  /\ inputs' = inputs \/ May
  /\ libraryOpen' = libraryOpen \/ libraryOpen' = TRUE \/ (libraryOpen' = FALSE /\ Closes)
  /\ pendingDrop' = pendingDrop \/ pendingDrop' = TRUE \/ pendingDrop' = FALSE

LEMMA ClickFlags == ASSUME Click PROVE FlagStep
<1> USE DEF FlagStep, docVars, clipVars, edgeVars, holdVars, libVars, PreparePalette
<1>1. CASE Undo  BY <1>1 DEF Undo
<1>2. CASE DeleteSelected  BY <1>2 DEF DeleteSelected
<1>3. CASE CopySelected  BY <1>3 DEF CopySelected
<1>4. CASE PasteClipboard  BY <1>4 DEF PasteClipboard
<1>5. CASE ResetNodeLayout  BY <1>5 DEF ResetNodeLayout
<1>6. ASSUME NEW n, RemoveNode(n) PROVE FlagStep  BY <1>6 DEF RemoveNode
<1>7. ASSUME NEW n, DuplicateNode(n) PROVE FlagStep  BY <1>7 DEF DuplicateNode
<1>8. ASSUME NEW n \in Nodes, InsertNode(n) PROVE FlagStep
  <2>1. inputs' = inputs \/ May  BY <1>8 DEF InsertNode
  <2>2. libraryOpen' = FALSE /\ pendingDrop' = FALSE  BY <1>8 DEF InsertNode
  <2> QED BY <1>8, <2>1, <2>2 DEF Closes
<1>9. ASSUME NEW n, ClickTarget(n) PROVE FlagStep  BY <1>9 DEF ClickTarget
<1>10. ASSUME NEW v, EditArea(v) PROVE FlagStep  BY <1>10 DEF EditArea
<1>11. CASE OpenCanvasPalette  BY <1>11 DEF OpenCanvasPalette
<1>12. CASE OpenLibrary  BY <1>12 DEF OpenLibrary
<1>13. CASE OpenEmpty  BY <1>13 DEF OpenEmpty
<1>14. CASE CloseLibrary  BY <1>14 DEF CloseLibrary, Closes
<1>15. CASE CloseHint  BY <1>15 DEF CloseHint
<1>16. CASE Escape  BY <1>16 DEF Escape, Closes
<1>17. ASSUME NEW c, ClickEdge(c) PROVE FlagStep  BY <1>17 DEF ClickEdge, OpenEdgePalette
<1>18. ASSUME NEW e, RemoveSelectedEdge(e) PROVE FlagStep  BY <1>18 DEF RemoveSelectedEdge
<1> QED BY <1>1, <1>2, <1>3, <1>4, <1>5, <1>6, <1>7, <1>8, <1>9, <1>10, <1>11, <1>12, <1>13,
           <1>14, <1>15, <1>16, <1>17, <1>18 DEF Click

LEMMA PointerFlags ==
  ASSUME NEW p, \/ PressSomething(p) \/ Move(p)
                \/ \E up \in BOOLEAN : Release(p, up)
                \/ \E n \in Live : ReleaseOnInput(p, n)
  PROVE  FlagStep
<1> USE DEF FlagStep, docVars, clipVars, edgeVars, holdVars, libVars, PreparePalette, Rest
<1>1. CASE PressSomething(p)
  BY <1>1 DEF PressSomething, Press, PressNothing, StartCanvasPan, StartBoxSelection, StartAreaDrag,
              StartEdgeRouteDrag, ToggleSelected, StartNodeDrag, StartConnection,
              StartEdgeControlDrag, StartIncomingConnection
<1>2. CASE Move(p)
  BY <1>2 DEF Move, MovePan, MoveRoute, MoveEdge, MoveAreaDrag, MoveNodes, MoveBox
<1>3. ASSUME NEW up \in BOOLEAN, Release(p, up) PROVE FlagStep
  <2>1. inputs' = inputs  BY <1>3 DEF Release
  <2>2. pendingDrop' = pendingDrop /\ (libraryOpen' = libraryOpen \/ libraryOpen' = TRUE)
    <3>1. CASE ReleasePan(p, up)  BY <3>1 DEF ReleasePan
    <3>2. CASE ReleaseArea(p, up)  BY <3>2 DEF ReleaseArea
    <3>3. CASE ReleaseRoute(p, up)  BY <3>3 DEF ReleaseRoute
    <3>4. CASE ReleaseBox(p)  BY <3>4 DEF ReleaseBox
    <3>5. ASSUME NEW where, ReleaseRest(p, up, where)
          PROVE  pendingDrop' = pendingDrop /\ (libraryOpen' = libraryOpen \/ libraryOpen' = TRUE)
      BY <3>5 DEF ReleaseRest, OpenEdgePalette
    <3> QED BY <1>3, <3>1, <3>2, <3>3, <3>4, <3>5 DEF Release
  <2> QED BY <2>1, <2>2
<1>4. ASSUME NEW n, ReleaseOnInput(p, n) PROVE FlagStep  BY <1>4 DEF ReleaseOnInput
<1> QED BY <1>1, <1>2, <1>3, <1>4

LEMMA FlagsStep == ASSUME [Next]_vars PROVE FlagStep
<1>1. CASE Click  BY <1>1, ClickFlags
<1>2. CASE StopCanvasPan  BY <1>2 DEF StopCanvasPan, Rest, libVars, FlagStep
<1>3. ASSUME NEW t, Frame(t) PROVE FlagStep  BY <1>3 DEF Frame, libVars, FlagStep
<1>4. ASSUME NEW p \in Pointers, \/ PressSomething(p) \/ Move(p)
                                 \/ \E up \in BOOLEAN : Release(p, up)
                                 \/ \E n \in Live : ReleaseOnInput(p, n)
      PROVE  FlagStep
  BY <1>4, PointerFlags
<1>5. CASE UNCHANGED vars  BY <1>5 DEF vars, libVars, FlagStep
<1> QED BY <1>1, <1>2, <1>3, <1>4, <1>5 DEF Next

LEMMA FlagsKept == FlagInv /\ [Next]_vars => FlagInv'
<1> SUFFICES ASSUME FlagInv, [Next]_vars PROVE FlagInv'
  OBVIOUS
<1>1. FlagStep  BY FlagsStep
<1>2. inputs' \in 0..MaxInputs  BY <1>1, CanvasAssumption DEF FlagInv, FlagStep, May
<1>3. libraryOpen' \in BOOLEAN /\ pendingDrop' \in BOOLEAN  BY <1>1 DEF FlagInv, FlagStep
<1> QED BY <1>2, <1>3 DEF FlagInv

\* Types: documents and the stack of undo, which keeps its limit, are of graphs,
\* places and an area, no node of the document is unspent, and what is dragged
\* lies at places.
THEOREM TypeCorrect == Spec => []TypeOK
<1>1. ASSUME Init PROVE FlagInv
  <2>1. inputs = 0 /\ 0 \in 0..MaxInputs  BY <1>1, CanvasAssumption DEF Init
  <2>2. libraryOpen = FALSE /\ pendingDrop = FALSE  BY <1>1 DEF Init
  <2> QED BY <2>1, <2>2 DEF FlagInv
<1>2. Spec => []FlagInv  BY <1>1, FlagsKept, PTL DEF Spec
<1>3. ASSUME IInv, FlagInv PROVE TypeOK
  <2>1. doc \in Documents /\ undoStack \in Seq(Documents) /\ Len(undoStack) <= UndoLimit
    <3>1. Good(used) \subseteq Documents  BY DEF Good
    <3>2. undoStack \in Seq(Good(used)) /\ Len(undoStack) <= UndoLimit
      BY <1>3, GraphParts DEF Undos
    <3> HIDE DEF Good, Documents
    <3> QED BY <1>3, <3>1, <3>2, GraphParts
  <2>2. Live \subseteq used /\ used \in SUBSET Nodes /\ positions \in [Nodes -> Places]
    BY <1>3, GraphParts
  <2>3. /\ selected \in SUBSET Nodes /\ copied \in SUBSET Nodes /\ clipboard \in Graphs
        /\ down \in SUBSET Pointers /\ dragging \in Drags \cup {None}
    BY <1>3 DEF IInv, PlaceInv, SelectInv, ClipInv, HoldInv
  <2> QED BY <1>3, <2>1, <2>2, <2>3 DEF TypeOK, FlagInv
<1> QED BY <1>2, <1>3, InvHolds, PTL

-----------------------------------------------------------------------------
(* Insertions.                                                              *)

\* What is saved of a single stage has its graph.
LEMMA OneStageSaved ==
  ASSUME NEW d \in Documents, NEW shown, SaveNodeLayout(<<d>>, shown)
  PROVE  doc'.graph = d.graph
<1> DEFINE after == Stored(d, shown)
<1>1. Last(<<doc>> \o <<d>>) = d  BY DEF Last
<1>2. after.graph = d.graph  BY DEF Stored, Documents
<1>3. Last(<<d>>) = d /\ Last(Append(<<d>>, after)) = after  BY DEF Last
<1>4. <<d>> # <<>>  OBVIOUS
<1>5. CASE after # d
  <2>1. Through(Append(<<d>>, after))  BY <1>1, <1>5 DEF SaveNodeLayout
  <2>2. doc' = after  BY <1>3, <2>1 DEF Through
  <2> QED BY <1>2, <2>2
<1>6. CASE after = d
  <2>1. Through(<<d>>)  BY <1>1, <1>4, <1>6 DEF SaveNodeLayout
  <2>2. doc' = d  BY <1>3, <2>1 DEF Through
  <2> QED BY <2>2
<1> QED BY <1>5, <1>6

LEMMA InsertionGraph ==
  ASSUME IInv, NEW n \in Nodes, InsertNode(n)
  PROVE  Graph' = Insert(Graph, n, insertConnection)
<1> DEFINE c == insertConnection
           g == Insert(Graph, n, c)
           inserted == [doc EXCEPT !.graph = g]
<1>1. PICK v \in Places :
        \/ SaveNodeLayout(<<[doc EXCEPT !.graph = Insert(@, n, c)]>>, positions)
        \/ SaveNodeLayout(<<[doc EXCEPT !.graph = Insert(@, n, c)]>>, [positions EXCEPT ![n] = v])
  BY DEF InsertNode
<1>2. SaveNodeLayout(<<inserted>>, positions) \/ SaveNodeLayout(<<inserted>>, [positions EXCEPT ![n] = v])
  BY <1>1 DEF Graph
<1>3. doc \in Documents /\ Graph \in Graphs  BY GraphParts, GoodParts
<1>4. g \in Graphs  BY <1>3, InsertType DEF IInv, OfferInv, Offers
<1> HIDE DEF g
<1>5. inserted \in Documents /\ inserted.graph = g  BY <1>3, <1>4 DEF Documents
<1> HIDE DEF inserted
<1>6. doc'.graph = g  BY <1>2, <1>5, OneStageSaved
<1> QED BY <1>6 DEF Graph, g

LEMMA EscapeGraph == ASSUME IInv, Escape PROVE Live' = Live
<1>1. doc \in Documents  BY GraphParts, GoodParts
<1>2. CASE doc' = doc  BY <1>2 DEF Live, Graph
<1>3. ASSUME NEW v, Through(<<[doc EXCEPT !.area = v]>>) PROVE Live' = Live
  <2>1. doc' = [doc EXCEPT !.area = v]  BY <1>3 DEF Through, Last
  <2>2. doc'.graph = doc.graph  BY <1>1, <2>1 DEF Documents
  <2> QED BY <2>2 DEF Live, Graph
<1> QED BY <1>2, <1>3 DEF Escape, StopAreaDrag, SetArea

\* A node put at an open port, or on a connection that is still there, leaves the
\* cycles of the graph under the control of their loops, unless it is a loop put
\* between two nodes (BrowserWorkflowDocument.add; workflow-editor-draft.mjs).
THEOREM InsertionsControlled == Spec => InsertionsKeepControl
<1> DEFINE c == insertConnection
           Inserts == /\ libraryOpen /\ ~libraryOpen' /\ Live' # Live /\ Controlled(Graph)
                      /\ \/ c = None \/ c[3] = None
                         \/ c \in Graph.edges /\ (Live' \ Live) \cap Loops = {}
<1>1. ASSUME IInv, [Next]_vars, Inserts PROVE Controlled(Graph')
  <2>1. Closes  BY <1>1, FlagsStep DEF FlagStep
  <2>2. CASE CloseLibrary  BY <1>1, <2>2 DEF CloseLibrary, docVars, Live, Graph
  <2>3. CASE Escape  BY <1>1, <2>3, EscapeGraph
  <2>4. ASSUME NEW n \in Nodes, InsertNode(n) PROVE Controlled(Graph')
    <3>1. Graph' = Insert(Graph, n, c)  BY <1>1, <2>4, InsertionGraph
    <3>2. n \in Nodes \ Graph.nodes /\ Insertable(Graph, c)
      BY <2>4 DEF InsertNode, Fresh, Live
    <3>3. Graph \in Graphs /\ Joined(Graph) /\ (c = None \/ Offers(c))
      BY <1>1, GraphParts DEF IInv, OfferInv
    <3>4. n \in Live' \ Live
      <4>1. Insert(Graph, n, c).nodes = Graph.nodes \cup {n}  BY DEF Insert
      <4>2. Live' = Graph.nodes \cup {n}  BY <3>1, <4>1 DEF Live
      <4> QED BY <3>2, <4>2 DEF Live
    <3>5. c = None \/ c[3] = None \/ (c \in Graph.edges /\ n \notin Loops)  BY <1>1, <3>4
    <3> QED BY <1>1, <3>1, <3>2, <3>3, <3>5, InsertControlled
  <2> QED BY <2>1, <2>2, <2>3, <2>4 DEF Closes
<1>2. IInv /\ [Next]_vars => (Inserts => Controlled(Graph'))  BY <1>1
<1> QED BY <1>2, InvHolds, PTL DEF Spec, InsertionsKeepControl
=============================================================================
