----------------------- MODULE WorkflowGraph_proofs -----------------------
(***************************************************************************)
(* What the operations on a graph keep, whatever the graph: its type, that *)
(* its connections join nodes of it, that each cycle passes a loop, and    *)
(* that a node put into it leaves its cycles under the control of loops.   *)
(* The proofs about the canvas and about the workbench rest on these facts.*)
(***************************************************************************)
EXTENDS WorkflowGraph, SequencesExt, FiniteSetTheorems, SequenceTheorems,
        WellFoundedInduction, TLAPS

Joined(g)   == \A e \in g.edges : Joins(g, e)
LoopFree(g) == Acyclic(g.nodes \ Loops, g.edges)

\* A connection, or a port with the node that it may get.
Conns   == Nodes \X AllPorts \X (Nodes \cup {None})
Offers(c) == c \in Conns /\ c[2] \in Ports(c[1]) /\ c[3] \in Actions \cup {None}

-----------------------------------------------------------------------------
(* Ports and types.                                                         *)

LEMMA PortsOfNodes ==
  ASSUME NEW n \in Nodes
  PROVE  /\ Ports(n) \subseteq AllPorts /\ FirstPort(n) \in Ports(n)
         /\ ReturnPorts(n) \subseteq Ports(n)
         /\ n \in Loops => "output" \notin Ports(n) /\ "done" \in Ports(n)
         /\ n \notin Loops => "each" \notin Ports(n)
BY GraphAssumption DEF Ports, FirstPort, ReturnPorts, AllPorts, Loops

LEMMA InsertType ==
  ASSUME NEW g \in Graphs, NEW n \in Nodes, NEW c, c = None \/ c \in Conns
  PROVE  Insert(g, n, c) \in Graphs
<1>1. g.nodes \cup {n} \in SUBSET Nodes /\ g.edges \in SUBSET Edges
  BY DEF Graphs
<1>2. CASE c = None \/ n \in Starts
  BY <1>1, <1>2 DEF Insert, Graphs
<1>3. CASE ~(c = None \/ n \in Starts)
  <2>1. c[1] \in Nodes /\ c[2] \in AllPorts /\ c[3] \in Nodes \cup {None}
    BY <1>3 DEF Conns
  <2>2. <<c[1], c[2], n>> \in Edges
    BY <2>1 DEF Edges
  <2>3. c[3] # None => {<<n, FirstPort(n), c[3]>>} \subseteq Edges
    BY <2>1, PortsOfNodes DEF Edges
  <2>4. {<<n, p, c[1]>> : p \in ReturnPorts(n)} \subseteq Edges
    BY <2>1, PortsOfNodes DEF Edges
  <2>5. Insert(g, n, c).edges \subseteq Edges
    BY <1>1, <1>3, <2>2, <2>3, <2>4 DEF Insert
  <2> QED BY <1>1, <2>5 DEF Insert, Graphs
<1> QED BY <1>2, <1>3

LEMMA WithoutType ==
  ASSUME NEW g \in Graphs, NEW n
  PROVE  Without(g, n) \in Graphs
<1>1. g.nodes \in SUBSET Nodes /\ g.edges \in SUBSET Edges
  BY DEF Graphs
<1>2. ASSUME NEW x \in g.edges, NEW y \in g.edges PROVE <<x[1], x[2], y[3]>> \in Edges
  BY <1>1 DEF Edges
<1>3. Bridges(g, n, "output") \subseteq Edges
  BY <1>2 DEF Bridges
<1> QED BY <1>1, <1>3 DEF Without, Graphs

LEMMA ConnectType ==
  ASSUME NEW g \in Graphs, NEW e \in Edges, NEW old
  PROVE  Connect(g, e, old) \in Graphs
BY DEF Connect, Graphs

LEMMA DisconnectType ==
  ASSUME NEW g \in Graphs, NEW e
  PROVE  Disconnect(g, e) \in Graphs
BY DEF Disconnect, Graphs

LEMMA CopyType ==
  ASSUME NEW g \in Graphs, NEW S
  PROVE  Copy(g, S) \in Graphs
BY DEF Copy, Graphs

LEMMA PasteType ==
  ASSUME NEW g \in Graphs, NEW clip \in Graphs, Joined(clip), NEW f \in [clip.nodes -> Nodes]
  PROVE  Paste(g, clip, f) \in Graphs
<1>1. ASSUME NEW e \in clip.edges PROVE <<f[e[1]], e[2], f[e[3]]>> \in Edges
  <2>1. Joins(clip, e) /\ e \in Edges  BY DEF Joined, Graphs
  <2>2. e[1] \in clip.nodes /\ e[3] \in clip.nodes /\ e[2] \in AllPorts
    BY <2>1 DEF Joins, Edges
  <2> QED BY <2>2 DEF Edges
<1>2. {f[n] : n \in clip.nodes} \subseteq Nodes
  OBVIOUS
<1> QED BY <1>1, <1>2 DEF Paste, Graphs

-----------------------------------------------------------------------------
(* Connections join nodes.                                                  *)

\* A node put at a port, or on a connection even if it is no longer there.
LEMMA InsertJoins ==
  ASSUME NEW g, Joined(g), NEW n \in Nodes \ g.nodes, NEW c,
         c = None \/ (Offers(c) /\ Insertable(g, c))
  PROVE  Joined(Insert(g, n, c))
<1> DEFINE h == Insert(g, n, c)
<1>1. h.nodes = g.nodes \cup {n}  BY DEF Insert
<1>2. ASSUME NEW e \in g.edges PROVE Joins(h, e)
  <2>1. Joins(g, e)  BY DEF Joined
  <2> QED BY <1>1, <2>1 DEF Joins
<1>3. CASE c = None \/ n \in Starts
  BY <1>2, <1>3 DEF Joined, Insert
<1>4. CASE ~(c = None \/ n \in Starts)
  <2>1. /\ c[1] \in g.nodes /\ c[1] \in Nodes /\ c[2] \in Ports(c[1])
        /\ c[3] \in (g.nodes \cap Actions) \cup {None} /\ n \in Actions /\ n # c[1] /\ n # c[3]
    <3>1. Offers(c) /\ c[1] \in g.nodes /\ c[3] \in g.nodes \cup {None}
      BY <1>4 DEF Insertable
    <3> QED BY <1>4, <3>1, GraphAssumption DEF Offers, Conns, Actions
  <2>2. Joins(h, <<c[1], c[2], n>>)
    BY <1>1, <2>1 DEF Joins
  <2>3. c[3] # None => Joins(h, <<n, FirstPort(n), c[3]>>)
    BY <1>1, <2>1, PortsOfNodes DEF Joins
  <2>4. ASSUME c[1] \in Loops, NEW p \in ReturnPorts(n) PROVE Joins(h, <<n, p, c[1]>>)
    <3>1. c[1] \in Actions  BY <2>4 DEF Loops, Actions, Starts
    <3> QED BY <1>1, <2>1, <2>4, <3>1, PortsOfNodes DEF Joins
  <2>5. ASSUME NEW e \in h.edges
        PROVE  \/ e \in g.edges \/ e = <<c[1], c[2], n>>
               \/ c[3] # None /\ e = <<n, FirstPort(n), c[3]>>
               \/ c[1] \in Loops /\ \E p \in ReturnPorts(n) : e = <<n, p, c[1]>>
    <3>1. CASE c[3] # None  BY <1>4, <3>1, <2>5 DEF Insert
    <3>2. CASE c[3] = None  BY <1>4, <3>2, <2>5 DEF Insert
    <3> QED BY <3>1, <3>2
  <2>6. ASSUME NEW e \in h.edges PROVE Joins(h, e)
    BY <1>2, <2>2, <2>3, <2>4, <2>5
  <2> QED BY <2>6 DEF Joined
<1> QED BY <1>3, <1>4

\* The bridges over a removed node join what is left: they start where a
\* connection started and end where one ended.
LEMMA WithoutJoins ==
  ASSUME NEW g, Joined(g), NEW n
  PROVE  Joined(Without(g, n))
<1> DEFINE w == Without(g, n)
<1>1. w.nodes = g.nodes \ {n}
  BY DEF Without
<1>2. ASSUME NEW e \in w.edges PROVE Joins(w, e)
  <2>1. e \in g.edges \cup Bridges(g, n, "output") /\ e[1] # n /\ e[3] # n
        /\ (e \in g.edges \/ e[1] # e[3])
    BY DEF Without
  <2>2. CASE e \in g.edges
    <3>1. Joins(g, e)  BY <2>2 DEF Joined
    <3> QED BY <1>1, <2>1, <3>1 DEF Joins
  <2>3. CASE e \notin g.edges
    <3>1. PICK x \in g.edges, y \in g.edges : e = <<x[1], x[2], y[3]>>
      BY <2>1, <2>3 DEF Bridges
    <3>2. Joins(g, x) /\ Joins(g, y)  BY DEF Joined
    <3>3. e[1] = x[1] /\ e[2] = x[2] /\ e[3] = y[3]  BY <3>1
    <3>4. e[1] # e[3]  BY <2>1, <2>3
    <3> QED BY <1>1, <2>1, <3>2, <3>3, <3>4 DEF Joins
  <2> QED BY <2>2, <2>3
<1> QED BY <1>2 DEF Joined

LEMMA ConnectJoins ==
  ASSUME NEW g, "nodes" \in DOMAIN g, "edges" \in DOMAIN g, Joined(g), NEW e, Joins(g, e), NEW old
  PROVE  Joined(Connect(g, e, old))
BY DEF Joined, Connect, Joins

LEMMA DisconnectJoins ==
  ASSUME NEW g, "nodes" \in DOMAIN g, "edges" \in DOMAIN g, Joined(g), NEW e
  PROVE  Joined(Disconnect(g, e))
BY DEF Joined, Disconnect, Joins

LEMMA CopyJoins ==
  ASSUME NEW g, Joined(g), NEW S
  PROVE  Joined(Copy(g, S))
BY DEF Joined, Copy, Joins

\* Copies keep their kinds, so that their connections leave from ports they have.
LEMMA PasteJoins ==
  ASSUME NEW g \in Graphs, Joined(g), NEW clip \in Graphs, Joined(clip),
         NEW fresh \in SUBSET Nodes, NEW f \in Renamings(clip, fresh)
  PROVE  Joined(Paste(g, clip, f))
<1> DEFINE h == Paste(g, clip, f)
<1>1. h.nodes = g.nodes \cup {f[n] : n \in clip.nodes}  BY DEF Paste
<1>2. ASSUME NEW e \in g.edges PROVE Joins(h, e)
  <2>1. Joins(g, e)  BY DEF Joined
  <2> QED BY <1>1, <2>1 DEF Joins
<1>3. ASSUME NEW e \in clip.edges PROVE Joins(h, <<f[e[1]], e[2], f[e[3]]>>)
  <2>1. Joins(clip, e)  BY DEF Joined
  <2>2. /\ e[1] \in clip.nodes /\ e[3] \in clip.nodes \cap Actions /\ e[2] \in Ports(e[1])
        /\ e[1] = e[3] => e[2] = "done"
    BY <2>1 DEF Joins
  <2>3. /\ f \in [clip.nodes -> fresh]
        /\ \A m, n \in clip.nodes : Kind[f[n]] = Kind[n] /\ (f[m] = f[n] => m = n)
    BY DEF Renamings
  <2>4. f[e[1]] \in Nodes /\ f[e[3]] \in Nodes
    BY <2>2, <2>3
  <2>5. Ports(f[e[1]]) = Ports(e[1])
    BY <2>2, <2>3 DEF Ports
  <2>6. f[e[3]] \in Actions
    BY <2>2, <2>3, <2>4 DEF Actions, Starts
  <2> QED BY <1>1, <2>2, <2>3, <2>4, <2>5, <2>6 DEF Joins
<1>4. ASSUME NEW e \in h.edges PROVE Joins(h, e)
  <2>1. e \in g.edges \/ \E x \in clip.edges : e = <<f[x[1]], x[2], f[x[3]]>>
    BY DEF Paste
  <2> QED BY <1>2, <1>3, <2>1
<1> QED BY <1>4 DEF Joined

-----------------------------------------------------------------------------
(* Cycles.                                                                  *)

\* What a controlled graph permits to lead back begins or ends at a loop.
LEMMA ControlledLoopFree ==
  ASSUME NEW g, Controlled(g)
  PROVE  LoopFree(g)
<1> DEFINE returns == Returns(g)
           E == g.edges \ (returns \cup Feedback(g, returns))
<1>1. Acyclic(g.nodes, E)  BY DEF Controlled
<1>2. ASSUME NEW e \in returns PROVE e[3] \in Loops
  BY DEF Returns
<1>3. ASSUME NEW e \in Feedback(g, returns) PROVE e[1] \in Loops
  BY DEF Feedback
<1>4. ASSUME NEW T \in SUBSET (g.nodes \ Loops),
             T \subseteq {e[3] : e \in {x \in g.edges : x[1] \in T}}
      PROVE  T = {}
  <2>1. ASSUME NEW m \in T PROVE m \in {e[3] : e \in {x \in E : x[1] \in T}}
    <3>1. PICK e \in g.edges : e[1] \in T /\ e[3] = m  BY <1>4
    <3>2. e \in E  BY <1>2, <1>3, <3>1
    <3> HIDE DEF E
    <3> QED BY <3>1, <3>2
  <2> HIDE DEF E
  <2> QED BY <1>1, <2>1 DEF Acyclic
<1> QED BY <1>4 DEF LoopFree, Acyclic

\* A bridge stands for a way over the removed node, which was no loop.
LEMMA WithoutLoopFree ==
  ASSUME NEW g, Joined(g), LoopFree(g), NEW n \in g.nodes, g.nodes \subseteq Nodes
  PROVE  LoopFree(Without(g, n))
<1> DEFINE w == Without(g, n)
           Heads(S) == {e[3] : e \in {x \in g.edges : x[1] \in S}}
<1>1. w.nodes = g.nodes \ {n}  BY DEF Without
<1>2. ASSUME NEW T \in SUBSET (g.nodes \ Loops), T \subseteq Heads(T) PROVE T = {}
  BY <1>2 DEF LoopFree, Acyclic
<1>3. ASSUME NEW T \in SUBSET (w.nodes \ Loops),
             T \subseteq {e[3] : e \in {x \in w.edges : x[1] \in T}}
      PROVE  T = {}
  <2>1. ASSUME NEW m \in T
        PROVE  \/ m \in Heads(T)
               \/ n \notin Loops /\ n \in Heads(T) /\ m \in Heads({n})
    <3>1. PICK e \in w.edges : e[1] \in T /\ e[3] = m  BY <1>3
    <3>2. e \in g.edges \/ e \in Bridges(g, n, "output")  BY DEF Without
    <3>3. CASE e \in g.edges  BY <3>1, <3>3
    <3>4. CASE e \in Bridges(g, n, "output")
      <4>1. PICK x \in g.edges, y \in g.edges :
              x[3] = n /\ y[1] = n /\ y[2] = "output" /\ e = <<x[1], x[2], y[3]>>
        BY <3>4 DEF Bridges
      <4>2. e[1] = x[1] /\ e[3] = y[3]  BY <4>1
      <4>3. Joins(g, y)  BY DEF Joined
      <4>4. n \notin Loops  BY <4>1, <4>3, PortsOfNodes DEF Joins
      <4> QED BY <3>1, <4>1, <4>2, <4>4
    <3> QED BY <3>2, <3>3, <3>4
  <2>2. CASE T \subseteq Heads(T)
    BY <1>1, <1>2, <2>2
  <2>3. CASE ~(T \subseteq Heads(T))
    <3> DEFINE U == T \cup {n}
    <3>1. n \notin Loops /\ n \in Heads(T)  BY <2>1, <2>3
    <3>2. \A m \in U : m \in Heads(U)  BY <2>1, <3>1
    <3>3. U \in SUBSET (g.nodes \ Loops)  BY <1>1, <3>1
    <3> HIDE DEF Heads, U
    <3>4. U = {}  BY <1>2, <3>2, <3>3
    <3> QED BY <3>4 DEF U
  <2> QED BY <2>2, <2>3
<1> QED BY <1>3 DEF LoopFree, Acyclic

-----------------------------------------------------------------------------
(* Sets in some order, and the least of a set of numbers.                   *)

LEMMA SetInOrder ==
  ASSUME NEW S, IsFiniteSet(S)
  PROVE  /\ SetToSeq(S) \in Seq(S) /\ Len(SetToSeq(S)) = Cardinality(S)
         /\ IsInjective(SetToSeq(S)) /\ Range(SetToSeq(S)) = S
<1> DEFINE N == Cardinality(S)
<1>1. N \in Nat /\ ExistsBijection(1..N, S)
  BY FS_CardinalityType
<1>2. PICK b \in [1..N -> S] : IsInjective(b)
  BY <1>1 DEF ExistsBijection, Bijection, Injection
<1>3. SetToSeq(S) \in [1..N -> S] /\ IsInjective(SetToSeq(S))
  <2> HIDE DEF N
  <2>1. SetToSeq(S) = CHOOSE f \in [1..N -> S] : IsInjective(f)  BY DEF SetToSeq, N
  <2> QED BY <1>2, <2>1
<1>4. SetToSeq(S) \in Injection(1..N, S)
  BY <1>3 DEF Injection
<1>5. IsFiniteSet(1..N) /\ Cardinality(1..N) = N
  BY <1>1, FS_Interval
<1>6. SetToSeq(S) \in Surjection(1..N, S)
  BY <1>4, <1>5, FS_Injection
<1>7. DOMAIN SetToSeq(S) = 1..N /\ Range(SetToSeq(S)) = S
  BY <1>3, <1>6 DEF Surjection, Range
<1> HIDE DEF N
<1>8. SetToSeq(S) \in Seq(S) /\ Len(SetToSeq(S)) = N
  BY <1>1, <1>3
<1> QED BY <1>3, <1>7, <1>8 DEF N

\* Sequences without repetition: one more at the end, one less.
LEMMA AppendedOnce ==
  ASSUME NEW S, NEW s \in Seq(S), IsInjective(s), NEW x \in S \ Range(s)
  PROVE  /\ Append(s, x) \in Seq(S) /\ IsInjective(Append(s, x))
         /\ Range(Append(s, x)) = Range(s) \cup {x}
<1> DEFINE t == Append(s, x)
<1>1. /\ t \in Seq(S) /\ Len(t) = Len(s) + 1 /\ DOMAIN t = 1..(Len(s) + 1) /\ DOMAIN s = 1..Len(s)
      /\ Len(s) \in Nat /\ \A i \in 1..Len(s) : t[i] = s[i]
      /\ t[Len(s) + 1] = x
  OBVIOUS
<1> HIDE DEF t
<1>2. \A i \in 1..Len(s) : s[i] # x
  BY <1>1 DEF Range
<1>3. ASSUME NEW i \in DOMAIN t, NEW j \in DOMAIN t, t[i] = t[j] PROVE i = j
  <2>1. CASE i \in 1..Len(s) /\ j \in 1..Len(s)  BY <1>1, <1>3, <2>1 DEF IsInjective
  <2>2. CASE i = Len(s) + 1 \/ j = Len(s) + 1  BY <1>1, <1>2, <1>3, <2>2
  <2> QED BY <1>1, <2>1, <2>2
<1>4. Range(t) = Range(s) \cup {x}
  <2>1. ASSUME NEW y \in Range(t) PROVE y \in Range(s) \cup {x}
    <3>1. PICK i \in 1..(Len(s) + 1) : y = t[i]  BY <1>1 DEF Range
    <3>2. CASE i \in 1..Len(s)  BY <1>1, <3>1, <3>2 DEF Range
    <3>3. CASE i = Len(s) + 1  BY <1>1, <3>1, <3>3
    <3> QED BY <1>1, <3>2, <3>3
  <2>2. ASSUME NEW y \in Range(s) PROVE y \in Range(t)
    <3>1. PICK i \in 1..Len(s) : y = s[i]  BY <1>1 DEF Range
    <3>2. i \in DOMAIN t /\ y = t[i]  BY <1>1, <3>1
    <3> QED BY <3>2 DEF Range
  <2>3. x \in Range(t)
    <3>1. Len(s) + 1 \in DOMAIN t  BY <1>1
    <3> QED BY <1>1, <3>1 DEF Range
  <2> QED BY <2>1, <2>2, <2>3
<1> QED BY <1>1, <1>3, <1>4 DEF t, IsInjective

LEMMA RemovedOnce ==
  ASSUME NEW S, NEW s \in Seq(S), IsInjective(s), NEW k \in 1..Len(s)
  PROVE  /\ RemoveAt(s, k) \in Seq(S) /\ IsInjective(RemoveAt(s, k))
         /\ Range(RemoveAt(s, k)) = Range(s) \ {s[k]}
<1> DEFINE t == RemoveAt(s, k)
           From(i) == IF i < k THEN i ELSE i + 1
<1>1. Len(s) \in Nat /\ k \in Nat /\ 1 <= k /\ k <= Len(s) /\ DOMAIN s = 1..Len(s)
  OBVIOUS
<1>2. /\ t \in Seq(S) /\ Len(t) = Len(s) - 1 /\ DOMAIN t = 1..(Len(s) - 1)
      /\ \A i \in 1..(Len(s) - 1) : t[i] = s[From(i)]
  <2> DEFINE a == SubSeq(s, 1, k - 1)
             b == SubSeq(s, k + 1, Len(s))
  <2>1. \A i \in 1..Len(s) : s[i] \in S  OBVIOUS
  <2>2. /\ a \in Seq(S) /\ Len(a) = k - 1
        /\ \A i \in 1..(k - 1) : a[i] = s[i]
    <3>1. /\ SubSeq(s, 1, k - 1) \in Seq(S)
          /\ Len(SubSeq(s, 1, k - 1)) = IF 1 <= k - 1 THEN k - 1 - 1 + 1 ELSE 0
          /\ \A i \in 1..(k - 1 - 1 + 1) : SubSeq(s, 1, k - 1)[i] = s[1 + i - 1]
      <4>1. 1 \in Int /\ k - 1 \in Int /\ \A i \in 1..(k - 1) : s[i] \in S  BY <1>1, <2>1
      <4> QED BY <4>1, SubSeqProperties
    <3> QED BY <1>1, <3>1
  <2>3. /\ b \in Seq(S) /\ Len(b) = Len(s) - k
        /\ \A i \in 1..(Len(s) - k) : b[i] = s[k + i]
    <3>1. /\ SubSeq(s, k + 1, Len(s)) \in Seq(S)
          /\ Len(SubSeq(s, k + 1, Len(s))) = IF k + 1 <= Len(s) THEN Len(s) - (k + 1) + 1 ELSE 0
          /\ \A i \in 1..(Len(s) - (k + 1) + 1) : SubSeq(s, k + 1, Len(s))[i] = s[k + 1 + i - 1]
      <4>1. k + 1 \in Int /\ Len(s) \in Int /\ \A i \in (k + 1)..Len(s) : s[i] \in S
        BY <1>1, <2>1
      <4> QED BY <4>1, SubSeqProperties
    <3>2. b \in Seq(S)  BY <3>1
    <3>3. Len(b) = Len(s) - k
      <4>1. Len(b) = IF k + 1 <= Len(s) THEN Len(s) - (k + 1) + 1 ELSE 0  BY <3>1
      <4>2. Len(s) \in Int /\ k \in Int /\ k <= Len(s)  OBVIOUS
      <4> HIDE DEF b
      <4> QED BY <4>1, <4>2
    <3>4. ASSUME NEW i \in 1..(Len(s) - k) PROVE b[i] = s[k + i]
      <4>1. i \in 1..(Len(s) - (k + 1) + 1) /\ k + 1 + i - 1 = k + i  BY <1>1
      <4> QED BY <3>1, <4>1
    <3> QED BY <3>2, <3>3, <3>4
  <2>4. t = a \o b  BY DEF RemoveAt
  <2> HIDE DEF a, b, t
  <2>5. t \in Seq(S) /\ Len(t) = Len(s) - 1 /\ DOMAIN t = 1..(Len(s) - 1)
    <3>1. a \o b \in Seq(S) /\ Len(a \o b) = Len(a) + Len(b)
      <4>1. a \in Seq(S) /\ b \in Seq(S)  BY <2>2, <2>3
      <4> QED BY <4>1, ConcatProperties
    <3>2. t \in Seq(S) /\ Len(t) = Len(s) - 1
      BY <1>1, <2>2, <2>3, <2>4, <3>1
    <3> QED BY <3>2
  <2>6. ASSUME NEW i \in 1..(Len(s) - 1) PROVE t[i] = s[From(i)]
    <3>1. CASE i < k
      <4>1. t[i] = a[i]  BY <1>1, <2>2, <2>3, <2>4, <3>1
      <4> QED BY <1>1, <2>2, <3>1, <4>1
    <3>2. CASE ~(i < k)
      <4>1. i - (k - 1) \in 1..(Len(s) - k) /\ i \in Nat  BY <1>1, <3>2
      <4>2. t[i] = b[i - (k - 1)]  BY <1>1, <2>2, <2>3, <2>4, <3>2, <4>1
      <4>3. b[i - (k - 1)] = s[k + (i - (k - 1))]  BY <2>3, <4>1
      <4>4. k + (i - (k - 1)) = i + 1  BY <1>1, <4>1
      <4> QED BY <3>2, <4>2, <4>3, <4>4
    <3> QED BY <3>1, <3>2
  <2> QED BY <2>5, <2>6
<1> HIDE DEF t
<1>3. ASSUME NEW i \in DOMAIN t, NEW j \in DOMAIN t, t[i] = t[j] PROVE i = j
  <2>1. From(i) \in DOMAIN s /\ From(j) \in DOMAIN s  BY <1>1, <1>2
  <2>2. From(i) = From(j)
    <3>1. s[From(i)] = s[From(j)]  BY <1>2, <1>3
    <3> HIDE DEF From
    <3> QED BY <2>1, <3>1 DEF IsInjective
  <2> QED BY <1>1, <1>2, <2>2
<1>4. Range(t) = Range(s) \ {s[k]}
  <2>1. ASSUME NEW y \in Range(t) PROVE y \in Range(s) \ {s[k]}
    <3>1. PICK i \in 1..(Len(s) - 1) : y = t[i]  BY <1>2 DEF Range
    <3>2. From(i) \in DOMAIN s /\ From(i) # k  BY <1>1
    <3>3. y = s[From(i)]  BY <1>2, <3>1
    <3> HIDE DEF From
    <3> QED BY <1>1, <3>2, <3>3 DEF Range, IsInjective
  <2>2. ASSUME NEW y \in Range(s) \ {s[k]} PROVE y \in Range(t)
    <3>1. PICK j \in 1..Len(s) : y = s[j]  BY <1>1 DEF Range
    <3>2. PICK i \in 1..(Len(s) - 1) : From(i) = j
      <4>1. CASE j < k  BY <1>1, <4>1
      <4>2. CASE ~(j < k)
        <5>1. j - 1 \in 1..(Len(s) - 1) /\ From(j - 1) = j  BY <1>1, <2>2, <3>1, <4>2
        <5> QED BY <5>1
      <4> QED BY <4>1, <4>2
    <3>3. y = t[i] /\ i \in DOMAIN t  BY <1>2, <3>1, <3>2
    <3> QED BY <3>3 DEF Range
  <2> QED BY <2>1, <2>2
<1> QED BY <1>2, <1>3, <1>4 DEF t, IsInjective

LEMMA HeadRemoved ==
  ASSUME NEW S, NEW s \in Seq(S), IsInjective(s), s # <<>>
  PROVE  /\ Head(s) \in Range(s) /\ Tail(s) \in Seq(S) /\ IsInjective(Tail(s))
         /\ Range(Tail(s)) = Range(s) \ {Head(s)}
<1>1. Len(s) \in Nat /\ 1 \in 1..Len(s) /\ Head(s) = s[1] /\ DOMAIN s = 1..Len(s)
  OBVIOUS
<1>2. Tail(s) = RemoveAt(s, 1)
  <2>1. SubSeq(s, 1, 0) = <<>>  BY SubSeqEmpty
  <2>2. Tail(s) = SubSeq(s, 2, Len(s))  BY TailIsSubSeq
  <2>3. SubSeq(s, 2, Len(s)) = <<>> \o SubSeq(s, 2, Len(s))
    <3>1. SubSeq(s, 2, Len(s)) \in Seq(S)  BY <2>2
    <3> QED BY <3>1
  <2>4. RemoveAt(s, 1) = SubSeq(s, 1, 0) \o SubSeq(s, 2, Len(s))
    BY DEF RemoveAt
  <2> QED BY <2>1, <2>2, <2>3, <2>4
<1>3. Head(s) \in Range(s)  BY <1>1 DEF Range
<1>4. /\ RemoveAt(s, 1) \in Seq(S) /\ IsInjective(RemoveAt(s, 1))
      /\ Range(RemoveAt(s, 1)) = Range(s) \ {s[1]}
  BY <1>1, RemovedOnce
<1> QED BY <1>1, <1>2, <1>3, <1>4

\* What does not hold of all numbers fails at a first one.
LEMMA LeastNumber ==
  ASSUME NEW T \in SUBSET Nat, T # {}
  PROVE  \E x \in T : \A y \in T : x <= y
<1> DEFINE R == {p \in Nat \X Nat : p[1] < p[2]}
<1>1. IsWellFoundedOn(R, Nat)
  BY NatLessThanWellFounded DEF OpToRel
<1> HIDE DEF R
<1>2. \E x \in T : \A y \in T : ~(<<y, x>> \in R)
  BY <1>1, WFMin
<1>3. \A x, y \in Nat : <<y, x>> \in R <=> y < x
  BY DEF R
<1>4. PICK x \in T : \A y \in T : ~(<<y, x>> \in R)
  BY <1>2
<1>5. \A y \in T : x <= y
  <2> TAKE y \in T
  <2>1. x \in Nat /\ y \in Nat  OBVIOUS
  <2>2. ~(y < x)  BY <1>3, <1>4, <2>1
  <2> QED BY <2>1, <2>2
<1> QED BY <1>5

-----------------------------------------------------------------------------
(* Reachability, which Reach computes by recursion, is what its name says.  *)

\* Where the connections of E lead from T, and a set that they do not leave.
LedTo(T, E)       == {e[3] : e \in {x \in E : x[1] \in T}}
ClosedUnder(T, E) == \A e \in E : e[1] \in T => e[3] \in T

\* What Reach is to be: the least closed set around T.
IsHull(H, T, E) ==
  /\ T \subseteq H /\ H \subseteq Nodes /\ ClosedUnder(H, E)
  /\ \A W \in SUBSET Nodes : T \subseteq W /\ ClosedUnder(W, E) => H \subseteq W

LEMMA SmallestSet ==
  ASSUME NEW F \in SUBSET SUBSET Nodes, F # {}
  PROVE  \E T \in F : \A W \in F : W \subseteq T => W = T
<1> DEFINE sizes == {Cardinality(T) : T \in F}
<1>1. \A T \in F : IsFiniteSet(T) /\ Cardinality(T) \in Nat
  BY GraphAssumption, FS_Subset, FS_CardinalityType
<1>2. sizes \in SUBSET Nat /\ sizes # {}  BY <1>1
<1>3. PICK k \in sizes : \A j \in sizes : k <= j
  <2> HIDE DEF sizes
  <2> QED BY <1>2, LeastNumber
<1>4. PICK T \in F : Cardinality(T) = k  OBVIOUS
<1>5. ASSUME NEW W \in F, W \subseteq T PROVE W = T
  <2>1. k <= Cardinality(W)  BY <1>3
  <2>2. Cardinality(W) <= Cardinality(T) /\ (Cardinality(W) = Cardinality(T) => W = T)
    BY <1>1, <1>5, FS_Subset
  <2> QED BY <1>1, <1>4, <2>1, <2>2
<1> QED BY <1>5

LEMMA LargestSet ==
  ASSUME NEW F \in SUBSET SUBSET Nodes, F # {}
  PROVE  \E T \in F : \A W \in F : T \subseteq W => W = T
<1> DEFINE C == {Nodes \ T : T \in F}
<1>1. C \in SUBSET SUBSET Nodes /\ C # {}
  <2>1. \A D \in C : D \subseteq Nodes  OBVIOUS
  <2>2. PICK T : T \in F  OBVIOUS
  <2>3. Nodes \ T \in C  BY <2>2
  <2> HIDE DEF C
  <2> QED BY <2>1, <2>3
<1>2. PICK D \in C : \A W \in C : W \subseteq D => W = D
  <2> HIDE DEF C
  <2> QED BY <1>1, SmallestSet
<1>3. PICK T \in F : D = Nodes \ T  OBVIOUS
<1>4. ASSUME NEW W \in F, T \subseteq W PROVE W = T
  <2>1. Nodes \ W \in C /\ Nodes \ W \subseteq D  BY <1>3, <1>4
  <2>2. Nodes \ W = Nodes \ T  BY <1>2, <1>3, <2>1
  <2> QED BY <2>2
<1> QED BY <1>4

LEMMA ReachLeast ==
  ASSUME NEW S \in SUBSET Nodes, NEW E \in SUBSET Edges
  PROVE  IsHull(Reach(S, E), S, E)
<1> DEFINE Grow(T) == T \cup {e[3] : e \in {x \in E : x[1] \in T}}
           Runs(f) == f = [T \in SUBSET Nodes |->
                            LET U == T \cup {e[3] : e \in {x \in E : x[1] \in T}}
                            IN IF U = T THEN T ELSE f[U]]
           Hull(T) == {n \in Nodes : \A W \in SUBSET Nodes : T \subseteq W /\ ClosedUnder(W, E) => n \in W}
           h == [T \in SUBSET Nodes |-> Hull(T)]
<1>1. ASSUME NEW T \in SUBSET Nodes
      PROVE  /\ Grow(T) \in SUBSET Nodes /\ T \subseteq Grow(T)
             /\ Grow(T) = T <=> ClosedUnder(T, E)
             /\ \A W \in SUBSET Nodes : T \subseteq W /\ ClosedUnder(W, E) <=> Grow(T) \subseteq W /\ ClosedUnder(W, E)
  <2>1. \A e \in E : e[1] \in Nodes /\ e[3] \in Nodes  BY DEF Edges
  <2>2. Grow(T) \in SUBSET Nodes /\ T \subseteq Grow(T)  BY <2>1
  <2>3. Grow(T) = T <=> ClosedUnder(T, E)  BY DEF ClosedUnder
  <2>4. ASSUME NEW W \in SUBSET Nodes, ClosedUnder(W, E)
        PROVE  T \subseteq W <=> Grow(T) \subseteq W
    BY <2>4 DEF ClosedUnder
  <2> QED BY <2>2, <2>3, <2>4
<1> HIDE DEF Grow
<1>2. ASSUME NEW T \in SUBSET Nodes
      PROVE  Hull(T) = IF Grow(T) = T THEN T ELSE Hull(Grow(T))
  <2>1. CASE Grow(T) = T
    <3>1. ClosedUnder(T, E)  BY <1>1, <2>1
    <3>2. Hull(T) = T  BY <3>1
    <3> QED BY <2>1, <3>2
  <2>2. CASE Grow(T) # T
    <3>1. Hull(T) = Hull(Grow(T))  BY <1>1
    <3> QED BY <2>2, <3>1
  <2> QED BY <2>1, <2>2
<1> HIDE DEF Hull
<1>3. Runs(h)
  <2>1. h = [T \in SUBSET Nodes |-> IF Grow(T) = T THEN T ELSE h[Grow(T)]]
    <3>1. \A T \in SUBSET Nodes : h[T] = IF Grow(T) = T THEN T ELSE h[Grow(T)]
      BY <1>1, <1>2
    <3> QED BY <3>1
  <2> HIDE DEF h
  <2> QED BY <2>1 DEF Grow
<1> HIDE DEF h
<1> DEFINE grown == CHOOSE f : Runs(f)
<1>4. Reach(S, E) = grown[S]  BY DEF Reach
<1>5. Runs(grown)
  <2> HIDE DEF Runs
  <2> QED BY <1>3
<1> HIDE DEF grown
<1>6. \A T \in SUBSET Nodes : grown[T] = IF Grow(T) = T THEN T ELSE grown[Grow(T)]
  BY <1>5 DEF Grow
<1> DEFINE bad == {T \in SUBSET Nodes : ~IsHull(grown[T], T, E)}
<1>7. bad = {}
  <2> SUFFICES ASSUME bad # {} PROVE FALSE
    OBVIOUS
  <2>1. PICK T \in bad : \A W \in bad : T \subseteq W => W = T
    <3>1. bad \in SUBSET SUBSET Nodes  OBVIOUS
    <3> HIDE DEF bad
    <3> QED BY <3>1, LargestSet
  <2>2. T \in SUBSET Nodes /\ ~IsHull(grown[T], T, E)  OBVIOUS
  <2>3. CASE Grow(T) = T
    <3>1. grown[T] = T /\ ClosedUnder(T, E)  BY <1>1, <1>6, <2>2, <2>3
    <3> QED BY <2>2, <3>1 DEF IsHull
  <2>4. CASE Grow(T) # T
    <3>1. Grow(T) \in SUBSET Nodes /\ T \subseteq Grow(T)  BY <1>1, <2>2
    <3>2. Grow(T) \notin bad
      <4> HIDE DEF bad
      <4> QED BY <2>1, <2>4, <3>1
    <3>3. IsHull(grown[Grow(T)], Grow(T), E)  BY <3>1, <3>2
    <3>4. grown[T] = grown[Grow(T)]  BY <1>6, <2>2, <2>4
    <3>5. IsHull(grown[T], T, E)
      <4>1. IsHull(grown[T], Grow(T), E)  BY <3>3, <3>4
      <4> QED BY <1>1, <2>2, <3>1, <4>1 DEF IsHull
    <3> QED BY <2>2, <3>5
  <2> QED BY <2>3, <2>4
<1>8. IsHull(grown[S], S, E)
  <2>1. S \notin bad  BY <1>7
  <2> QED BY <2>1
<1> QED BY <1>4, <1>8

-----------------------------------------------------------------------------
(* Which cycles a graph may have, without its returns.                      *)

\* The connections that neither lead back to a loop nor leave one by "done".
Onward(g) == {e \in g.edges \ Returns(g) : ~(e[1] \in Loops /\ e[2] = "done")}

\* A smaller set of connections has no more cycles.
LEMMA AcyclicSubset ==
  ASSUME NEW S, NEW E, NEW D, D \subseteq E, Acyclic(S, E)
  PROVE  Acyclic(S, D)
<1>1. ASSUME NEW T \in SUBSET S, T \subseteq {e[3] : e \in {x \in D : x[1] \in T}}
      PROVE  T = {}
  <2>1. T \subseteq {e[3] : e \in {x \in E : x[1] \in T}}  BY <1>1
  <2> QED BY <2>1 DEF Acyclic
<1> QED BY <1>1 DEF Acyclic

\* A "done" that is not fed back lies on no cycle of what is left: the check of
\* loops asks only for the cycles of the other connections.
LEMMA ControlledOnward ==
  ASSUME NEW g \in Graphs
  PROVE  Controlled(g) <=> Acyclic(g.nodes, Onward(g))
<1> DEFINE returns == Returns(g)
           forward == g.edges \ returns
           D == g.edges \ (returns \cup Feedback(g, returns))
<1>1. Controlled(g) <=> Acyclic(g.nodes, D)  BY DEF Controlled
<1>2. Onward(g) \subseteq D
  BY DEF Onward, Feedback
<1>3. Controlled(g) => Acyclic(g.nodes, Onward(g))
  <2> HIDE DEF D
  <2> QED BY <1>1, <1>2, AcyclicSubset
<1>4. g.nodes \in SUBSET Nodes /\ forward \in SUBSET Edges  BY DEF Graphs
<1>5. D \subseteq forward /\ forward \subseteq g.edges  OBVIOUS
<1>6. ASSUME NEW e \in D
      PROVE  /\ e \in Onward(g) \/ (e[1] \in Loops /\ e[2] = "done")
             /\ e[1] \in Loops /\ e[2] = "done" => e[1] \notin Reach({e[3]}, forward \ {e})
  BY DEF Onward, Feedback
<1> HIDE DEF D, forward, returns
<1>7. ASSUME Acyclic(g.nodes, Onward(g)) PROVE Acyclic(g.nodes, D)
  <2> DEFINE cycles == {T \in SUBSET g.nodes : T # {} /\ T \subseteq LedTo(T, D)}
  <2>1. cycles = {}
    <3> SUFFICES ASSUME cycles # {} PROVE FALSE
      OBVIOUS
    <3>1. PICK T \in cycles : \A W \in cycles : W \subseteq T => W = T
      <4>1. cycles \in SUBSET SUBSET Nodes  BY <1>4
      <4> HIDE DEF cycles
      <4> QED BY <4>1, SmallestSet
    <3>2. T \subseteq g.nodes /\ T # {} /\ T \subseteq LedTo(T, D)  OBVIOUS
    <3>3. \A m \in T : \E e \in D : e[1] \in T /\ e[3] = m  BY <3>2 DEF LedTo
    <3>4. CASE \A e \in D : e[1] \in T /\ e[3] \in T => e \in Onward(g)
      <4>1. \A m \in T : \E e \in Onward(g) : e[1] \in T /\ e[3] = m  BY <3>3, <3>4
      <4>2. T \subseteq {e[3] : e \in {x \in Onward(g) : x[1] \in T}}  BY <4>1
      <4> QED BY <1>7, <3>2, <4>2 DEF Acyclic
    <3>5. CASE \E e \in D : e[1] \in T /\ e[3] \in T /\ e \notin Onward(g)
      <4>1. PICK e \in D : e[1] \in T /\ e[3] \in T /\ e \notin Onward(g)  BY <3>5
      <4> DEFINE B == Reach({e[3]}, forward \ {e})
                 W == T \ B
      <4>2. e[1] \notin B  BY <1>6, <4>1
      <4>3. IsHull(B, {e[3]}, forward \ {e})
        <5>1. {e[3]} \in SUBSET Nodes  BY <1>4, <3>2, <4>1
        <5>2. forward \ {e} \in SUBSET Edges  BY <1>4
        <5> QED BY <5>1, <5>2, ReachLeast
      <4> HIDE DEF B
      <4>4. e[3] \in B /\ \A x \in forward : x # e /\ x[1] \in B => x[3] \in B
        BY <4>3 DEF IsHull, ClosedUnder
      <4>5. ASSUME NEW m \in W PROVE \E x \in D : x[1] \in W /\ x[3] = m
        <5>1. PICK x \in D : x[1] \in T /\ x[3] = m  BY <3>3
        <5>2. x # e  BY <4>4, <5>1
        <5>3. x[1] \notin B  BY <1>5, <4>4, <5>1, <5>2
        <5> QED BY <5>1, <5>3
      <4>6. W \subseteq LedTo(W, D)  BY <4>5 DEF LedTo
      <4>7. W \in SUBSET g.nodes /\ W \subseteq T /\ W # T /\ W # {}  BY <3>2, <4>1, <4>2, <4>4
      <4> HIDE DEF W
      <4>8. W \in cycles  BY <4>6, <4>7
      <4> HIDE DEF cycles
      <4> QED BY <3>1, <4>7, <4>8
    <3> QED BY <3>4, <3>5
  <2>2. ASSUME NEW T \in SUBSET g.nodes, T \subseteq {e[3] : e \in {x \in D : x[1] \in T}}
        PROVE  T = {}
    <3>1. T \notin cycles  BY <2>1
    <3> QED BY <2>2, <3>1 DEF LedTo
  <2> QED BY <2>2 DEF Acyclic
<1> QED BY <1>1, <1>3, <1>7

\* Where the body of a loop begins, and by which connections it goes on.
Begins(g, l) == {e[3] : e \in {x \in g.edges : x[1] = l /\ x[2] = "each"}} \ {l}
Inner(g, l) == {e \in g.edges : e[3] # l /\ e[1] # l /\ (e[1] \in Loops => e[2] = "done")}

LEMMA BodyLeast ==
  ASSUME NEW g \in Graphs, NEW l
  PROVE  IsHull(Body(g, l), Begins(g, l), Inner(g, l))
<1>1. Begins(g, l) \in SUBSET Nodes /\ Inner(g, l) \in SUBSET Edges
  BY DEF Begins, Inner, Graphs, Edges
<1>2. Body(g, l) = Reach(Begins(g, l), Inner(g, l))  BY DEF Body, Begins, Inner
<1> QED BY <1>1, <1>2, ReachLeast

LEMMA NotItsOwnBody ==
  ASSUME NEW g \in Graphs, NEW l
  PROVE  l \notin Body(g, l)
<1>1. Begins(g, l) \subseteq Nodes \ {l} /\ ClosedUnder(Nodes \ {l}, Inner(g, l))
  BY DEF Begins, Inner, ClosedUnder, Graphs, Edges
<1>2. Body(g, l) \subseteq Nodes \ {l}  BY <1>1, BodyLeast DEF IsHull
<1> QED BY <1>2

LEMMA ReturnsAre ==
  ASSUME NEW g, NEW e
  PROVE  e \in Returns(g) <=>
           /\ e \in g.edges /\ e[3] \in g.nodes \cap Loops /\ e[1] \in Body(g, e[3])
           /\ e[1] \in Loops => e[2] = "done"
BY DEF Returns

-----------------------------------------------------------------------------
(* A node that is put into a controlled graph leaves it controlled.         *)

\* The new node n is on its own, leads nowhere but to the loop in whose body it
\* begins, or stands between the ends of the connection c.
Placed(g, h, n, c) ==
  /\ h.nodes = g.nodes \cup {n}
  /\ \/ h.edges = g.edges
     \/ /\ c[1] \in g.nodes
        /\ \E q \in SUBSET AllPorts :
             /\ h.edges = g.edges \cup {<<c[1], c[2], n>>} \cup {<<n, p, c[1]>> : p \in q}
             /\ q # {} => c[2] = "each" /\ c[1] \in Loops
             /\ n \in Loops => q \subseteq {"done"}
     \/ /\ c \in g.edges /\ n \notin Loops
        /\ h.edges = (g.edges \ {c}) \cup {<<c[1], c[2], n>>} \cup {<<n, FirstPort(n), c[3]>>}

LEMMA InsertPlaces ==
  ASSUME NEW g \in Graphs, NEW n \in Nodes, NEW c, c = None \/ Offers(c), Insertable(g, c),
         c = None \/ c[3] = None \/ (c \in g.edges /\ n \notin Loops)
  PROVE  Placed(g, Insert(g, n, c), n, c)
<1> DEFINE h == Insert(g, n, c)
<1>1. h.nodes = g.nodes \cup {n}  BY DEF Insert
<1>2. CASE c = None \/ n \in Starts
  BY <1>1, <1>2 DEF Insert, Placed
<1>3. CASE ~(c = None \/ n \in Starts) /\ c[3] = None
  <2> DEFINE q == IF c[2] = "each" /\ c[1] \in Loops THEN ReturnPorts(n) ELSE {}
  <2>1. c[1] \in g.nodes  BY <1>3 DEF Insertable
  <2>2. c \notin g.edges  BY <1>3, GraphAssumption DEF Graphs, Edges
  <2>3. h.edges = g.edges \cup {<<c[1], c[2], n>>} \cup {<<n, p, c[1]>> : p \in q}
    <3>1. h.edges = (g.edges \ {c}) \cup {<<c[1], c[2], n>>}
                    \cup (IF c[2] = "each" /\ c[1] \in Loops
                          THEN {<<n, p, c[1]>> : p \in ReturnPorts(n)} ELSE {})
      BY <1>3 DEF Insert
    <3> QED BY <2>2, <3>1
  <2>4. q \in SUBSET AllPorts /\ (n \in Loops => q \subseteq {"done"})
    BY PortsOfNodes DEF ReturnPorts
  <2>5. q # {} => c[2] = "each" /\ c[1] \in Loops  OBVIOUS
  <2> HIDE DEF q, h
  <2>6. \E s \in SUBSET AllPorts :
          /\ h.edges = g.edges \cup {<<c[1], c[2], n>>} \cup {<<n, p, c[1]>> : p \in s}
          /\ s # {} => c[2] = "each" /\ c[1] \in Loops
          /\ n \in Loops => s \subseteq {"done"}
    BY <2>3, <2>4, <2>5
  <2>7. Placed(g, h, n, c)  BY <1>1, <2>1, <2>6 DEF Placed
  <2> QED BY <2>7 DEF h
<1>4. CASE ~(c = None \/ n \in Starts) /\ c[3] # None
  <2>1. h.edges = (g.edges \ {c}) \cup {<<c[1], c[2], n>>} \cup {<<n, FirstPort(n), c[3]>>}
    BY <1>4 DEF Insert
  <2> QED BY <1>1, <1>4, <2>1 DEF Placed
<1> QED BY <1>2, <1>3, <1>4

LEMMA PlacedReturns ==
  ASSUME NEW g \in Graphs, NEW h \in Graphs, Joined(g), NEW n \in Nodes \ g.nodes, NEW c,
         Placed(g, h, n, c)
  PROVE  /\ \A e \in Returns(g) : e \in h.edges => e \in Returns(h)
         /\ c \in Returns(g) /\ c \notin h.edges => <<n, FirstPort(n), c[3]>> \in Returns(h)
         /\ c[1] \in Loops /\ <<c[1], "each", n>> \in h.edges =>
              \A p \in AllPorts : <<n, p, c[1]>> \in h.edges /\ (n \in Loops => p = "done")
                                    => <<n, p, c[1]>> \in Returns(h)
<1>1. ASSUME NEW e \in g.edges
      PROVE  /\ e[1] \in g.nodes /\ e[3] \in g.nodes /\ e[1] # n /\ e[3] # n
             /\ e = <<e[1], e[2], e[3]>>
  BY DEF Joined, Joins, Graphs, Edges
<1> DEFINE into == <<c[1], c[2], n>>
           on   == <<n, FirstPort(n), c[3]>>
<1>2. ASSUME NEW e \in g.edges, e \notin h.edges
      PROVE  e = c /\ n \notin Loops /\ into \in h.edges /\ on \in h.edges
  BY <1>2 DEF Placed
<1>3. into[1] = c[1] /\ into[2] = c[2] /\ into[3] = n /\ on[1] = n /\ on[3] = c[3]  OBVIOUS
<1> HIDE DEF into, on
<1>4. ASSUME NEW l \in g.nodes PROVE Body(g, l) \subseteq Body(h, l)
  <2> DEFINE B == Body(h, l)
  <2>1. IsHull(B, Begins(h, l), Inner(h, l)) /\ IsHull(Body(g, l), Begins(g, l), Inner(g, l))
    BY BodyLeast
  <2> HIDE DEF B
  <2>2. B \in SUBSET Nodes  BY <2>1 DEF IsHull
  <2>3. ASSUME NEW m \in Begins(g, l) PROVE m \in B
    <3>1. PICK e \in g.edges : e[1] = l /\ e[2] = "each" /\ e[3] = m /\ m # l  BY DEF Begins
    <3>2. CASE e \in h.edges
      <4>1. m \in Begins(h, l)  BY <3>1, <3>2 DEF Begins
      <4> QED BY <2>1, <4>1 DEF IsHull
    <3>3. CASE e \notin h.edges
      <4>1. e = c /\ n \notin Loops /\ into \in h.edges /\ on \in h.edges  BY <1>2, <3>3
      <4>2. n # l /\ m # l  BY <3>1
      <4>3. n \in Begins(h, l)  BY <1>3, <3>1, <4>1, <4>2 DEF Begins
      <4>4. on \in Inner(h, l)  BY <1>3, <3>1, <4>1, <4>2 DEF Inner
      <4> QED BY <1>3, <2>1, <3>1, <4>1, <4>3, <4>4 DEF IsHull, ClosedUnder
    <3> QED BY <3>2, <3>3
  <2>4. ASSUME NEW e \in Inner(g, l), e[1] \in B PROVE e[3] \in B
    <3>1. e \in g.edges /\ e[3] # l /\ e[1] # l /\ (e[1] \in Loops => e[2] = "done")
      BY DEF Inner
    <3>2. CASE e \in h.edges
      <4>1. e \in Inner(h, l)  BY <3>1, <3>2 DEF Inner
      <4> QED BY <2>1, <2>4, <4>1 DEF IsHull, ClosedUnder
    <3>3. CASE e \notin h.edges
      <4>1. e = c /\ n \notin Loops /\ into \in h.edges /\ on \in h.edges  BY <1>2, <3>1, <3>3
      <4>2. n # l  OBVIOUS
      <4>3. into \in Inner(h, l) /\ on \in Inner(h, l)  BY <1>3, <3>1, <4>1, <4>2 DEF Inner
      <4>4. n \in B  BY <1>3, <2>1, <2>4, <4>1, <4>3 DEF IsHull, ClosedUnder
      <4> QED BY <1>3, <2>1, <4>1, <4>3, <4>4 DEF IsHull, ClosedUnder
    <3> QED BY <3>2, <3>3
  <2>5. Begins(g, l) \subseteq B /\ ClosedUnder(B, Inner(g, l))  BY <2>3, <2>4 DEF ClosedUnder
  <2>6. Body(g, l) \subseteq B  BY <2>1, <2>2, <2>5 DEF IsHull
  <2> QED BY <2>6 DEF B
<1>5. g.nodes \subseteq h.nodes  BY DEF Placed
<1>6. ASSUME NEW e \in Returns(g)
      PROVE  /\ e \in g.edges /\ e[3] \in h.nodes \cap Loops /\ e[3] \in g.nodes
             /\ e[1] \in Body(h, e[3]) /\ (e[1] \in Loops => e[2] = "done")
             /\ e[1] # e[3]
  BY <1>4, <1>5, ReturnsAre, NotItsOwnBody
<1>7. ASSUME NEW e \in Returns(g), e \in h.edges PROVE e \in Returns(h)
  BY <1>6, <1>7, ReturnsAre
<1>8. ASSUME c \in Returns(g), c \notin h.edges PROVE on \in Returns(h)
  <2> DEFINE l == c[3]
             B == Body(h, l)
  <2>1. /\ c \in g.edges /\ l \in h.nodes \cap Loops /\ l \in g.nodes /\ c[1] \in B
        /\ c[1] \in Loops => c[2] = "done"
        /\ c[1] # l
    BY <1>6, <1>8
  <2>2. n \notin Loops /\ into \in h.edges /\ on \in h.edges /\ n # l  BY <1>2, <1>8, <2>1
  <2> HIDE DEF l
  <2>3. into \in Inner(h, l)  BY <1>3, <2>1, <2>2 DEF Inner
  <2>4. IsHull(B, Begins(h, l), Inner(h, l))  BY BodyLeast
  <2>5. n \in B  BY <1>3, <2>1, <2>3, <2>4 DEF IsHull, ClosedUnder
  <2> QED BY <1>3, <2>1, <2>2, <2>5, ReturnsAre DEF l
<1>9. ASSUME c[1] \in Loops, <<c[1], "each", n>> \in h.edges, NEW p \in AllPorts,
             <<n, p, c[1]>> \in h.edges, n \in Loops => p = "done"
      PROVE  <<n, p, c[1]>> \in Returns(h)
  <2> DEFINE l == c[1]
             e == <<l, "each", n>>
             r == <<n, p, l>>
  <2>1. e[1] = l /\ e[2] = "each" /\ e[3] = n /\ r[1] = n /\ r[2] = p /\ r[3] = l  OBVIOUS
  <2>2. l \in g.nodes
    <3>1. e \notin g.edges  BY <1>1, <2>1
    <3> QED BY <1>1, <1>9, <3>1 DEF Placed
  <2>3. e \in h.edges /\ r \in h.edges /\ l \in h.nodes \cap Loops /\ n # l  BY <1>5, <1>9, <2>2
  <2> HIDE DEF l, e, r
  <2>4. n \in Begins(h, l)  BY <2>1, <2>3 DEF Begins
  <2>5. n \in Body(h, l)  BY <2>4, BodyLeast DEF IsHull
  <2>6. r \in Returns(h)  BY <1>9, <2>1, <2>3, <2>5, ReturnsAre
  <2> QED BY <2>6 DEF r, l
<1> QED BY <1>7, <1>8, <1>9 DEF on

LEMMA PlacedControlled ==
  ASSUME NEW g \in Graphs, NEW h \in Graphs, Joined(g), NEW n \in Nodes \ g.nodes, NEW c,
         Placed(g, h, n, c), Controlled(g)
  PROVE  Controlled(h)
<1> DEFINE into == <<c[1], c[2], n>>
           on   == <<n, FirstPort(n), c[3]>>
<1>1. Acyclic(g.nodes, Onward(g))  BY ControlledOnward
<1>2. ASSUME NEW e \in g.edges
      PROVE  e[1] \in g.nodes /\ e[3] \in g.nodes /\ e[1] # n /\ e[3] # n
  BY DEF Joined, Joins
<1>3. h.nodes = g.nodes \cup {n}  BY DEF Placed
<1>4. ASSUME NEW e \in Onward(h)
      PROVE  \/ e \in Onward(g)
             \/ e = into /\ c[1] # n
             \/ /\ e = on /\ c[3] # n /\ c \in g.edges
                /\ into \in Onward(h) => c \in Onward(g)
  <2>1. e \in h.edges /\ e \notin Returns(h) /\ ~(e[1] \in Loops /\ e[2] = "done")  BY DEF Onward
  <2>2. CASE e \in g.edges
    <3>1. e \notin Returns(g)  BY <2>1, PlacedReturns
    <3> QED BY <2>1, <2>2, <3>1 DEF Onward
  <2>3. CASE e = into /\ e \notin g.edges
    <3>1. c[1] # n  BY <1>2, <2>1, <2>3 DEF Placed
    <3> QED BY <2>3, <3>1
  <2>4. ASSUME e \notin g.edges, NEW p \in AllPorts, e = <<n, p, c[1]>>, n \in Loops => p = "done",
               into \in h.edges, c[2] = "each", c[1] \in Loops
        PROVE  FALSE
    BY <2>1, <2>4, PlacedReturns
  <2>5. CASE e = on /\ c \in g.edges /\ c \notin h.edges /\ n \notin Loops
    <3>1. c \notin Returns(g)  BY <2>1, <2>5, PlacedReturns
    <3>2. into[1] = c[1] /\ into[2] = c[2]  OBVIOUS
    <3>3. into \in Onward(h) => c \in Onward(g)  BY <2>5, <3>1, <3>2 DEF Onward
    <3> QED BY <1>2, <2>5, <3>3
  <2>6. CASE h.edges = g.edges  BY <2>1, <2>2, <2>6
  <2>7. CASE /\ c[1] \in g.nodes
             /\ \E q \in SUBSET AllPorts :
                  /\ h.edges = g.edges \cup {<<c[1], c[2], n>>} \cup {<<n, p, c[1]>> : p \in q}
                  /\ q # {} => c[2] = "each" /\ c[1] \in Loops
                  /\ n \in Loops => q \subseteq {"done"}
    <3>1. PICK q \in SUBSET AllPorts :
                  /\ h.edges = g.edges \cup {into} \cup {<<n, p, c[1]>> : p \in q}
                  /\ q # {} => c[2] = "each" /\ c[1] \in Loops
                  /\ n \in Loops => q \subseteq {"done"}
      BY <2>7
    <3> HIDE DEF into, on
    <3>2. ASSUME e \notin g.edges, e # into PROVE FALSE
      <4>1. PICK p \in q : e = <<n, p, c[1]>>  BY <2>1, <3>1, <3>2
      <4> QED BY <2>4, <3>1, <3>2, <4>1
    <3> QED BY <2>2, <2>3, <3>2
  <2>8. CASE /\ c \in g.edges /\ n \notin Loops
             /\ h.edges = (g.edges \ {c}) \cup {<<c[1], c[2], n>>} \cup {<<n, FirstPort(n), c[3]>>}
    <3>1. c \notin h.edges
      <4>1. c[1] # n /\ c[3] # n  BY <1>2, <2>8
      <4>2. into[3] = n /\ on[1] = n  OBVIOUS
      <4>3. c # into /\ c # on  BY <4>1, <4>2
      <4> QED BY <2>8, <4>3
    <3>2. e \in g.edges \/ e = into \/ e = on  BY <2>1, <2>8
    <3> QED BY <2>2, <2>3, <2>5, <2>8, <3>1, <3>2
  <2> QED BY <2>6, <2>7, <2>8 DEF Placed
<1>5. into[1] = c[1] /\ into[3] = n /\ on[1] = n /\ on[3] = c[3]  OBVIOUS
<1> HIDE DEF into, on
<1>6. ASSUME NEW T \in SUBSET h.nodes, T \subseteq {e[3] : e \in {x \in Onward(h) : x[1] \in T}}
      PROVE  T = {}
  <2> DEFINE U == T \ {n}
  <2>1. \A m \in T : \E e \in Onward(h) : e[1] \in T /\ e[3] = m  BY <1>6
  <2>2. ASSUME n \in T PROVE into \in Onward(h) /\ c[1] \in U
    <3>1. PICK e \in Onward(h) : e[1] \in T /\ e[3] = n  BY <2>1, <2>2
    <3>2. Onward(g) \subseteq g.edges  BY DEF Onward
    <3>3. e = into /\ c[1] # n  BY <1>2, <1>4, <1>5, <3>1, <3>2
    <3> QED BY <1>5, <3>1, <3>3
  <2>3. ASSUME NEW m \in U PROVE \E x \in Onward(g) : x[1] \in U /\ x[3] = m
    <3>1. PICK e \in Onward(h) : e[1] \in T /\ e[3] = m  BY <2>1
    <3>2. m # n  OBVIOUS
    <3>3. CASE e \in Onward(g)
      <4>1. e[1] # n  BY <1>2, <3>3 DEF Onward
      <4> QED BY <3>1, <3>3, <4>1
    <3>4. CASE e = into  BY <1>5, <3>1, <3>2, <3>4
    <3>5. CASE e = on /\ (into \in Onward(h) => c \in Onward(g))
      <4>1. n \in T /\ c[3] = m  BY <1>5, <3>1, <3>5
      <4> HIDE DEF U
      <4> QED BY <2>2, <3>5, <4>1
    <3> QED BY <1>4, <3>3, <3>4, <3>5
  <2>4. U \in SUBSET g.nodes  BY <1>3
  <2>5. U = {}
    <3> HIDE DEF U
    <3>1. U \subseteq {e[3] : e \in {x \in Onward(g) : x[1] \in U}}  BY <2>3
    <3> QED BY <1>1, <2>4, <3>1 DEF Acyclic
  <2>6. n \notin T  BY <2>2, <2>5
  <2> QED BY <2>5, <2>6
<1>7. Acyclic(h.nodes, Onward(h))  BY <1>6 DEF Acyclic
<1> QED BY <1>7, ControlledOnward

LEMMA InsertControlled ==
  ASSUME NEW g \in Graphs, Joined(g), Controlled(g), NEW n \in Nodes \ g.nodes,
         NEW c, c = None \/ Offers(c), Insertable(g, c),
         c = None \/ c[3] = None \/ (c \in g.edges /\ n \notin Loops)
  PROVE  Controlled(Insert(g, n, c))
<1>1. Insert(g, n, c) \in Graphs  BY InsertType DEF Offers
<1> QED BY <1>1, InsertPlaces, PlacedControlled
=============================================================================
