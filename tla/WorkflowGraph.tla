--------------------------- MODULE WorkflowGraph ---------------------------
(***************************************************************************)
(* The graph of a workflow and the operations both editors change it with: *)
(* BrowserWorkflowDocument (resources/js/workflow-browser-document.mjs) and*)
(* the check of loops that resources/js/workflow-editor-draft.mjs makes,   *)
(* which resources/js/app.js draws by.                                     *)
(*                                                                         *)
(* A graph is a record of the nodes that exist and of their connections,   *)
(* triples <<source, port, target>>.  An open port is drawn as a           *)
(* connection to None.  An identifier keeps its kind and is not used twice.*)
(***************************************************************************)
EXTENDS Naturals, FiniteSets

CONSTANTS Nodes, Kind, None

ASSUME GraphAssumption ==
  /\ None \notin Nodes /\ IsFiniteSet(Nodes)
  /\ Kind \in [Nodes -> {"start", "plain", "condition", "loop"}]

Starts  == {n \in Nodes : Kind[n] = "start"}
Actions == Nodes \ Starts
Loops   == {n \in Nodes : Kind[n] = "loop"}

AllPorts == {"output", "yes", "no", "each", "done"}
Ports(n) == CASE Kind[n] = "loop"      -> {"each", "done"}
              [] Kind[n] = "condition" -> {"yes", "no"}
              [] OTHER                 -> {"output"}
FirstPort(n) == CASE Kind[n] = "loop" -> "each" [] Kind[n] = "condition" -> "yes" [] OTHER -> "output"

Edges  == Nodes \X AllPorts \X Nodes
Graphs == [nodes : SUBSET Nodes, edges : SUBSET Edges]

\* A connection leads from a port that its source has to an action, and only
\* "done" may lead back to its own node.
Joins(g, e) ==
  /\ e[1] \in g.nodes /\ e[3] \in g.nodes \cap Actions /\ e[2] \in Ports(e[1])
  /\ e[1] = e[3] => e[2] = "done"

Twin(port) == CASE port = "yes" -> "no" [] port = "no" -> "yes" [] OTHER -> None

\* The two branches of a condition lead to different nodes, loops excepted.
Connectable(g, e) ==
  /\ Joins(g, e) /\ e \notin g.edges
  /\ e[3] \notin Loops => <<e[1], Twin(e[2]), e[3]>> \notin g.edges

\* An old target may be given up for the new one.
Connect(g, e, old) ==
  [g EXCEPT !.edges = (@ \ {<<e[1], e[2], old>>}) \cup {e}]

Disconnect(g, e) == [g EXCEPT !.edges = @ \ {e}]

\* A node on its own, or on a connection, whose target may be open. The first
\* node of a loop's body returns to the loop.
Insertable(g, c) == c # None => c[1] \in g.nodes /\ c[3] \in g.nodes \cup {None}

\* Fault: an inner loop returns by both ports.
ReturnPortsAll(n) == Ports(n)

ReturnPorts(n) == IF n \in Loops THEN {"done"} ELSE Ports(n)

Insert(g, n, c) ==
  [nodes |-> g.nodes \cup {n},
   edges |->
     IF c = None \/ n \in Starts THEN g.edges
     ELSE (g.edges \ {c}) \cup {<<c[1], c[2], n>>}
          \cup (IF c[3] # None THEN {<<n, FirstPort(n), c[3]>>}
                ELSE IF c[2] = "each" /\ c[1] \in Loops THEN {<<n, p, c[1]>> : p \in ReturnPorts(n)}
                ELSE {})]

\* Fault: what led to the node is lost with it.
WithoutUnbridged(g, n) ==
  [nodes |-> g.nodes \ {n}, edges |-> {e \in g.edges : e[1] # n}]

\* What led to n now leads where its port led.
Bridges(g, n, port) ==
  {<<x[1], x[2], y[3]>> : x \in {e \in g.edges : e[3] = n},
                          y \in {e \in g.edges : e[1] = n /\ e[2] = port}}

\* Fault: a loop is bridged by its body.
WithoutLoops(g, n) ==
  [nodes |-> g.nodes \ {n},
   edges |-> {e \in g.edges \cup (IF Kind[n] = "condition" THEN {} ELSE Bridges(g, n, FirstPort(n))) :
                e[1] # n /\ e[3] # n /\ (e \in g.edges \/ e[1] # e[3])}]

\* What led to the node leads to its successors, unless it chose among them.
Without(g, n) ==
  [nodes |-> g.nodes \ {n},
   edges |-> {e \in g.edges \cup Bridges(g, n, "output") :
                e[1] # n /\ e[3] # n /\ (e \in g.edges \/ e[1] # e[3])}]

\* A copy of some nodes with the connections among them; f gives the new nodes.
Copy(g, S) ==
  [nodes |-> S \cap g.nodes, edges |-> {e \in g.edges : e[1] \in S /\ e[3] \in S}]

Paste(g, clip, f) ==
  [nodes |-> g.nodes \cup {f[n] : n \in clip.nodes},
   edges |-> g.edges \cup {<<f[e[1]], e[2], f[e[3]]>> : e \in clip.edges}]

Renamings(clip, fresh) ==
  {f \in [clip.nodes -> fresh] :
     \A m, n \in clip.nodes : Kind[f[n]] = Kind[n] /\ (f[m] = f[n] => m = n)}

-----------------------------------------------------------------------------
(* Loops: the connections that lead back, and whether those are all.        *)

Reach(S, E) ==
  LET grown[T \in SUBSET Nodes] ==
        LET U == T \cup {e[3] : e \in {x \in E : x[1] \in T}} IN IF U = T THEN T ELSE grown[U]
  IN grown[S]

\* The body of a loop: from "each" on, not through the loop itself, and through
\* an inner loop by "done" only.
Body(g, l) ==
  LET inner == {e \in g.edges : e[3] # l /\ e[1] # l /\ (e[1] \in Loops => e[2] = "done")}
  IN Reach({e[3] : e \in {x \in g.edges : x[1] = l /\ x[2] = "each"}} \ {l}, inner)

Returns(g) ==
  UNION {LET body == Body(g, l)
         IN {e \in g.edges : e[3] = l /\ e[1] \in body /\ (e[1] \in Loops => e[2] = "done")} :
         l \in g.nodes \cap Loops}

\* A "done" that leads to where the loop is entered again, or into its body.
Feedback(g, returns) ==
  LET forward  == g.edges \ returns
      After(e) == Reach({e[3]}, forward \ {e})
  IN {e \in forward :
        /\ e[1] \in Loops /\ e[2] = "done"
        /\ LET after == After(e)
           IN \/ e[1] \in after
              \/ \E r \in returns : r[3] = e[1] /\ r[1] \in after
              \/ <<e[1], "each", e[3]>> \in forward}

\* Among some nodes there is no cycle: taking away what nothing among the rest
\* leads to, again and again, takes all, as no rest leads to all of itself.
Acyclic(S, E) ==
  \A T \in SUBSET S : T \subseteq {e[3] : e \in {x \in E : x[1] \in T}} => T = {}

Controlled(g) ==
  LET returns == Returns(g) IN Acyclic(g.nodes, g.edges \ (returns \cup Feedback(g, returns)))

TwinsApart(g) ==
  \A e \in g.edges : e[3] \in Loops \/ <<e[1], Twin(e[2]), e[3]>> \notin g.edges
=============================================================================
