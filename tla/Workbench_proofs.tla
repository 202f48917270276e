-------------------------- MODULE Workbench_proofs --------------------------
(***************************************************************************)
(* What holds of the workbench for every graph and every sequence of       *)
(* clicks, changes and loading.                                            *)
(*                                                                         *)
(* IInv is about the dock: its title changes when a node is asked for, the *)
(* form only when the code of the dock has been loaded, and the draft may  *)
(* change in between; it relates the title to the nodes asked for as long  *)
(* as they wait.  DInv is about the draft and the form, which works on     *)
(* copies: each change of the draft Fits, the form looks at its node again *)
(* after it, and what the form is given it writes.                         *)
(***************************************************************************)
EXTENDS Workbench, WorkflowGraph_proofs

Some == Nodes \cup {None}

Panels == [opened : BOOLEAN, title : Some, current : Some, target : Some,
           desired : Some, loaded : BOOLEAN, error : BOOLEAN]

\* The form has a node, perhaps none; the node of a form exists.
Shape == "id" \in DOMAIN form /\ panel \in Panels
Alive == form.id # None => form.id \in graph.nodes

\* A node is asked for in addition only while one is waited for, and the title
\* is that of the last one.
Waits(p) ==
  /\ p.target = None => p.desired = None
  /\ p.opened /\ p.target # None => p.title = (IF p.desired # None THEN p.desired ELSE p.target)

Agrees(p, f) == p.opened /\ p.target = None /\ ~p.error => p.current = p.title /\ f.id = p.title

IInv == Shape /\ Alive /\ Waits(panel) /\ Agrees(panel, form)

-----------------------------------------------------------------------------
(* What the parts of a step do to the dock and to the form.                 *)

\* Asking for a node keeps the dock in order, whatever it is doing.
LEMMA AskedKeeps ==
  ASSUME IInv, NEW n \in Nodes
  PROVE  /\ Asked(panel, n) \in Panels /\ Waits(Asked(panel, n))
         /\ \A f : f.id = form.id => Agrees(Asked(panel, n), f)
BY GraphAssumption DEF IInv, Shape, Panels, Some, Waits, Agrees, Asked, Processing

\* A dock that was closed shows nothing and waits for no second node.
LEMMA ClosedKeeps ==
  ASSUME IInv, NEW f
  PROVE  /\ Hidden(panel) \in Panels /\ Waits(Hidden(panel)) /\ Agrees(Hidden(panel), f)
         /\ Closing(panel) \in Panels /\ Waits(Closing(panel)) /\ Agrees(Closing(panel), f)
BY DEF IInv, Shape, Panels, Some, Waits, Agrees, Hidden, Closing

\* Looking at its node again, a form keeps it, unless the node is gone.
LEMMA SynchronizedKeeps ==
  ASSUME NEW f, "id" \in DOMAIN f, NEW g, NEW nd
  PROVE  /\ "id" \in DOMAIN Synchronized(f, g, nd)
         /\ f.id \in g.nodes => Synchronized(f, g, nd).id = f.id
         /\ f.id \notin g.nodes => Synchronized(f, g, nd).id = None
<1>1. CASE f.id \notin g.nodes
  BY <1>1 DEF Synchronized, Closed
<1>2. CASE f.id \in g.nodes /\ nd[f.id].type # f.type
  BY <1>2 DEF Synchronized, Begin
<1>3. CASE f.id \in g.nodes /\ nd[f.id].type = f.type
  <2>1. Synchronized(f, g, nd) = Followed(f, g, nd)
    BY <1>3 DEF Synchronized
  <2>2. "id" \in DOMAIN Followed(f, g, nd) /\ Followed(f, g, nd).id = f.id
    BY DEF Followed
  <2> QED BY <1>3, <2>1, <2>2
<1> QED BY <1>1, <1>2, <1>3

\* What a form writes when it is left does not change whose form it is.
LEMMA FlushedFormKeeps ==
  ASSUME NEW f, "id" \in DOMAIN f
  PROVE  "id" \in DOMAIN FlushedForm(f) /\ FlushedForm(f).id = f.id
BY DEF FlushedForm

LEMMA Initially == Init => IInv
BY GraphAssumption
   DEF Init, IInv, Shape, Alive, Waits, Agrees, Panels, Some, Closed

-----------------------------------------------------------------------------
(* The steps.                                                               *)

\* A change of the draft that removes no node leaves the form its node.
LEMMA ChangeKeeps ==
  ASSUME IInv, NEW g, NEW x, NEW nd, Change(g, x, nd), graph.nodes \subseteq g.nodes
  PROVE  "id" \in DOMAIN form' /\ form'.id = form.id /\ Alive'
<1>1. graph' = g /\ form' = IF form.id = None THEN form ELSE Synchronized(form, g, nd)
  BY DEF Change
<1>2. "id" \in DOMAIN form /\ (form.id # None => form.id \in g.nodes)
  BY DEF IInv, Shape, Alive
<1>3. "id" \in DOMAIN form' /\ form'.id = form.id
  <2>1. CASE form.id = None  BY <1>1, <1>2, <2>1
  <2>2. CASE form.id # None
    <3>1. form' = Synchronized(form, g, nd)  BY <1>1, <2>2
    <3> QED BY <1>2, <2>2, <3>1, SynchronizedKeeps
  <2> QED BY <2>1, <2>2
<1> QED BY <1>1, <1>2, <1>3 DEF Alive

\* One that may remove the node of the form closes the form and the dock with it.
LEMMA ChangeUnderPanelKeeps ==
  ASSUME IInv, NEW g, NEW x, NEW nd, ChangeUnderPanel(g, x, nd)
  PROVE  IInv'
<1>1. /\ graph' = g /\ form' = (IF form.id = None THEN form ELSE Synchronized(form, g, nd))
      /\ panel' = (IF form.id # None /\ form.id \notin g.nodes THEN Hidden(panel) ELSE panel)
  BY DEF ChangeUnderPanel, Change
<1>2. "id" \in DOMAIN form  BY DEF IInv, Shape
<1>3. CASE form.id = None
  BY <1>1, <1>3 DEF IInv, Shape, Alive
<1>4. CASE form.id # None /\ form.id \in g.nodes
  <2>1. form' = Synchronized(form, g, nd) /\ panel' = panel  BY <1>1, <1>4
  <2>2. "id" \in DOMAIN form' /\ form'.id = form.id  BY <1>2, <1>4, <2>1, SynchronizedKeeps
  <2> QED BY <1>1, <1>4, <2>1, <2>2 DEF IInv, Shape, Alive, Agrees
<1>5. CASE form.id # None /\ form.id \notin g.nodes
  <2>1. form' = Synchronized(form, g, nd) /\ panel' = Hidden(panel)  BY <1>1, <1>5
  <2>2. "id" \in DOMAIN form' /\ form'.id = None  BY <1>2, <1>5, <2>1, SynchronizedKeeps
  <2>3. panel' \in Panels /\ Waits(panel') /\ Agrees(panel', form')  BY <2>1, ClosedKeeps
  <2> QED BY <2>2, <2>3 DEF IInv, Shape, Alive
<1> QED BY <1>3, <1>4, <1>5

\* A step that keeps the form its node and asks for a node, or leaves the dock.
LEMMA AskingKeeps ==
  ASSUME IInv, "id" \in DOMAIN form', form'.id = form.id, Alive',
         panel' = panel \/ \E n \in Nodes : panel' = Asked(panel, n)
  PROVE  IInv'
<1>1. CASE panel' = panel
  BY <1>1 DEF IInv, Shape, Agrees
<1>2. ASSUME NEW n \in Nodes, panel' = Asked(panel, n) PROVE IInv'
  <2>1. panel' \in Panels /\ Waits(panel') /\ Agrees(panel', form')
    BY <1>2, AskedKeeps
  <2> QED BY <2>1 DEF IInv, Shape
<1> QED BY <1>1, <1>2

\* A step that leaves the form its node and closes the dock.
LEMMA ClosingKeeps ==
  ASSUME IInv, "id" \in DOMAIN form', form'.id = form.id, graph' = graph,
         panel' = Hidden(panel) \/ panel' = Closing(panel)
  PROVE  IInv'
<1>1. panel' \in Panels /\ Waits(panel') /\ Agrees(panel', form')
  BY ClosedKeeps
<1> QED BY <1>1 DEF IInv, Shape, Alive

\* The form that appears is that of the node waited for; the next to wait for
\* is the one in the title.
LEMMA ResumeKeeps == ASSUME IInv, Resume PROVE IInv'
<1> DEFINE n == panel.target
<1>1. /\ "id" \in DOMAIN form /\ panel \in Panels /\ Waits(panel)
      /\ n # None /\ n \in Nodes /\ graph' = graph
  BY DEF IInv, Shape, Panels, Some, Resume, Resumes, Processing, Unchangeable
<1>2. CASE n \in graph.nodes
  <2>1. /\ form' = Begin(graph, Flushed(node, form), n)
        /\ panel' = AfterTarget([panel EXCEPT !.current = n])
    BY <1>2 DEF Resume
  <2>2. "id" \in DOMAIN form' /\ form'.id = n  BY <2>1 DEF Begin
  <2>3. /\ panel' \in Panels /\ Waits(panel')
        /\ panel'.opened /\ panel'.target = None => panel'.current = n /\ panel'.title = n
    BY <1>1, <2>1 DEF AfterTarget, Panels, Some, Waits
  <2> QED BY <1>1, <1>2, <2>2, <2>3 DEF IInv, Shape, Alive, Agrees
<1>3. CASE n \notin graph.nodes
  <2>1. /\ form' = FlushedForm(form)
        /\ panel' = [panel EXCEPT !.target = None, !.desired = None, !.error = TRUE]
    BY <1>3 DEF Resume
  <2>2. "id" \in DOMAIN form' /\ form'.id = form.id  BY <1>1, <2>1, FlushedFormKeeps
  <2>3. panel' \in Panels /\ Waits(panel') /\ Agrees(panel', form')
    BY <1>1, <2>1 DEF Panels, Some, Waits, Agrees
  <2> QED BY <1>1, <2>2, <2>3 DEF IInv, Shape, Alive
<1> QED BY <1>2, <1>3

\* What the user does in the form leaves it its node.
LEMMA EditKeeps == ASSUME IInv, NEW config, Edit(config) PROVE IInv'
<1> DEFINE f == [form EXCEPT !.config = config, !.flushed = FALSE]
<1>1. "id" \in DOMAIN f /\ f.id = form.id  BY DEF IInv, Shape
<1>2. form' = FlushedForm(f) /\ graph' = graph /\ panel' = panel
  BY DEF Edit, Unchangeable
<1>3. "id" \in DOMAIN form' /\ form'.id = form.id  BY <1>1, <1>2, FlushedFormKeeps
<1> QED BY <1>2, <1>3 DEF IInv, Shape, Alive, Agrees

LEMMA DockSteps == ASSUME IInv, Dock PROVE IInv'
<1> USE DEF Unchangeable
<1>0. "id" \in DOMAIN form  BY DEF IInv, Shape
<1>1. CASE Resume  BY <1>1, ResumeKeeps
<1>2. CASE Load
  BY <1>2 DEF Load, draft, IInv, Shape, Alive, Waits, Agrees, Panels
<1>3. CASE Hide
  BY <1>0, <1>3, FlushedFormKeeps, ClosingKeeps DEF Hide
<1>4. CASE Apply
  BY <1>0, <1>4, FlushedFormKeeps, ClosingKeeps DEF Apply
<1>5. CASE Cancel
  <2>1. "id" \in DOMAIN Restored(form) /\ Restored(form).id = form.id
    BY <1>0 DEF Restored
  <2>2. "id" \in DOMAIN form' /\ form'.id = form.id
    BY <1>5, <2>1, FlushedFormKeeps DEF Cancel
  <2> QED BY <1>5, <2>2, ClosingKeeps DEF Cancel
<1>6. ASSUME NEW n \in Nodes, Open(n) PROVE IInv'
  <2>1. "id" \in DOMAIN form' /\ form'.id = form.id /\ Alive' /\ panel' = Asked(panel, n)
    BY <1>0, <1>6 DEF Open, draft, IInv, Alive
  <2> QED BY <2>1, AskingKeeps
<1>7. ASSUME NEW n \in Nodes, Refer(n) PROVE IInv'
  BY <1>7, EditKeeps DEF Refer
<1>8. ASSUME NEW text \in Texts, Type(text) PROVE IInv'
  BY <1>8, EditKeeps DEF Type
<1> QED BY <1>1, <1>2, <1>3, <1>4, <1>5, <1>6, <1>7, <1>8 DEF Dock

LEMMA DraftSteps == ASSUME IInv, Draft PROVE IInv'
<1>1. ASSUME NEW n \in Actions \ spent, NEW c \in Spots, AddAction(n, c) PROVE IInv'
  <2>1. n \in Nodes /\ graph.nodes \subseteq Insert(graph, n, c).nodes
    BY DEF Actions, Insert
  <2>2. PICK nd : Change(Insert(graph, n, c), extras, nd)
    BY <1>1 DEF AddAction
  <2>3. panel' = panel \/ panel' = Asked(panel, n)  BY <1>1 DEF AddAction
  <2> QED BY <2>1, <2>2, <2>3, ChangeKeeps, AskingKeeps
<1>2. ASSUME NEW n \in Nodes, NEW type \in StartTypes, AddStart(n, type) PROVE IInv'
  <2>1. graph.nodes \subseteq Insert(graph, n, None).nodes  BY DEF Insert
  <2>2. PICK x, nd : Change(Insert(graph, n, None), x, nd)
    BY <1>2 DEF AddStart
  <2>3. panel' = panel \/ panel' = Asked(panel, n)  BY <1>2 DEF AddStart
  <2> QED BY <2>1, <2>2, <2>3, ChangeKeeps, AskingKeeps
<1>3. ASSUME NEW n \in Nodes, NEW type \in StartTypes, ReplaceStart(n, type) PROVE IInv'
  <2>1. PICK nd : Change(graph, extras, nd)  BY <1>3 DEF ReplaceStart
  <2>2. panel' = panel \/ panel' = Asked(panel, n)  BY <1>3 DEF ReplaceStart
  <2> QED BY <2>1, <2>2, ChangeKeeps, AskingKeeps
<1>4. ASSUME NEW n \in Nodes, RemoveStart(n) PROVE IInv'
  <2>1. PICK g, x, nd : ChangeUnderPanel(g, x, nd)  BY <1>4 DEF RemoveStart
  <2> QED BY <2>1, ChangeUnderPanelKeeps
<1>5. ASSUME NEW n \in Nodes, RemoveAction(n) PROVE IInv'
  BY <1>5, ChangeUnderPanelKeeps DEF RemoveAction
<1>6. ASSUME NEW n \in Nodes, NEW copy \in Nodes, Duplicate(n, copy) PROVE IInv'
  <2> DEFINE g == Paste(graph, Copy(graph, {n}), [m \in {n} |-> copy])
  <2>1. graph.nodes \subseteq g.nodes  BY DEF Paste
  <2>2. PICK nd : Change(g, extras, nd)  BY <1>6 DEF Duplicate
  <2>3. panel' = panel  BY <1>6 DEF Duplicate
  <2> HIDE DEF g
  <2> QED BY <2>1, <2>2, <2>3, ChangeKeeps, AskingKeeps
<1>7. ASSUME NEW n \in Nodes, NEW name \in Names, Rename(n, name) PROVE IInv'
  <2>1. PICK nd : Change(graph, extras, nd)  BY <1>7 DEF Rename
  <2>2. panel' = panel  BY <1>7 DEF Rename
  <2> QED BY <2>1, <2>2, ChangeKeeps, AskingKeeps
<1>8. ASSUME NEW e, NEW old, ConnectNodes(e, old) PROVE IInv'
  <2>1. graph.nodes \subseteq Connect(graph, e, old).nodes
    BY DEF Connect, IInv
  <2>2. Change(Connect(graph, e, old), extras, node) /\ panel' = panel
    BY <1>8 DEF ConnectNodes
  <2> QED BY <2>1, <2>2, ChangeKeeps, AskingKeeps
<1>9. ASSUME NEW e \in graph.edges, DisconnectNodes(e) PROVE IInv'
  <2>1. graph.nodes \subseteq Disconnect(graph, e).nodes
    BY DEF Disconnect
  <2>2. Change(Disconnect(graph, e), extras, node) /\ panel' = panel
    BY <1>9 DEF DisconnectNodes
  <2> QED BY <2>1, <2>2, ChangeKeeps, AskingKeeps
<1> QED BY <1>1, <1>2, <1>3, <1>4, <1>5, <1>6, <1>7, <1>8, <1>9 DEF Draft

LEMMA NextInv == IInv /\ [Next]_vars => IInv'
<1> SUFFICES ASSUME IInv, [Next]_vars PROVE IInv'
  OBVIOUS
<1>1. CASE Dock  BY <1>1, DockSteps
<1>2. CASE Draft  BY <1>2, DraftSteps
<1>3. CASE UNCHANGED vars
  BY <1>3 DEF vars, draft, IInv, Shape, Alive, Waits, Agrees
<1> QED BY <1>1, <1>2, <1>3 DEF Next

-----------------------------------------------------------------------------
(* The draft and the form: the invariant.                                   *)

\* The names of the nodes that exist are distinct, by which references follow
\* them; a node that exists has spent its identifier.
Distinct(g, nd) == \A m, n \in g.nodes : nd[m].name = nd[n].name => m = n

GraphInv ==
  /\ graph \in Graphs /\ Joined(graph) /\ LoopFree(graph)
  /\ node \in [Nodes -> Data] /\ Distinct(graph, node)
  /\ spent \in SUBSET Nodes /\ graph.nodes \subseteq spent /\ edits \in 0..MaxEdits

\* The additional starts, each once.
StartsInv ==
  /\ extras \in Seq(Nodes) /\ IsInjective(extras)
  /\ Range(extras) = (graph.nodes \cap Starts) \ {Main}

Namings == UNION {[S -> Names] : S \in SUBSET Nodes}
Forms == [id : Nodes, type : Types, base : Configs, config : Configs, open : Configs,
          names : Namings, flushed : BOOLEAN]

\* A form belongs to a node that exists, whose type and all names it knows.
Belongs(f, g, nd) ==
  /\ f \in Forms /\ f.id \in g.nodes /\ f.type = nd[f.id].type /\ f.names = NamesOf(g, nd)

\* What it shows is stored, unless it is as it was opened.
Stores(f, nd) ==
  f.id \in Actions => nd[f.id].config.text = f.config.text \/ f.config = f.open

FormInv == form = Closed \/ (Belongs(form, graph, node) /\ Stores(form, node))

DInv == GraphInv /\ StartsInv /\ FormInv

\* A form that is not closed is told by its node.
LEMMA OpenForm ==
  ASSUME FormInv
  PROVE  /\ "id" \in DOMAIN form
         /\ form.id # None => Belongs(form, graph, node) /\ Stores(form, node)
         /\ form.id = None => form = Closed
BY GraphAssumption DEF FormInv, Belongs, Forms, Closed

-----------------------------------------------------------------------------
(* What the parts of a step do to settings and to the form.                 *)

LEMMA RemapType ==
  ASSUME NEW config \in Configs, NEW map, \A x \in DOMAIN map : map[x] \in Names
  PROVE  /\ Remap(config, map) \in Configs
         /\ Remap(config, map).text = config.text
         /\ Remap(config, map).ref = IF config.ref \in DOMAIN map THEN map[config.ref] ELSE config.ref
BY DEF Remap, Configs

LEMMA ShownType ==
  ASSUME NEW config \in Configs, NEW type
  PROVE  /\ Shown(config, type) \in Configs /\ Shown(config, type).text = config.text
         /\ Clean(config) \in Configs /\ Clean(config).text = config.text
<1>1. ASSUME NEW b \in BOOLEAN
      PROVE  [config EXCEPT !.own = b] \in Configs /\ [config EXCEPT !.own = b].text = config.text
  BY DEF Configs
<1>2. CASE type \in FormTypes
  <2>1. Shown(config, type) = [config EXCEPT !.own = TRUE]  BY <1>2 DEF Shown
  <2> QED BY <1>1, <2>1 DEF Clean
<1>3. CASE type \notin FormTypes
  <2>1. Shown(config, type) = [config EXCEPT !.own = FALSE]
    <3>1. (type \in FormTypes) = FALSE  BY <1>3
    <3> QED BY <3>1, Zenon DEF Shown
  <2> QED BY <1>1, <2>1 DEF Clean
<1> QED BY <1>2, <1>3

LEMMA NamesType ==
  ASSUME NEW g \in Graphs, NEW nd \in [Nodes -> Data]
  PROVE  NamesOf(g, nd) \in Namings /\ DOMAIN NamesOf(g, nd) = g.nodes
         /\ \A n \in g.nodes : NamesOf(g, nd)[n] = nd[n].name
<1>1. g.nodes \in SUBSET Nodes  BY DEF Graphs
<1>2. \A n \in Nodes : nd[n].name \in Names  BY DEF Data
<1> QED BY <1>1, <1>2 DEF NamesOf, Namings

\* A form that begins shows what is stored.
LEMMA BeginBelongs ==
  ASSUME NEW g \in Graphs, NEW nd \in [Nodes -> Data], NEW n \in g.nodes
  PROVE  Belongs(Begin(g, nd, n), g, nd) /\ Stores(Begin(g, nd, n), nd)
<1> DEFINE f == Begin(g, nd, n)
<1>1. n \in Nodes /\ nd[n].type \in Types /\ nd[n].config \in Configs
  BY DEF Graphs, Data
<1>2. Shown(nd[n].config, nd[n].type) \in Configs
      /\ Shown(nd[n].config, nd[n].type).text = nd[n].config.text
  BY <1>1, ShownType
<1>3. /\ f = [id |-> n, type |-> nd[n].type, base |-> nd[n].config,
              config |-> Shown(nd[n].config, nd[n].type), open |-> Shown(nd[n].config, nd[n].type),
              names |-> NamesOf(g, nd), flushed |-> TRUE]
  BY DEF Begin
<1>4. NamesOf(g, nd) \in Namings  BY NamesType
<1>5. Belongs(f, g, nd)
  <2> HIDE DEF f
  <2> QED BY <1>1, <1>2, <1>3, <1>4 DEF Belongs, Forms
<1>6. f.id = n /\ f.config = f.open
  BY DEF Begin
<1> HIDE DEF f
<1> QED BY <1>5, <1>6 DEF Stores, f

\* The map of the names that changed: distinct before, each has one new name.
LEMMA RenamedMaps ==
  ASSUME NEW f, NEW g0 \in Graphs, NEW nd0 \in [Nodes -> Data], Distinct(g0, nd0),
         NEW g \in Graphs, NEW nd \in [Nodes -> Data], f.names = NamesOf(g0, nd0)
  PROVE  LET map == Renamed(f, g, nd)
         IN /\ \A x \in DOMAIN map : map[x] \in Names
            /\ \A m \in g0.nodes \cap g.nodes :
                 IF nd0[m].name \in DOMAIN map THEN map[nd0[m].name] = nd[m].name
                 ELSE nd0[m].name = nd[m].name
<1> DEFINE Changed == {n \in DOMAIN f.names \cap g.nodes : f.names[n] # nd[n].name}
           map == Renamed(f, g, nd)
<1>1. map = [old \in {f.names[n] : n \in Changed} |->
               nd[CHOOSE n \in Changed : f.names[n] = old].name]
  BY DEF Renamed
<1>2. DOMAIN f.names = g0.nodes /\ \A n \in g0.nodes : f.names[n] = nd0[n].name
  BY NamesType
<1>3. g.nodes \subseteq Nodes /\ \A n \in Nodes : nd[n].name \in Names
  BY DEF Graphs, Data
<1>4. Changed \subseteq g0.nodes \cap g.nodes
  BY <1>2
<1>5. ASSUME NEW x \in DOMAIN map PROVE map[x] \in Names
  <2>1. \E n \in Changed : f.names[n] = x  BY <1>1
  <2>2. (CHOOSE n \in Changed : f.names[n] = x) \in Changed  BY <2>1
  <2>3. map[x] = nd[CHOOSE n \in Changed : f.names[n] = x].name  BY <1>1
  <2> HIDE DEF Changed, map
  <2> QED BY <1>3, <1>4, <2>2, <2>3
<1>6. ASSUME NEW m \in g0.nodes \cap g.nodes
      PROVE  IF nd0[m].name \in DOMAIN map THEN map[nd0[m].name] = nd[m].name
             ELSE nd0[m].name = nd[m].name
  <2> DEFINE old == nd0[m].name
  <2>1. \A n \in Changed : f.names[n] = old => n = m
    BY <1>2, <1>4 DEF Distinct
  <2>2. CASE m \in Changed
    <3>1. f.names[m] = old  BY <1>2
    <3>2. (CHOOSE n \in Changed : f.names[n] = old) = m
      <4> HIDE DEF Changed, old
      <4> QED BY <2>1, <2>2, <3>1
    <3>3. old \in DOMAIN map /\ map[old] = nd[CHOOSE n \in Changed : f.names[n] = old].name
      <4> HIDE DEF Changed, old
      <4> QED BY <1>1, <2>2, <3>1
    <3> QED BY <3>2, <3>3
  <2>3. CASE m \notin Changed
    <3>1. old \notin DOMAIN map
      <4> HIDE DEF Changed, old
      <4> QED BY <1>1, <2>1, <2>3
    <3>2. nd0[m].name = nd[m].name  BY <1>2, <2>3
    <3> QED BY <3>1, <3>2
  <2> QED BY <2>2, <2>3
<1> HIDE DEF map
<1> QED BY <1>5, <1>6 DEF map

-----------------------------------------------------------------------------
(* Changes of the draft.                                                    *)

\* What a change of the draft may make of the graph and of the data of its
\* nodes: actions that stay keep their types and texts, and references follow.
Fits(g, nd) ==
  /\ g \in Graphs /\ Joined(g) /\ LoopFree(g)
  /\ nd \in [Nodes -> Data] /\ Distinct(g, nd)
  /\ \A n \in graph.nodes \cap g.nodes \cap Actions :
       /\ nd[n].type = node[n].type
       /\ nd[n].config.text = node[n].config.text
       /\ \A m \in graph.nodes \cap g.nodes \cap Actions :
            node[n].config.ref = node[m].name => nd[n].config.ref = nd[m].name

\* The step of RefsFollow.
FollowStep ==
  graph' # graph \/ (\E n \in Nodes : node'[n].name # node[n].name) =>
    \A n, m \in graph.nodes \cap graph'.nodes \cap Actions :
      /\ node[n].config.ref = node[m].name => node'[n].config.ref = node'[m].name
      /\ n = form.id /\ n = form'.id /\ form.config.ref = node[m].name
           => form'.config.ref = node'[m].name

LEMMA ValidFits ==
  ASSUME NEW g, Valid(g)
  PROVE  Joined(g) /\ LoopFree(g)
BY ControlledLoopFree DEF Valid, Joined

\* Connections change, nodes go, but their data stays.
LEMMA SameDataFits ==
  ASSUME GraphInv, NEW g \in Graphs, Joined(g), LoopFree(g), g.nodes \subseteq graph.nodes
  PROVE  Fits(g, node)
BY DEF GraphInv, Fits, Distinct

\* A new node has a name that no other has.
LEMMA NewNodeFits ==
  ASSUME GraphInv, NEW g \in Graphs, Joined(g), LoopFree(g), NEW n \in Nodes \ graph.nodes,
         g.nodes = graph.nodes \cup {n}, NEW d \in Data, d.name \notin Taken(node, graph)
  PROVE  Fits(g, [node EXCEPT ![n] = d])
<1> DEFINE nd == [node EXCEPT ![n] = d]
<1>1. nd \in [Nodes -> Data] /\ nd[n] = d /\ \A m \in Nodes \ {n} : nd[m] = node[m]
  BY DEF GraphInv
<1>2. graph.nodes \subseteq Nodes /\ \A m \in graph.nodes : node[m].name # d.name
  BY DEF GraphInv, Graphs, Taken
<1> HIDE DEF nd
<1>3. Distinct(g, nd)
  BY <1>1, <1>2 DEF GraphInv, Distinct
<1> QED BY <1>1, <1>2, <1>3 DEF Fits, nd

\* A start gets other data, of which no reference to an action speaks.
LEMMA NewStartFits ==
  ASSUME GraphInv, NEW n \in Starts \cap graph.nodes, NEW d \in Data,
         \A m \in graph.nodes \ {n} : node[m].name # d.name
  PROVE  Fits(graph, [node EXCEPT ![n] = d])
<1> DEFINE nd == [node EXCEPT ![n] = d]
<1>1. n \in Nodes /\ nd \in [Nodes -> Data] /\ nd[n] = d /\ \A m \in Nodes \ {n} : nd[m] = node[m]
  BY DEF GraphInv, Starts
<1>2. graph.nodes \subseteq Nodes  BY DEF GraphInv, Graphs
<1> HIDE DEF nd
<1>3. Distinct(graph, nd)
  BY <1>1, <1>2 DEF GraphInv, Distinct
<1>4. \A m \in Actions : m # n  BY DEF Actions
<1> QED BY <1>1, <1>2, <1>3, <1>4 DEF Fits, GraphInv, nd

\* The next start takes over the identifier of the first with its own data.
LEMMA PromotedFits ==
  ASSUME GraphInv, Main \in graph.nodes, NEW p \in Starts \cap graph.nodes, p # Main,
         NEW g \in Graphs, Joined(g), LoopFree(g),
         g.nodes = (graph.nodes \ {Main, p}) \cup {Main}
  PROVE  Fits(g, [node EXCEPT ![Main] = node[p]])
<1> DEFINE nd == [node EXCEPT ![Main] = node[p]]
<1>1. /\ Main \in Nodes /\ p \in Nodes /\ nd \in [Nodes -> Data] /\ nd[Main] = node[p]
      /\ \A m \in Nodes \ {Main} : nd[m] = node[m]
  BY WorkbenchAssumption DEF GraphInv, Starts
<1>2. graph.nodes \subseteq Nodes  BY DEF GraphInv, Graphs
<1> HIDE DEF nd
<1>3. Distinct(g, nd)
  BY <1>1, <1>2 DEF GraphInv, Distinct
<1>4. \A m \in Actions : m # Main  BY WorkbenchAssumption DEF Actions
<1> QED BY <1>1, <1>2, <1>3, <1>4 DEF Fits, nd

\* A node gets another name, and each reference to it too.
LEMMA RenamedFits ==
  ASSUME GraphInv, NEW n \in graph.nodes, NEW name \in Names \ Taken(node, graph)
  PROVE  Fits(graph, [m \in DOMAIN node |->
                        [node[m] EXCEPT !.name = IF m = n THEN name ELSE @,
                           !.config = IF m \in graph.nodes
                                        THEN Remap(@, [old \in {node[n].name} |-> name]) ELSE @]])
<1> DEFINE map == [old \in {node[n].name} |-> name]
           nd == [m \in DOMAIN node |->
                    [node[m] EXCEPT !.name = IF m = n THEN name ELSE @,
                                    !.config = IF m \in graph.nodes THEN Remap(@, map) ELSE @]]
<1>1. graph.nodes \subseteq Nodes /\ DOMAIN node = Nodes /\ \A m \in Nodes : node[m] \in Data
  BY DEF GraphInv, Graphs
<1>2. /\ DOMAIN map = {node[n].name} /\ map[node[n].name] = name
      /\ \A x \in DOMAIN map : map[x] \in Names
  OBVIOUS
<1> HIDE DEF map
<1>3. ASSUME NEW m \in Nodes
      PROVE  /\ nd[m] \in Data /\ nd[m].type = node[m].type
             /\ nd[m].name = IF m = n THEN name ELSE node[m].name
             /\ nd[m].config = IF m \in graph.nodes THEN Remap(node[m].config, map) ELSE node[m].config
  <2>1. node[m].config \in Configs /\ node[m] \in Data  BY <1>1 DEF Data
  <2>2. Remap(node[m].config, map) \in Configs  BY <1>2, <2>1, RemapType
  <2>3. nd[m] = [node[m] EXCEPT !.name = IF m = n THEN name ELSE @,
                   !.config = IF m \in graph.nodes THEN Remap(@, map) ELSE @]
    BY <1>1
  <2> HIDE DEF nd
  <2> QED BY <2>1, <2>2, <2>3 DEF Data
<1>4. nd \in [Nodes -> Data]  BY <1>1, <1>3
<1> HIDE DEF nd
<1>5. \A m \in graph.nodes : node[m].name # name  BY DEF Taken
<1>6. Distinct(graph, nd)
  BY <1>1, <1>3, <1>5 DEF GraphInv, Distinct
<1>7. ASSUME NEW m \in graph.nodes
      PROVE  /\ nd[m].type = node[m].type
             /\ nd[m].config.text = node[m].config.text
             /\ nd[m].config.ref = IF node[m].config.ref = node[n].name THEN name
                                   ELSE node[m].config.ref
  <2>1. m \in Nodes /\ node[m].config \in Configs  BY <1>1 DEF Data
  <2>2. nd[m].config = Remap(node[m].config, map) /\ nd[m].type = node[m].type  BY <1>3, <2>1
  <2> QED BY <1>2, <2>1, <2>2, RemapType
<1>8. ASSUME NEW m \in graph.nodes, NEW k \in graph.nodes, node[m].config.ref = node[k].name
      PROVE  nd[m].config.ref = nd[k].name
  <2>1. nd[k].name = IF k = n THEN name ELSE node[k].name  BY <1>1, <1>3
  <2>2. node[k].name = node[n].name => k = n  BY DEF GraphInv, Distinct
  <2> QED BY <1>7, <1>8, <2>1, <2>2
<1>9. graph \in Graphs /\ Joined(graph) /\ LoopFree(graph)  BY DEF GraphInv
<1> QED BY <1>4, <1>6, <1>7, <1>8, <1>9 DEF Fits, nd, map

\* After a change that fits the form looks at its node again: it still belongs
\* to it, what it shows is still stored, and its reference has followed.
LEMMA SynchronizedBelongs ==
  ASSUME GraphInv, NEW g, NEW nd, Fits(g, nd),
         NEW f, Belongs(f, graph, node), Stores(f, node)
  PROVE  LET s == Synchronized(f, g, nd)
         IN /\ s = Closed \/ (Belongs(s, g, nd) /\ Stores(s, nd))
            /\ \A m \in graph.nodes \cap g.nodes \cap Actions :
                 f.id \in g.nodes \cap Actions /\ f.config.ref = node[m].name
                   => s.config.ref = nd[m].name
<1> DEFINE s == Synchronized(f, g, nd)
           map == Renamed(f, g, nd)
<1>1. /\ f \in Forms /\ f.id \in graph.nodes /\ f.type = node[f.id].type
      /\ f.names = NamesOf(graph, node)
  BY DEF Belongs
<1>2. g \in Graphs /\ nd \in [Nodes -> Data] /\ graph \in Graphs /\ node \in [Nodes -> Data]
      /\ Distinct(graph, node)
  BY DEF Fits, GraphInv
<1>3. CASE f.id \notin g.nodes
  BY <1>3 DEF Synchronized
<1>4. CASE f.id \in g.nodes /\ nd[f.id].type # f.type
  <2>1. s = Begin(g, nd, f.id)  BY <1>4 DEF Synchronized
  <2>2. f.id \notin Actions  BY <1>1, <1>4 DEF Fits
  <2> HIDE DEF s
  <2> QED BY <1>2, <1>4, <2>1, <2>2, BeginBelongs DEF s
<1>5. CASE f.id \in g.nodes /\ nd[f.id].type = f.type
  <2>1. s = Followed(f, g, nd)  BY <1>5 DEF Synchronized
  <2>2. /\ \A x \in DOMAIN map : map[x] \in Names
        /\ \A m \in graph.nodes \cap g.nodes :
             IF node[m].name \in DOMAIN map THEN map[node[m].name] = nd[m].name
             ELSE node[m].name = nd[m].name
    BY <1>1, <1>2, RenamedMaps
  <2>3. f.base \in Configs /\ f.config \in Configs /\ f.open \in Configs
    BY <1>1 DEF Forms
  <2>4. NamesOf(g, nd) \in Namings  BY <1>2, NamesType
  <2>5. s = [f EXCEPT !.base = Remap(f.base, map), !.config = Remap(f.config, map),
                      !.open = Remap(f.open, map), !.names = NamesOf(g, nd)]
    BY <1>1, <2>1 DEF Followed, Forms
  <2> HIDE DEF map, s
  <2>6. Remap(f.base, map) \in Configs /\ Remap(f.config, map) \in Configs /\ Remap(f.open, map) \in Configs
    BY <2>2, <2>3, RemapType
  <2>7. /\ s \in Forms /\ s.id = f.id /\ s.type = f.type /\ s.names = NamesOf(g, nd)
        /\ s.config = Remap(f.config, map) /\ s.open = Remap(f.open, map)
    BY <1>1, <2>4, <2>5, <2>6 DEF Forms
  <2>8. Belongs(s, g, nd)  BY <1>5, <2>7 DEF Belongs
  <2>9. s.config.text = f.config.text
        /\ s.config.ref = IF f.config.ref \in DOMAIN map THEN map[f.config.ref] ELSE f.config.ref
    BY <2>2, <2>3, <2>7, RemapType
  <2>10. Stores(s, nd)
    <3>1. f.config = f.open => s.config = s.open  BY <2>7
    <3>2. f.id \in Actions => nd[f.id].config.text = node[f.id].config.text  BY <1>1, <1>5 DEF Fits
    <3> QED BY <2>7, <2>9, <3>1, <3>2 DEF Stores
  <2>11. ASSUME NEW m \in graph.nodes \cap g.nodes \cap Actions, f.config.ref = node[m].name
         PROVE  s.config.ref = nd[m].name
    BY <2>2, <2>9, <2>11
  <2> QED BY <2>8, <2>10, <2>11 DEF s
<1> QED BY <1>3, <1>4, <1>5

\* A change that fits keeps the invariant, and references follow.
LEMMA FittingKeeps ==
  ASSUME DInv, Editable, NEW g, NEW x, NEW nd, Change(g, x, nd), Fits(g, nd),
         x \in Seq(Nodes), IsInjective(x), Range(x) = (g.nodes \cap Starts) \ {Main},
         spent' \in SUBSET Nodes, g.nodes \subseteq spent'
  PROVE  DInv' /\ FollowStep
<1>1. /\ edits' = edits + 1 /\ graph' = g /\ extras' = x /\ node' = nd
      /\ form' = IF form.id = None THEN form ELSE Synchronized(form, g, nd)
  BY DEF Change
<1>2. edits' \in 0..MaxEdits
  BY <1>1, WorkbenchAssumption DEF DInv, GraphInv, Editable
<1>3. GraphInv' /\ StartsInv'
  BY <1>1, <1>2 DEF Fits, GraphInv, StartsInv
<1>4. CASE form.id = None
  <2>1. form' = Closed  BY <1>1, <1>4, OpenForm DEF DInv
  <2>2. \A n \in graph.nodes : n # form.id
    BY <1>4, GraphAssumption DEF DInv, GraphInv, Graphs
  <2>3. FollowStep  BY <1>1, <2>2 DEF FollowStep, Fits
  <2> QED BY <1>3, <2>1, <2>3 DEF DInv, FormInv
<1>5. CASE form.id # None
  <2>1. form' = Synchronized(form, g, nd)  BY <1>1, <1>5
  <2>2. Belongs(form, graph, node) /\ Stores(form, node)  BY <1>5, OpenForm DEF DInv
  <2>3. /\ form' = Closed \/ (Belongs(form', g, nd) /\ Stores(form', nd))
        /\ \A m \in graph.nodes \cap g.nodes \cap Actions :
             form.id \in g.nodes \cap Actions /\ form.config.ref = node[m].name
               => form'.config.ref = nd[m].name
    BY <2>1, <2>2, SynchronizedBelongs DEF DInv
  <2>4. FormInv'  BY <1>1, <2>3 DEF FormInv
  <2>5. FollowStep  BY <1>1, <2>3 DEF FollowStep, Fits
  <2> QED BY <1>3, <2>4, <2>5 DEF DInv
<1> QED BY <1>4, <1>5

\* The starts are as they were when no start comes or goes.
LEMMA SameStarts ==
  ASSUME DInv, NEW g, g.nodes \cap Starts = graph.nodes \cap Starts
  PROVE  /\ extras \in Seq(Nodes) /\ IsInjective(extras)
         /\ Range(extras) = (g.nodes \cap Starts) \ {Main}
BY DEF DInv, StartsInv

LEMMA NewData ==
  ASSUME NEW type \in Types, NEW name \in Names
  PROVE  New(type, name) \in Data /\ New(type, name).name = name
BY WorkbenchAssumption DEF New, Data, Configs

LEMMA AddActionFits ==
  ASSUME DInv, NEW n \in Actions \ spent, NEW c \in Spots, AddAction(n, c)
  PROVE  DInv' /\ FollowStep
<1> DEFINE g == Insert(graph, n, c)
<1>1. graph \in Graphs /\ n \in Nodes \ graph.nodes /\ n \notin Starts
  BY DEF DInv, GraphInv, Actions
<1>2. c = None \/ c \in Conns
  <2>1. CASE c \in graph.edges  BY <1>1, <2>1 DEF Graphs, Edges, Conns
  <2>2. ASSUME NEW m \in graph.nodes, NEW p \in Ports(m), c = <<m, p, None>>
        PROVE  c \in Conns
    <3>1. m \in Nodes  BY <1>1 DEF Graphs
    <3> QED BY <2>2, <3>1, PortsOfNodes DEF Conns
  <2> QED BY <2>1, <2>2 DEF Spots
<1>3. g \in Graphs  BY <1>1, <1>2, InsertType
<1>4. g.nodes = graph.nodes \cup {n}  BY DEF Insert
<1> HIDE DEF g
<1>5. Joined(g) /\ LoopFree(g)  BY ValidFits DEF AddAction, g
<1>6. PICK name \in Names \ Taken(node, graph) :
        Change(g, extras, [node EXCEPT ![n] = New(Kind[n], name)])
  BY DEF AddAction, g
<1>7. Kind[n] \in Types  BY <1>1, GraphAssumption DEF Types, Starts
<1>8. New(Kind[n], name) \in Data /\ New(Kind[n], name).name \notin Taken(node, graph)
  BY <1>7, NewData
<1>9. Fits(g, [node EXCEPT ![n] = New(Kind[n], name)])
  BY <1>1, <1>3, <1>4, <1>5, <1>8, NewNodeFits DEF DInv
<1>10. spent' = spent \cup {n} /\ Editable  BY DEF AddAction
<1>11. spent' \in SUBSET Nodes /\ g.nodes \subseteq spent'
  BY <1>1, <1>4, <1>10 DEF DInv, GraphInv
<1>12. g.nodes \cap Starts = graph.nodes \cap Starts  BY <1>1, <1>4
<1> QED BY <1>6, <1>9, <1>10, <1>11, <1>12, SameStarts, FittingKeeps

LEMMA AddStartFits ==
  ASSUME DInv, NEW n \in Nodes, NEW type \in StartTypes, AddStart(n, type)
  PROVE  DInv' /\ FollowStep
<1> DEFINE g == Insert(graph, n, None)
           x == IF n = Main THEN extras ELSE Append(extras, n)
<1>1. graph \in Graphs /\ n \in Nodes \ graph.nodes /\ n \in Starts
  BY DEF DInv, GraphInv, AddStart, Fresh
<1>2. g \in Graphs  BY <1>1, InsertType
<1>3. g.nodes = graph.nodes \cup {n}  BY DEF Insert
<1> HIDE DEF g
<1>4. Joined(g) /\ LoopFree(g)  BY ValidFits DEF AddStart, g
<1>5. PICK name \in Names \ Taken(node, graph) :
        Change(g, x, [node EXCEPT ![n] = New(type, name)])
  BY DEF AddStart, g
<1>6. New(type, name) \in Data /\ New(type, name).name \notin Taken(node, graph)
  <2>1. type \in Types  BY DEF Types
  <2> QED BY <2>1, NewData
<1>7. Fits(g, [node EXCEPT ![n] = New(type, name)])
  BY <1>1, <1>2, <1>3, <1>4, <1>6, NewNodeFits DEF DInv
<1>8. spent' = spent \cup {n} /\ Editable  BY DEF AddStart
<1>9. spent' \in SUBSET Nodes /\ g.nodes \subseteq spent'
  BY <1>1, <1>3, <1>8 DEF DInv, GraphInv
<1>10. x \in Seq(Nodes) /\ IsInjective(x) /\ Range(x) = (g.nodes \cap Starts) \ {Main}
  <2>1. extras \in Seq(Nodes) /\ IsInjective(extras) /\ Range(extras) = (graph.nodes \cap Starts) \ {Main}
    BY DEF DInv, StartsInv
  <2>2. CASE n = Main  BY <1>3, <2>1, <2>2
  <2>3. CASE n # Main
    <3>1. n \in Nodes \ Range(extras)  BY <1>1, <2>1
    <3>2. /\ Append(extras, n) \in Seq(Nodes) /\ IsInjective(Append(extras, n))
          /\ Range(Append(extras, n)) = Range(extras) \cup {n}
      BY <2>1, <3>1, AppendedOnce
    <3> QED BY <1>1, <1>3, <2>1, <2>3, <3>2
  <2> QED BY <2>2, <2>3
<1> HIDE DEF x
<1> QED BY <1>5, <1>7, <1>8, <1>9, <1>10, FittingKeeps

LEMMA ReplaceStartFits ==
  ASSUME DInv, NEW n \in Nodes, NEW type \in StartTypes, ReplaceStart(n, type)
  PROVE  DInv' /\ FollowStep
<1> DEFINE g == [graph EXCEPT !.nodes = @ \ {n}]
<1>1. g.nodes = graph.nodes \ {n}  BY DEF DInv, GraphInv, Graphs
<1> HIDE DEF g
<1>2. PICK name \in Names \ Taken(node, g) : Change(graph, extras, [node EXCEPT ![n] = New(type, name)])
  BY DEF ReplaceStart, g
<1>3. New(type, name) \in Data /\ New(type, name).name = name
  <2>1. type \in Types  BY DEF Types
  <2> QED BY <2>1, NewData
<1>4. \A m \in graph.nodes \ {n} : node[m].name # name  BY <1>1 DEF Taken
<1>5. n \in Starts \cap graph.nodes /\ Editable /\ spent' = spent  BY DEF ReplaceStart
<1>6. Fits(graph, [node EXCEPT ![n] = New(type, name)])
  BY <1>3, <1>4, <1>5, NewStartFits DEF DInv
<1>7. spent' \in SUBSET Nodes /\ graph.nodes \subseteq spent'  BY <1>5 DEF DInv, GraphInv
<1> QED BY <1>2, <1>5, <1>6, <1>7, SameStarts, FittingKeeps

LEMMA RenameFits ==
  ASSUME DInv, NEW n \in Nodes, NEW name \in Names, Rename(n, name)
  PROVE  DInv' /\ FollowStep
<1> DEFINE nd == [m \in DOMAIN node |->
                    [node[m] EXCEPT !.name = IF m = n THEN name ELSE @,
                       !.config = IF m \in graph.nodes
                                    THEN Remap(@, [old \in {node[n].name} |-> name]) ELSE @]]
<1>1. /\ Editable /\ n \in graph.nodes /\ name \in Names \ Taken(node, graph)
      /\ Change(graph, extras, nd) /\ spent' = spent
  BY DEF Rename
<1>2. Fits(graph, nd)  BY <1>1, RenamedFits DEF DInv
<1> HIDE DEF nd
<1>3. spent' \in SUBSET Nodes /\ graph.nodes \subseteq spent'  BY <1>1 DEF DInv, GraphInv
<1> QED BY <1>1, <1>2, <1>3, SameStarts, FittingKeeps

\* Connections change, an action goes: nothing else of the draft does.
LEMMA SameDataKeeps ==
  ASSUME DInv, Editable, NEW g \in Graphs, Joined(g), LoopFree(g), g.nodes \subseteq graph.nodes,
         NEW x, Change(g, x, node), spent' = spent,
         x \in Seq(Nodes), IsInjective(x), Range(x) = (g.nodes \cap Starts) \ {Main}
  PROVE  DInv' /\ FollowStep
<1>1. Fits(g, node)  BY SameDataFits DEF DInv
<1>2. spent' \in SUBSET Nodes /\ g.nodes \subseteq spent'  BY DEF DInv, GraphInv
<1> QED BY <1>1, <1>2, FittingKeeps

LEMMA RemoveActionFits ==
  ASSUME DInv, NEW n \in Nodes, RemoveAction(n)
  PROVE  DInv' /\ FollowStep
<1> DEFINE g == Without(graph, n)
<1>1. /\ graph \in Graphs /\ Joined(graph) /\ LoopFree(graph) /\ graph.nodes \subseteq Nodes
      /\ n \in graph.nodes \cap Actions
  BY DEF DInv, GraphInv, Graphs, RemoveAction
<1>2. g \in Graphs /\ Joined(g) /\ LoopFree(g)
  BY <1>1, WithoutType, WithoutJoins, WithoutLoopFree
<1>3. g.nodes = graph.nodes \ {n}  BY DEF Without
<1>4. Editable /\ Change(g, extras, node) /\ spent' = spent
  BY DEF RemoveAction, ChangeUnderPanel
<1> HIDE DEF g
<1>5. g.nodes \cap Starts = graph.nodes \cap Starts  BY <1>1, <1>3 DEF Actions
<1> QED BY <1>2, <1>3, <1>4, <1>5, SameStarts, SameDataKeeps

LEMMA ConnectFits ==
  ASSUME DInv, NEW m \in graph.nodes, NEW n \in graph.nodes, NEW port \in Ports(m), NEW old,
         ConnectNodes(<<m, port, n>>, old)
  PROVE  DInv' /\ FollowStep
<1> DEFINE e == <<m, port, n>>
           g == Connect(graph, e, old)
<1>1. graph \in Graphs /\ m \in Nodes /\ n \in Nodes  BY DEF DInv, GraphInv, Graphs
<1>2. e \in Edges  BY <1>1, PortsOfNodes DEF Edges
<1>3. g \in Graphs /\ g.nodes = graph.nodes
  <2>1. g.nodes = graph.nodes  BY <1>1 DEF Connect, Graphs
  <2> HIDE DEF e
  <2> QED BY <1>1, <1>2, <2>1, ConnectType
<1>4. Editable /\ Valid(g) /\ Change(g, extras, node) /\ spent' = spent
  BY DEF ConnectNodes
<1> HIDE DEF g
<1>5. Joined(g) /\ LoopFree(g)  BY <1>4, ValidFits
<1> QED BY <1>3, <1>4, <1>5, SameStarts, SameDataKeeps

LEMMA DisconnectFits ==
  ASSUME DInv, NEW e \in graph.edges, DisconnectNodes(e)
  PROVE  DInv' /\ FollowStep
<1> DEFINE g == Disconnect(graph, e)
<1>1. g \in Graphs /\ g.nodes = graph.nodes
  BY DisconnectType DEF DInv, GraphInv, Disconnect, Graphs
<1>2. Editable /\ Valid(g) /\ Change(g, extras, node) /\ spent' = spent
  BY DEF DisconnectNodes
<1> HIDE DEF g
<1>3. Joined(g) /\ LoopFree(g)  BY <1>2, ValidFits
<1> QED BY <1>1, <1>2, <1>3, SameStarts, SameDataKeeps

\* The first start gives way to the next one; another leaves the sequence.
LEMMA RemoveStartFits ==
  ASSUME DInv, NEW n \in Nodes, RemoveStart(n)
  PROVE  DInv' /\ FollowStep
<1> DEFINE g == Without(graph, n)
           p == Head(extras)
           Moved(m) == IF m = p THEN Main ELSE m
           h == [nodes |-> (g.nodes \ {p}) \cup {Main},
                 edges |-> {<<Moved(e[1]), e[2], e[3]>> : e \in g.edges}]
<1>1. /\ graph \in Graphs /\ graph.nodes \subseteq Nodes /\ extras \in Seq(Nodes) /\ IsInjective(extras)
      /\ Range(extras) = (graph.nodes \cap Starts) \ {Main} /\ Main \in Nodes /\ Main \in Starts
  BY WorkbenchAssumption DEF DInv, GraphInv, StartsInv, Graphs, Starts
<1>2. Editable /\ n \in graph.nodes \cap Starts /\ spent' = spent
  BY DEF RemoveStart
<1>3. g \in Graphs /\ g.nodes = graph.nodes \ {n}
  <2>1. g.nodes = graph.nodes \ {n}  BY DEF Without
  <2> QED BY <1>1, <2>1, WithoutType
<1>4. CASE n = Main /\ extras # <<>>
  <2>1. /\ p \in Range(extras) /\ Tail(extras) \in Seq(Nodes) /\ IsInjective(Tail(extras))
        /\ Range(Tail(extras)) = Range(extras) \ {p}
    BY <1>1, <1>4, HeadRemoved
  <2>2. Valid(h) /\ Change(h, Tail(extras), [node EXCEPT ![Main] = node[p]])
    BY <1>4 DEF RemoveStart, ChangeUnderPanel
  <2> HIDE DEF p, g
  <2>3. p \in Starts \cap graph.nodes /\ p # Main
    BY <1>1, <2>1
  <2>4. h.nodes = (graph.nodes \ {Main, p}) \cup {Main}
    BY <1>3, <1>4
  <2>5. h \in Graphs
    <3>1. ASSUME NEW e \in g.edges PROVE <<Moved(e[1]), e[2], e[3]>> \in Edges
      <4>1. e \in Edges  BY <1>3 DEF Graphs
      <4> QED BY <1>1, <4>1 DEF Edges
    <3>2. h.edges \subseteq Edges  BY <3>1
    <3>3. h.nodes \subseteq Nodes  BY <1>1, <2>4
    <3> QED BY <3>2, <3>3 DEF Graphs
  <2> HIDE DEF h
  <2>6. Joined(h) /\ LoopFree(h)  BY <2>2, ValidFits
  <2>7. Main \in graph.nodes  BY <1>2, <1>4
  <2>8. Fits(h, [node EXCEPT ![Main] = node[p]])
    BY <2>3, <2>4, <2>5, <2>6, <2>7, PromotedFits DEF DInv
  <2>9. Range(Tail(extras)) = (h.nodes \cap Starts) \ {Main}
    BY <1>1, <2>1, <2>4
  <2>10. spent' \in SUBSET Nodes /\ h.nodes \subseteq spent'
    BY <1>2, <2>4, <2>7 DEF DInv, GraphInv
  <2> QED BY <1>2, <2>1, <2>2, <2>8, <2>9, <2>10, FittingKeeps
<1>5. CASE ~(n = Main /\ extras # <<>>)
  <2> DEFINE x == IF n = Main THEN extras ELSE RemoveAt(extras, Place(n))
  <2>1. Valid(g) /\ Change(g, x, node)
    BY <1>5 DEF RemoveStart, ChangeUnderPanel
  <2> HIDE DEF g
  <2>2. Joined(g) /\ LoopFree(g)  BY <2>1, ValidFits
  <2>3. x \in Seq(Nodes) /\ IsInjective(x) /\ Range(x) = (g.nodes \cap Starts) \ {Main}
    <3>1. CASE n = Main  BY <1>1, <1>3, <3>1
    <3>2. CASE n # Main
      <4>1. n \in Range(extras)  BY <1>1, <1>2, <3>2
      <4>2. \E i \in DOMAIN extras : extras[i] = n  BY <4>1 DEF Range
      <4>3. Place(n) \in DOMAIN extras /\ extras[Place(n)] = n  BY <4>2 DEF Place
      <4>4. Place(n) \in 1..Len(extras)  BY <1>1, <4>3
      <4>5. /\ RemoveAt(extras, Place(n)) \in Seq(Nodes) /\ IsInjective(RemoveAt(extras, Place(n)))
            /\ Range(RemoveAt(extras, Place(n))) = Range(extras) \ {n}
        BY <1>1, <4>3, <4>4, RemovedOnce
      <4> QED BY <1>1, <1>3, <3>2, <4>5
    <3> QED BY <3>1, <3>2
  <2> HIDE DEF x
  <2>4. g.nodes \subseteq graph.nodes  BY <1>3
  <2> QED BY <1>2, <1>3, <2>1, <2>2, <2>3, <2>4, SameDataKeeps
<1> QED BY <1>4, <1>5

LEMMA DuplicateFits ==
  ASSUME DInv, NEW n \in Nodes, NEW copy \in Nodes, Duplicate(n, copy)
  PROVE  DInv' /\ FollowStep
<1> DEFINE clip == Copy(graph, {n})
           f == [m \in {n} |-> copy]
           g == Paste(graph, clip, f)
           Named(name) == [node[n] EXCEPT !.name = name,
                                          !.config = Remap(@, [old \in {node[n].name} |-> name])]
<1>1. /\ graph \in Graphs /\ Joined(graph) /\ graph.nodes \subseteq Nodes /\ graph.nodes \subseteq spent
      /\ n \in graph.nodes \cap Actions /\ copy \in Nodes \ graph.nodes /\ Kind[copy] = Kind[n]
      /\ node[n] \in Data
  BY DEF DInv, GraphInv, Graphs, Duplicate, Fresh
<1>2. copy \notin Starts  BY <1>1 DEF Starts, Actions
<1>3. clip.nodes = {n}  BY <1>1 DEF Copy
<1>4. g.nodes = graph.nodes \cup {copy}
  <2>1. {f[m] : m \in clip.nodes} = {copy}  BY <1>3
  <2> QED BY <2>1 DEF Paste
<1>5. g \in Graphs
  <2>1. clip \in Graphs /\ Joined(clip)  BY <1>1, CopyType, CopyJoins
  <2>2. f \in [clip.nodes -> Nodes]  BY <1>3
  <2> HIDE DEF clip, f
  <2> QED BY <1>1, <2>1, <2>2, PasteType
<1>6. Valid(g) /\ Editable /\ spent' = spent \cup {copy}  BY DEF Duplicate
<1>7. PICK name \in Names \ Taken(node, graph) : Change(g, extras, [node EXCEPT ![copy] = Named(name)])
  BY DEF Duplicate
<1>8. Named(name) \in Data /\ Named(name).name = name
  <2> DEFINE map == [old \in {node[n].name} |-> name]
  <2>1. \A x \in DOMAIN map : map[x] \in Names  OBVIOUS
  <2>2. node[n].config \in Configs  BY <1>1 DEF Data
  <2> HIDE DEF map
  <2>3. Remap(node[n].config, map) \in Configs  BY <2>1, <2>2, RemapType
  <2>4. [node[n] EXCEPT !.name = name, !.config = Remap(@, map)] \in Data
        /\ [node[n] EXCEPT !.name = name, !.config = Remap(@, map)].name = name
    BY <1>1, <2>3 DEF Data
  <2> QED BY <2>4 DEF map
<1> HIDE DEF g, Named
<1>9. Joined(g) /\ LoopFree(g)  BY <1>6, ValidFits
<1>10. Fits(g, [node EXCEPT ![copy] = Named(name)])
  BY <1>1, <1>4, <1>5, <1>8, <1>9, NewNodeFits DEF DInv
<1>11. spent' \in SUBSET Nodes /\ g.nodes \subseteq spent'
  BY <1>1, <1>4, <1>6 DEF DInv, GraphInv
<1>12. g.nodes \cap Starts = graph.nodes \cap Starts  BY <1>2, <1>4
<1> QED BY <1>6, <1>7, <1>10, <1>11, <1>12, SameStarts, FittingKeeps

LEMMA DraftFits == ASSUME DInv, Draft PROVE DInv' /\ FollowStep
<1>1. CASE \E n \in Actions \ spent, c \in Spots : AddAction(n, c)  BY <1>1, AddActionFits
<1>2. CASE \E n \in Nodes, type \in StartTypes : AddStart(n, type)  BY <1>2, AddStartFits
<1>3. CASE \E n \in Nodes, type \in StartTypes : ReplaceStart(n, type)  BY <1>3, ReplaceStartFits
<1>4. CASE \E n \in Nodes : RemoveStart(n)  BY <1>4, RemoveStartFits
<1>5. CASE \E n \in Nodes : RemoveAction(n)  BY <1>5, RemoveActionFits
<1>6. CASE \E n, copy \in Nodes : Duplicate(n, copy)  BY <1>6, DuplicateFits
<1>7. CASE \E n \in Nodes, name \in Names : Rename(n, name)  BY <1>7, RenameFits
<1>8. CASE \E m, n \in graph.nodes : \E port \in Ports(m) :
             \E old \in {None} \cup Targets(m, port) : ConnectNodes(<<m, port, n>>, old)
  BY <1>8, ConnectFits
<1>9. CASE \E e \in graph.edges : DisconnectNodes(e)  BY <1>9, DisconnectFits
<1> QED BY <1>1, <1>2, <1>3, <1>4, <1>5, <1>6, <1>7, <1>8, <1>9 DEF Draft

-----------------------------------------------------------------------------
(* Steps of the dock.                                                       *)

\* What a form writes is what it shows: it belongs to its node then too, and
\* the node keeps its name and type.
LEMMA FlushedKeeps ==
  ASSUME GraphInv, NEW f, f = Closed \/ (Belongs(f, graph, node) /\ (f.flushed => Stores(f, node)))
  PROVE  LET nd == Flushed(node, f)
             h  == FlushedForm(f)
         IN /\ nd \in [Nodes -> Data]
            /\ \A n \in Nodes : nd[n].name = node[n].name /\ nd[n].type = node[n].type
            /\ h = Closed \/ (Belongs(h, graph, nd) /\ Stores(h, nd))
<1> DEFINE nd == Flushed(node, f)
           h  == FlushedForm(f)
<1>1. graph \in Graphs /\ graph.nodes \subseteq Nodes /\ node \in [Nodes -> Data]
  BY DEF GraphInv, Graphs
<1>2. CASE f = Closed
  <2>1. f.id \notin graph.nodes  BY <1>1, <1>2, GraphAssumption DEF Closed
  <2>2. nd = node /\ h = f  BY <2>1 DEF Flushed, FlushedForm
  <2> HIDE DEF nd, h
  <2> QED BY <1>1, <1>2, <2>2 DEF nd, h
<1>3. CASE f # Closed
  <2>1. f \in Forms /\ f.id \in graph.nodes /\ f.type = node[f.id].type /\ f.names = NamesOf(graph, node)
    BY <1>3 DEF Belongs
  <2>2. f.id \in Nodes /\ f.config \in Configs  BY <2>1 DEF Forms
  <2>3. CASE Writes(f)
    <3>1. nd = [node EXCEPT ![f.id].config = Clean(f.config)] /\ h = [f EXCEPT !.flushed = TRUE]
      BY <2>1, <2>3 DEF Flushed, FlushedForm
    <3>2. Clean(f.config) \in Configs /\ Clean(f.config).text = f.config.text
      BY <2>2, ShownType
    <3> HIDE DEF nd, h
    <3>3. h \in Forms /\ h.id = f.id /\ h.type = f.type /\ h.names = f.names
          /\ h.config = f.config
      BY <2>1, <3>1 DEF Forms
    <3>4. node[f.id] \in Data /\ [node[f.id] EXCEPT !.config = Clean(f.config)] \in Data
      BY <1>1, <2>2, <3>2 DEF Data
    <3>5. /\ nd \in [Nodes -> Data] /\ nd[f.id] = [node[f.id] EXCEPT !.config = Clean(f.config)]
          /\ \A n \in Nodes \ {f.id} : nd[n] = node[n]
      BY <1>1, <2>2, <3>1, <3>4
    <3>6. nd[f.id].name = node[f.id].name /\ nd[f.id].type = node[f.id].type
          /\ nd[f.id].config = Clean(f.config)
      BY <3>4, <3>5 DEF Data
    <3>7. \A n \in Nodes : nd[n].name = node[n].name /\ nd[n].type = node[n].type
      BY <3>5, <3>6
    <3>8. NamesOf(graph, nd) = NamesOf(graph, node)  BY <1>1, <3>7 DEF NamesOf
    <3>9. Belongs(h, graph, nd)  BY <2>1, <3>3, <3>6, <3>8 DEF Belongs
    <3>10. Stores(h, nd)  BY <3>2, <3>3, <3>6 DEF Stores
    <3> QED BY <3>5, <3>7, <3>9, <3>10 DEF nd, h
  <2>4. CASE ~Writes(f)
    <3>1. nd = node /\ h = f  BY <2>4 DEF Flushed, FlushedForm
    <3>2. Stores(f, node)
      <4>1. f.flushed \/ f.config = f.open  BY <2>4 DEF Writes
      <4> QED BY <1>3, <4>1 DEF Stores
    <3> HIDE DEF nd, h
    <3> QED BY <1>1, <1>3, <3>1, <3>2 DEF nd, h
  <2> QED BY <2>3, <2>4
<1> QED BY <1>2, <1>3

\* A step of the dock changes settings at most, and the form.
LEMMA DockKeeps ==
  ASSUME DInv, Unchangeable, edits' \in 0..MaxEdits, node' \in [Nodes -> Data],
         \A n \in Nodes : node'[n].name = node[n].name,
         form' = Closed \/ (Belongs(form', graph, node') /\ Stores(form', node'))
  PROVE  DInv' /\ FollowStep
<1>1. graph' = graph /\ extras' = extras /\ spent' = spent  BY DEF Unchangeable
<1>2. graph.nodes \subseteq Nodes  BY DEF DInv, GraphInv, Graphs
<1>3. GraphInv' /\ StartsInv'
  BY <1>1, <1>2 DEF DInv, GraphInv, StartsInv, Distinct
<1>4. FormInv'  BY <1>1 DEF FormInv
<1>5. FollowStep  BY <1>1 DEF FollowStep
<1> QED BY <1>3, <1>4, <1>5 DEF DInv

\* The form is left, restored or edited, and writes what it shows.
LEMMA WritingKeeps ==
  ASSUME DInv, NEW f, f = Closed \/ (Belongs(f, graph, node) /\ (f.flushed => Stores(f, node))),
         Unchangeable, edits' \in 0..MaxEdits, node' = Flushed(node, f), form' = FlushedForm(f)
  PROVE  DInv' /\ FollowStep
<1>1. /\ node' \in [Nodes -> Data] /\ \A n \in Nodes : node'[n].name = node[n].name
      /\ form' = Closed \/ (Belongs(form', graph, node') /\ Stores(form', node'))
  BY FlushedKeeps DEF DInv
<1> QED BY <1>1, DockKeeps

\* Settings that the user gives the form are not written yet.
LEMMA GivenBelongs ==
  ASSUME NEW f, Belongs(f, graph, node), NEW config \in Configs
  PROVE  LET h == [f EXCEPT !.config = config, !.flushed = FALSE]
         IN Belongs(h, graph, node) /\ (h.flushed => Stores(h, node))
BY DEF Belongs, Forms

LEMMA EditFits ==
  ASSUME DInv, NEW config \in Configs, Edit(config)
  PROVE  DInv' /\ FollowStep
<1> DEFINE f == [form EXCEPT !.config = config, !.flushed = FALSE]
<1>1. Belongs(form, graph, node)  BY OpenForm DEF DInv, Edit, Usable
<1>2. Belongs(f, graph, node) /\ (f.flushed => Stores(f, node))  BY <1>1, GivenBelongs
<1>3. edits' \in 0..MaxEdits
  BY WorkbenchAssumption DEF DInv, GraphInv, Edit, Editable
<1>4. Unchangeable /\ node' = Flushed(node, f) /\ form' = FlushedForm(f)  BY DEF Edit
<1> HIDE DEF f
<1> QED BY <1>2, <1>3, <1>4, WritingKeeps

LEMMA DockFits == ASSUME DInv, Dock PROVE DInv' /\ FollowStep
<1>1. edits \in 0..MaxEdits /\ node \in [Nodes -> Data] /\ graph \in Graphs /\ GraphInv
  BY DEF DInv, GraphInv
<1>2. form = Closed \/ (Belongs(form, graph, node) /\ Stores(form, node))
  BY DEF DInv, FormInv
<1>3. CASE Resume
  <2>1. Unchangeable /\ edits' \in 0..MaxEdits  BY <1>1, <1>3 DEF Resume
  <2>2. CASE panel.target \in graph.nodes
    <3>1. node' = Flushed(node, form) /\ form' = Begin(graph, node', panel.target)
      BY <1>3, <2>2 DEF Resume
    <3>2. node' \in [Nodes -> Data] /\ \A n \in Nodes : node'[n].name = node[n].name
      BY <1>1, <1>2, <3>1, FlushedKeeps
    <3>3. Belongs(form', graph, node') /\ Stores(form', node')
      BY <1>1, <2>2, <3>1, <3>2, BeginBelongs
    <3> QED BY <2>1, <3>2, <3>3, DockKeeps
  <2>3. CASE panel.target \notin graph.nodes
    <3>1. node' = Flushed(node, form) /\ form' = FlushedForm(form)
      BY <1>3, <2>3 DEF Resume
    <3> QED BY <1>2, <2>1, <3>1, WritingKeeps
  <2> QED BY <2>2, <2>3
<1>4. CASE UNCHANGED <<draft, form, edits>>
  <2>1. Unchangeable /\ edits' = edits /\ node' = node /\ form' = form
    BY <1>4 DEF draft, Unchangeable
  <2> QED BY <1>1, <1>2, <2>1, DockKeeps
<1>5. CASE Hide \/ Apply
  <2>1. Unchangeable /\ edits' \in 0..MaxEdits /\ node' = Flushed(node, form) /\ form' = FlushedForm(form)
    BY <1>1, <1>5 DEF Hide, Apply
  <2> QED BY <1>2, <2>1, WritingKeeps
<1>6. CASE Cancel
  <2>1. /\ Unchangeable /\ edits' \in 0..MaxEdits /\ form.id # None
        /\ node' = Flushed(node, Restored(form)) /\ form' = FlushedForm(Restored(form))
    BY <1>1, <1>6 DEF Cancel, Usable
  <2>2. Belongs(form, graph, node) /\ form.base \in Configs
    <3>1. Belongs(form, graph, node)  BY <2>1, OpenForm DEF DInv
    <3> QED BY <3>1 DEF Belongs, Forms
  <2>3. Belongs(Restored(form), graph, node) /\ (Restored(form).flushed => Stores(Restored(form), node))
    BY <2>2, GivenBelongs DEF Restored
  <2> QED BY <2>1, <2>3, WritingKeeps
<1>7. ASSUME NEW n \in Nodes, Refer(n) PROVE DInv' /\ FollowStep
  <2>1. form.id # None /\ n \in graph.nodes /\ Edit([form.config EXCEPT !.ref = node[n].name])
    BY <1>7 DEF Refer, Edit, Usable
  <2>2. form.config \in Configs /\ node[n].name \in Names
    <3>1. form \in Forms  BY <2>1, OpenForm DEF DInv, Belongs
    <3> QED BY <1>1, <3>1 DEF Forms, Data
  <2>3. [form.config EXCEPT !.ref = node[n].name] \in Configs  BY <2>2 DEF Configs
  <2> QED BY <2>1, <2>3, EditFits
<1>8. ASSUME NEW text \in Texts, Type(text) PROVE DInv' /\ FollowStep
  <2>1. form.id # None /\ Edit([form.config EXCEPT !.text = text])
    BY <1>8 DEF Type, Edit, Usable
  <2>2. form.config \in Configs
    <3>1. form \in Forms  BY <2>1, OpenForm DEF DInv, Belongs
    <3> QED BY <3>1 DEF Forms
  <2>3. [form.config EXCEPT !.text = text] \in Configs  BY <2>2 DEF Configs
  <2> QED BY <2>1, <2>3, EditFits
<1>9. Load => UNCHANGED <<draft, form, edits>>  BY DEF Load
<1>10. ASSUME NEW n \in Nodes, Open(n) PROVE UNCHANGED <<draft, form, edits>>  BY <1>10 DEF Open
<1> QED BY <1>3, <1>4, <1>5, <1>6, <1>7, <1>8, <1>9, <1>10 DEF Dock

-----------------------------------------------------------------------------
(* The invariant of the draft.                                              *)

\* The page is loaded with a valid graph, whose nodes have names of their own.
LEMMA DraftInitially == Init => DInv
<1> SUFFICES ASSUME Init PROVE DInv
  OBVIOUS
<1> DEFINE S == (First.nodes \cap Starts) \ {Main}
<1>1. /\ First \in Graphs /\ Valid(First) /\ FirstNode \in [Nodes -> Data] /\ Distinct(First, FirstNode)
      /\ MaxEdits \in Nat /\ First.nodes \subseteq Nodes
  BY WorkbenchAssumption DEF Distinct, Graphs
<1>2. /\ graph = First /\ extras = SetToSeq(S) /\ node = FirstNode /\ spent = First.nodes
      /\ form = Closed /\ edits = 0
  BY DEF Init
<1>3. GraphInv
  BY <1>1, <1>2, ValidFits DEF GraphInv
<1>4. IsFiniteSet(S) /\ S \subseteq Nodes
  BY <1>1, GraphAssumption, FS_Subset
<1> HIDE DEF S
<1>5. SetToSeq(S) \in Seq(S) /\ IsInjective(SetToSeq(S)) /\ Range(SetToSeq(S)) = S
  BY <1>4, SetInOrder
<1>6. SetToSeq(S) \in Seq(Nodes)  BY <1>4, <1>5
<1>7. StartsInv  BY <1>2, <1>5, <1>6 DEF StartsInv, S
<1> QED BY <1>2, <1>3, <1>7 DEF DInv, FormInv

LEMMA NextDraft == DInv /\ [Next]_vars => DInv' /\ [FollowStep]_vars
<1> SUFFICES ASSUME DInv, [Next]_vars PROVE DInv' /\ [FollowStep]_vars
  OBVIOUS
<1>1. CASE Dock  BY <1>1, DockFits
<1>2. CASE Draft  BY <1>2, DraftFits
<1>3. CASE UNCHANGED vars
  BY <1>3 DEF vars, draft, DInv, GraphInv, StartsInv, FormInv
<1> QED BY <1>1, <1>2, <1>3 DEF Next

-----------------------------------------------------------------------------
(* The results.                                                             *)

\* The invariant holds of every state the workbench reaches.
THEOREM InvHolds == Spec => []IInv
<1> QED BY Initially, NextInv, PTL DEF Spec

\* For every graph, every number of changes and every order of clicks, loading
\* and removals, the form in an open dock that waits for nothing is that of the
\* node in its title (flushInspector in resources/js/app.js).
THEOREM TitleHolds == Spec => []TitleIsForms
<1>1. IInv => TitleIsForms
  BY DEF IInv, Agrees, TitleIsForms, Processing
<1> QED BY <1>1, InvHolds, PTL

\* The invariant of the draft holds of every state the workbench reaches.
THEOREM DraftHolds == Spec => []DInv
<1> QED BY DraftInitially, NextDraft, PTL DEF Spec

\* The form, the dock and the draft are what they are meant to be in every state:
\* a form that is open belongs to a node that exists and knows all names, and the
\* starts but the first stand in their sequence (workflow-editor-draft.mjs,
\* workflow-local-inspector.mjs).
THEOREM TypeCorrect == Spec => []TypeOK
<1>1. IInv /\ DInv => TypeOK
  <2> SUFFICES ASSUME IInv, DInv PROVE TypeOK
    OBVIOUS
  <2>1. graph \in Graphs /\ node \in [Nodes -> Data] /\ spent \in SUBSET Nodes /\ edits \in 0..MaxEdits
    BY DEF DInv, GraphInv
  <2>2. Range(extras) = (graph.nodes \cap Starts) \ {Main}
    BY DEF DInv, StartsInv
  <2>3. form = Closed \/ /\ form.id \in graph.nodes /\ form.type = node[form.id].type
                         /\ {form.base, form.config, form.open} \subseteq Configs
                         /\ form.names = NamesOf(graph, node)
    BY DEF DInv, FormInv, Belongs, Forms
  <2>4. {panel.title, panel.current, panel.target, panel.desired} \subseteq Nodes \cup {None}
    BY DEF IInv, Shape, Panels, Some
  <2> QED BY <2>1, <2>2, <2>3, <2>4 DEF TypeOK
<1> QED BY <1>1, InvHolds, DraftHolds, PTL

\* What the form of an action shows is stored after every step of the dock and
\* after every change of the draft, unless the form is again as it was opened
\* (flush in workflow-local-inspector.mjs).
THEOREM FormStored == Spec => []FormIsStored
<1>1. DInv => FormIsStored
  <2> SUFFICES ASSUME DInv, form.id \in Actions
               PROVE  node[form.id].config.text = form.config.text \/ form.config = form.open
    BY DEF FormIsStored
  <2>1. form.id # None  BY GraphAssumption DEF Actions
  <2> QED BY <2>1, OpenForm DEF DInv, Stores
<1> QED BY <1>1, DraftHolds, PTL

\* Every cycle of a draft passes a loop. Changes that are validated keep this by
\* the check; the removal of an action, which is not, because the bridges over
\* it follow a way that was there before (removeCanvasAction).
THEOREM CyclesPassLoops == Spec => []CyclesHaveLoops
<1>1. DInv => CyclesHaveLoops  BY DEF DInv, GraphInv, LoopFree, CyclesHaveLoops
<1> QED BY <1>1, DraftHolds, PTL

\* The connections of a draft lead from ports that their sources have to actions
\* that exist, whatever bridges the removal of an action leaves, which is made
\* without a check (removeCanvasAction).
THEOREM JoinsHold == Spec => []Joined(graph)
<1>1. DInv => Joined(graph)  BY DEF DInv, GraphInv
<1> QED BY <1>1, DraftHolds, PTL

\* A reference to an action follows its name, where it is stored and in the form,
\* for every sequence of changes: the form finds the new name by the old one,
\* which the distinct names make unique (WorkflowLocalInspector.synchronize).
THEOREM RefsFollowNames == Spec => RefsFollow
<1>1. DInv /\ [Next]_vars => [FollowStep]_vars  BY NextDraft
<1> QED BY <1>1, DraftHolds, PTL DEF Spec, RefsFollow, FollowStep
=============================================================================
