----------------------------- MODULE Workbench -----------------------------
(***************************************************************************)
(* The workbench where a scenario of the panel is edited: the draft that   *)
(* holds the graph (resources/js/workflow-editor-draft.mjs), the dock with *)
(* the settings of one node (workflowInspector in resources/js/app.js) and *)
(* the form in it (resources/js/workflow-local-inspector.mjs).             *)
(*                                                                         *)
(* The draft and the form write into the same deferred state of the page,  *)
(* the form by copies it took when it was opened.  Nothing is sent until   *)
(* the scenario is saved.  The code of the dock and of its widgets is      *)
(* loaded while the user works already.                                    *)
(*                                                                         *)
(* The settings of a node are a text and a reference, by name, to another  *)
(* node.  Some types of nodes have a field that only the form knows.       *)
(***************************************************************************)
EXTENDS WorkflowGraph, Sequences, SequencesExt

CONSTANTS Main,        \* the identifier of the first start, whichever start that is
          Names,       \* names of nodes
          Texts,       \* what a text field may hold
          StartTypes,  \* types of starts; a start may be given another one
          FormTypes,   \* types whose form has a field of its own
          First,       \* the graph that the page was loaded with
          FirstNode,   \* and the data of its nodes
          NewText,     \* the text that a new node is given
          MaxEdits     \* bound: changes the user makes

VARIABLES graph, extras, node, spent,  \* the draft
          form,                        \* the form
          panel,                       \* the dock
          edits
draft == <<graph, extras, node, spent>>
vars  == <<draft, form, panel, edits>>

Types   == StartTypes \cup {"plain", "condition", "loop"}
Configs == [text : Texts, ref : Names \cup {None}, own : BOOLEAN]
Data    == [type : Types, name : Names, config : Configs]

\* validateDraftGraph: what the connections of a draft must be.
Valid(g) == (\A e \in g.edges : Joins(g, e)) /\ TwinsApart(g) /\ Controlled(g)

\* The names of the nodes are distinct when the page is loaded, and the graph was
\* valid when it was saved.
ASSUME WorkbenchAssumption ==
  /\ Main \in Starts /\ NewText \in Texts /\ MaxEdits \in Nat /\ None \notin Names
  /\ First \in Graphs /\ Valid(First) /\ FirstNode \in [Nodes -> Data]
  /\ \A m, n \in First.nodes : FirstNode[m].name = FirstNode[n].name => m = n

\* Closed is the form that holds no node.
Closed == [id |-> None]

Init ==
  /\ graph = First /\ extras = SetToSeq((First.nodes \cap Starts) \ {Main}) /\ node = FirstNode /\ spent = First.nodes
  /\ form = Closed
  /\ panel = [opened |-> FALSE, title |-> None, current |-> None, target |-> None,
              desired |-> None, loaded |-> FALSE, error |-> FALSE]
  /\ edits = 0

-----------------------------------------------------------------------------
(* The form.                                                                *)

Shown(config, type) == [config EXCEPT !.own = type \in FormTypes]
Clean(config)       == [config EXCEPT !.own = FALSE]
NamesOf(g, nd)      == [n \in g.nodes |-> nd[n].name]

\* Changes reach the page's state when they are made, unless the form is as it
\* was opened.
Writes(f) == ~f.flushed /\ f.config # f.open

Flushed(nd, f) ==
  IF f.id \in graph.nodes /\ Writes(f) THEN [nd EXCEPT ![f.id].config = Clean(f.config)] ELSE nd

FlushedForm(f) ==
  IF f.id \in graph.nodes /\ Writes(f) THEN [f EXCEPT !.flushed = TRUE] ELSE f

Begin(g, nd, n) ==
  LET config == Shown(nd[n].config, nd[n].type)
  IN [id |-> n, type |-> nd[n].type, base |-> nd[n].config, config |-> config,
      open |-> config, names |-> NamesOf(g, nd), flushed |-> TRUE]

Remap(config, map) ==
  [config EXCEPT !.ref = IF @ \in DOMAIN map THEN map[@] ELSE @]

\* The names that nodes known to the form had when it last looked.
Renamed(f, g, nd) ==
  LET Changed == {n \in DOMAIN f.names \cap g.nodes : f.names[n] # nd[n].name}
  IN [old \in {f.names[n] : n \in Changed} |->
        nd[CHOOSE n \in Changed : f.names[n] = old].name]

\* Fault: the references in the form keep the old name.
FollowedForgets(f, g, nd) == [f EXCEPT !.names = NamesOf(g, nd)]

Followed(f, g, nd) ==
  LET map == Renamed(f, g, nd)
  IN [f EXCEPT !.base = Remap(@, map), !.config = Remap(@, map), !.open = Remap(@, map),
               !.names = NamesOf(g, nd)]

\* Fault: the form stays when its node is gone.
SynchronizedStays(f, g, nd) ==
  IF nd[f.id].type # f.type THEN Begin(g, nd, f.id) ELSE Followed(f, g, nd)

\* After any change of the draft the form looks at its node again.
Synchronized(f, g, nd) ==
  CASE f.id \notin g.nodes      -> Closed
    [] f.id \in g.nodes /\ nd[f.id].type # f.type -> Begin(g, nd, f.id)
    [] OTHER                    -> Followed(f, g, nd)

\* What a closed dock showed last plays no part.
Closing(p) == [p EXCEPT !.opened = FALSE, !.title = None, !.current = None]
Hidden(p)  == [Closing(p) EXCEPT !.desired = None]

\* Its change is the last part of every change of the draft.
Change(g, x, nd) ==
  /\ edits' = edits + 1
  /\ graph' = g /\ extras' = x /\ node' = nd
  /\ form' = IF form.id = None THEN form ELSE Synchronized(form, g, nd)

ChangeUnderPanel(g, x, nd) ==
  /\ Change(g, x, nd)
  /\ panel' = IF form.id # None /\ form.id \notin g.nodes THEN Hidden(panel) ELSE panel

-----------------------------------------------------------------------------
(* The dock.                                                                *)

\* The first node waits for the code of the form and of its widgets.
Processing == panel.target # None
Resumes    == Processing /\ panel.loaded

\* Nothing else runs before a resumed step.
Settled == ~Resumes

\* Bound: the user makes so many changes.
Editable == Settled /\ edits < MaxEdits

Unchangeable == UNCHANGED <<graph, extras, spent>>

\* Fault: a node asked for during the wait is left.
AfterTargetForgets(p) == [p EXCEPT !.target = None, !.desired = None]

\* Of the nodes asked for during the wait the last one comes next.
AfterTarget(p) == [p EXCEPT !.target = p.desired, !.desired = None]

\* A node that was removed during the wait cannot be shown.
Resume ==
  /\ Resumes
  /\ LET n == panel.target
     IN IF n \in graph.nodes
        THEN /\ node' = Flushed(node, form)
             /\ form' = Begin(graph, Flushed(node, form), n)
             /\ panel' = AfterTarget([panel EXCEPT !.current = n])
        ELSE /\ panel' = [panel EXCEPT !.target = None, !.desired = None, !.error = TRUE]
             /\ node' = Flushed(node, form) /\ form' = FlushedForm(form)
  /\ Unchangeable /\ UNCHANGED edits

\* Asking for a node: the dock and its title change at once.
Asked(p, n) ==
  IF n = p.current /\ p.opened /\ ~Processing THEN p
  ELSE LET shown == [p EXCEPT !.opened = TRUE, !.title = n, !.error = FALSE]
       IN IF Processing THEN [shown EXCEPT !.desired = n] ELSE [shown EXCEPT !.target = n]

Open(n) ==
  /\ Settled /\ n \in graph.nodes
  /\ panel' = Asked(panel, n)
  /\ UNCHANGED <<draft, form, edits>>

Load ==
  /\ ~panel.loaded
  /\ panel' = [panel EXCEPT !.loaded = TRUE]
  /\ UNCHANGED <<draft, form, edits>>

\* A press outside, Escape or the cross.
Hide ==
  /\ Settled /\ panel.opened
  /\ panel' = Hidden(panel)
  /\ node' = Flushed(node, form) /\ form' = FlushedForm(form)
  /\ Unchangeable /\ UNCHANGED edits

Usable == Settled /\ panel.opened /\ ~Processing /\ form.id # None

Edit(config) ==
  LET f == [form EXCEPT !.config = config, !.flushed = FALSE]
  IN /\ Usable /\ Editable /\ edits' = edits + 1
     /\ config # form.config
     /\ node' = Flushed(node, f) /\ form' = FlushedForm(f)
     /\ Unchangeable /\ UNCHANGED panel

Type(text)    == Edit([form.config EXCEPT !.text = text])
Refer(n)      == n \in graph.nodes /\ Edit([form.config EXCEPT !.ref = node[n].name])

Apply ==
  /\ Usable
  /\ panel' = Closing(panel)
  /\ node' = Flushed(node, form) /\ form' = FlushedForm(form)
  /\ Unchangeable /\ UNCHANGED edits

\* Fault: the restored settings do not count as a change.
RestoredQuietly(f) == [f EXCEPT !.config = f.base]

Restored(f) == [f EXCEPT !.config = f.base, !.flushed = FALSE]

Cancel ==
  /\ Usable
  /\ panel' = Closing(panel)
  /\ node' = Flushed(node, Restored(form)) /\ form' = FlushedForm(Restored(form))
  /\ Unchangeable /\ UNCHANGED edits

-----------------------------------------------------------------------------
(* The draft.                                                               *)

Taken(nd, g) == {nd[n].name : n \in g.nodes}
Fresh(n)     == n \in Nodes \ spent

New(type, name) ==
  [type |-> type, name |-> name, config |-> [text |-> NewText, ref |-> None, own |-> FALSE]]

Spots ==
  {None} \cup graph.edges
  \cup UNION {{<<n, p, None>> : p \in Ports(n)} : n \in graph.nodes}

\* A node from the library; settings follow when the dock shows some already.
AddAction(n, c) ==
  LET g == Insert(graph, n, c)
  IN /\ Editable /\ Valid(g)
     /\ \E name \in Names \ Taken(node, graph) :
          Change(g, extras, [node EXCEPT ![n] = New(Kind[n], name)])
     /\ panel' = IF panel.opened THEN Asked(panel, n) ELSE panel
     /\ spent' = spent \cup {n}

\* The first start has an identifier of its own. A schedule is opened at once.
AddStart(n, type) ==
  LET g == Insert(graph, n, None)
  IN /\ Editable /\ n \in Starts
     /\ IF Main \in graph.nodes THEN n # Main /\ Fresh(n) ELSE n = Main
     /\ Valid(g)
     /\ \E name \in Names \ Taken(node, graph) :
          Change(g, IF n = Main THEN extras ELSE Append(extras, n),
                 [node EXCEPT ![n] = New(type, name)])
     /\ panel' = IF type = "schedule" THEN Asked(panel, n) ELSE panel
     /\ spent' = spent \cup {n}

ReplaceStart(n, type) ==
  /\ Editable /\ n \in graph.nodes \cap Starts /\ Valid(graph)
  /\ \E name \in Names \ Taken(node, [graph EXCEPT !.nodes = @ \ {n}]) :
       Change(graph, extras, [node EXCEPT ![n] = New(type, name)])
  /\ panel' = IF type = "schedule" THEN Asked(panel, n) ELSE panel
  /\ UNCHANGED spent

Place(n) == CHOOSE i \in DOMAIN extras : extras[i] = n

\* The next start takes the place, and the identifier, of the first.
RemoveStart(n) ==
  LET g == Without(graph, n)
      p == Head(extras)
      Moved(m) == IF m = p THEN Main ELSE m
      h == [nodes |-> (g.nodes \ {p}) \cup {Main},
            edges |-> {<<Moved(e[1]), e[2], e[3]>> : e \in g.edges}]
  IN /\ Editable /\ n \in graph.nodes \cap Starts
     /\ IF n = Main /\ extras # <<>>
        THEN Valid(h) /\ ChangeUnderPanel(h, Tail(extras), [node EXCEPT ![Main] = node[p]])
        ELSE /\ Valid(g)
             /\ ChangeUnderPanel(g, IF n = Main THEN extras ELSE RemoveAt(extras, Place(n)), node)
     /\ UNCHANGED spent

\* Removing an action on the canvas is not validated.
RemoveAction(n) ==
  /\ Editable /\ n \in graph.nodes \cap Actions
  /\ ChangeUnderPanel(Without(graph, n), extras, node)
  /\ UNCHANGED spent

\* References to the node follow its name.
Rename(n, name) ==
  LET map == [old \in {node[n].name} |-> name]
  IN /\ Editable /\ n \in graph.nodes /\ name \in Names \ Taken(node, graph)
     /\ Change(graph, extras,
               [m \in DOMAIN node |->
                  [node[m] EXCEPT !.name = IF m = n THEN name ELSE @,
                                  !.config = IF m \in graph.nodes THEN Remap(@, map) ELSE @]])
     /\ UNCHANGED <<panel, spent>>

Targets(n, port) == {e[3] : e \in {x \in graph.edges : x[1] = n /\ x[2] = port}}

\* An old target may be given up for the new one.
ConnectNodes(e, old) ==
  LET g == Connect(graph, e, old)
  IN /\ Editable /\ Connectable(graph, e)
     /\ Valid(g)
     /\ Change(g, extras, node)
     /\ UNCHANGED <<panel, spent>>

DisconnectNodes(e) ==
  /\ Editable /\ e \in graph.edges
  /\ Valid(graph) /\ Valid(Disconnect(graph, e))
  /\ Change(Disconnect(graph, e), extras, node)
  /\ UNCHANGED <<panel, spent>>

\* The copy has a name of its own, by which it refers to itself; the clipboard
\* stays as it was.
Duplicate(n, copy) ==
  LET g == Paste(graph, Copy(graph, {n}), [m \in {n} |-> copy])
      Named(name) == [node[n] EXCEPT !.name = name,
                                     !.config = Remap(@, [old \in {node[n].name} |-> name])]
  IN /\ Editable /\ n \in graph.nodes \cap Actions /\ Fresh(copy) /\ Kind[copy] = Kind[n]
     /\ Valid(g)
     /\ \E name \in Names \ Taken(node, graph) :
          Change(g, extras, [node EXCEPT ![copy] = Named(name)])
     /\ spent' = spent \cup {copy} /\ UNCHANGED panel

Dock == \/ Resume \/ Load \/ Hide \/ Apply \/ Cancel
        \/ \E n \in Nodes : Open(n) \/ Refer(n)
        \/ \E text \in Texts : Type(text)

Draft ==
  \/ \E n \in Actions \ spent, c \in Spots : AddAction(n, c)
  \/ \E n \in Nodes :
       \/ \E type \in StartTypes : AddStart(n, type) \/ ReplaceStart(n, type)
       \/ RemoveStart(n) \/ RemoveAction(n) \/ \E copy \in Nodes : Duplicate(n, copy)
       \/ \E name \in Names : Rename(n, name)
  \/ \E m, n \in graph.nodes : \E port \in Ports(m) :
       \E old \in {None} \cup Targets(m, port) : ConnectNodes(<<m, port, n>>, old)
  \/ \E e \in graph.edges : DisconnectNodes(e)

Next == Dock \/ Draft
Spec == Init /\ [][Next]_vars

-----------------------------------------------------------------------------
(* Properties.                                                              *)

TypeOK ==
  /\ graph \in Graphs /\ node \in [Nodes -> Data] /\ spent \in SUBSET Nodes
  /\ Range(extras) = (graph.nodes \cap Starts) \ {Main}
  /\ form = Closed \/ /\ form.id \in graph.nodes /\ form.type = node[form.id].type
                      /\ {form.base, form.config, form.open} \subseteq Configs
                      /\ form.names = NamesOf(graph, node)
  /\ {panel.title, panel.current, panel.target, panel.desired} \subseteq Nodes \cup {None}
  /\ edits \in 0..MaxEdits

\* Whatever the user connects, inserts, copies, removes or promotes, every cycle
\* of a draft passes a loop, though removing an action joins what stood before it
\* to what stood behind it and is not validated as the other changes are
\* (removeCanvasAction; src/docs/workflows-loop-connections.md:14).
CyclesHaveLoops == Acyclic(graph.nodes \ Loops, graph.edges)

\* "A loop's own return and explicit done continuation are the only permitted
\* feedback edges" (workflow-editor-draft.mjs:3). The removal of a node that two
\* loops share leaves others.
CyclesControlled == Controlled(graph)

\* What the form of an action shows is what is going to be saved, whatever
\* happened to the draft since the form was opened, except where it is again
\* what it was when it was opened: that is not written (flush).
FormIsStored ==
  form.id \in Actions =>
    \/ node[form.id].config.text = form.config.text
    \/ form.config = form.open

\* A reference to an action follows its name through every change of the draft,
\* both where it is stored and in the form, which took its copy earlier
\* (BrowserWorkflowDocument.rename, WorkflowLocalInspector.synchronize).
RefsFollow ==
  [][graph' # graph \/ (\E n \in Nodes : node'[n].name # node[n].name) =>
       \A n, m \in graph.nodes \cap graph'.nodes \cap Actions :
         /\ node[n].config.ref = node[m].name => node'[n].config.ref = node'[m].name
         /\ n = form.id /\ n = form'.id /\ form.config.ref = node[m].name
              => form'.config.ref = node'[m].name]_vars

\* However fast nodes are clicked while the dock is loading, and whatever is
\* removed meanwhile, the form that appears is that of the node in the title,
\* the last one asked for (flushInspector).
TitleIsForms ==
  panel.opened /\ ~Processing /\ ~panel.error =>
    panel.current = panel.title /\ form.id = panel.title
=============================================================================
