----------------------------- MODULE NodeCanvas -----------------------------
(***************************************************************************)
(* The canvas of the browser editor: gestures of several pointers, the     *)
(* keyboard and the library of nodes change one document, each change with *)
(* a step of undo, while insertions and pastes are placed a frame later.   *)
(*                                                                         *)
(* resources/js/app.js (workflowNodeCanvas) over the document of           *)
(* workflow-browser-editor.mjs and workflow-browser-document.mjs.  Panning *)
(* and the routes of connections are kept only as gestures; redo and       *)
(* saving are BrowserEditor's.                                             *)
(***************************************************************************)
EXTENDS WorkflowGraph, Sequences, SequencesExt

CONSTANTS
  Pointers,    \* mouse and fingers
  First,       \* the graph that is opened
  UndoLimit,   \* documents the stack of undo has room for, 50 in the code
  MaxInputs    \* bound: pointers pressed, changes begun, copies, openings of the library

\* Two places for a card, or the area; 0 is where it is put by default.
Places == {0, 1}

\* Cards that are dragged, and where they were when they were pressed.
Drags == [pointer : Pointers, moved : BOOLEAN, origins : UNION {[S -> Places] : S \in SUBSET Nodes}]

ASSUME CanvasAssumption ==
  /\ First \in Graphs /\ \A e \in First.edges : Joins(First, e)
  /\ None \notin Drags /\ MaxInputs \in Nat
  /\ UndoLimit \in Nat /\ UndoLimit >= 2

VARIABLES
  doc,          \* graph, stored places of the cards, the area (or None)
  undoStack,
  inputs,       \* of the user so far, but for moves, releases and undos
  used,         \* nodes that ever were: an identifier is not given again
  positions,    \* where the cards are shown
  selected,     \* selectedNodeIds
  clipboard,
  copied,       \* the nodes whose places were copied, clipboardPositions
  down,         \* pointers that are pressed
  canvasPan, areaDrag, routeDrag, selection, pendingEdgeDrag, dragging,  \* gestures
  connecting,   \* the connection being drawn; it belongs to no pointer
  libraryOpen, insertConnection, pendingInsertion, pendingDrop,
  frames        \* placements left for the next animation frame

docVars  == <<doc, undoStack, used, positions>>
clipVars == <<clipboard, copied>>
edgeVars == <<routeDrag, pendingEdgeDrag, connecting>>
holdVars == <<canvasPan, areaDrag, selection, dragging>>
libVars  == <<libraryOpen, insertConnection, pendingInsertion, pendingDrop>>
vars == <<docVars, inputs, selected, clipVars, down, edgeVars, holdVars, libVars, frames>>

Graph == doc.graph
Live  == Graph.nodes
Fresh == {n \in Nodes \ Live : n \notin used \/ n \in Starts}

\* What the canvas offers to insert on: connections and open ports.
CanvasEdges ==
  Graph.edges \cup
  {c \in Live \X AllPorts \X {None} :
     c[2] \in Ports(c[1]) /\ ~\E e \in Graph.edges : e[1] = c[1] /\ e[2] = c[2]}

NoPlaces == [n \in Nodes |-> 0]

Init ==
  /\ doc = [graph |-> First, at |-> NoPlaces, area |-> 0]
  /\ undoStack = <<>> /\ inputs = 0 /\ used = First.nodes
  /\ positions = NoPlaces /\ selected = {} /\ frames = {}
  /\ clipboard = [nodes |-> {}, edges |-> {}] /\ copied = {} /\ down = {}
  /\ canvasPan = None /\ areaDrag = None /\ selection = None /\ dragging = None
  /\ routeDrag = None /\ pendingEdgeDrag = None /\ connecting = None
  /\ libraryOpen = FALSE /\ insertConnection = None /\ pendingInsertion = None
  /\ pendingDrop = FALSE

-----------------------------------------------------------------------------
(* The document.                                                            *)

\* A document is not pushed twice in a row.
Push(stack, d) == IF stack # <<>> /\ Last(stack) = d THEN stack ELSE Append(stack, d)

\* The k documents pushed last.
Latest(stack, k) == IF Len(stack) > k THEN SubSeq(stack, Len(stack) - k + 1, Len(stack)) ELSE stack

\* Fault: the limit itself is too many, >= in place of >.
CappedBelow(stack) == Latest(stack, UndoLimit - 1)

\* The oldest documents go where there are more than the limit.
Capped(stack) == Latest(stack, UndoLimit)

\* Through the stages of one operation, with a step of undo before each. Stages
\* that follow each other differ. That the stack is cut after every step or, as
\* here, after the last one, is the same.
Through(stages) ==
  /\ undoStack' = Capped(Push(undoStack, doc) \o Front(stages))
  /\ doc' = Last(stages)

May == inputs < MaxInputs /\ inputs' = inputs + 1

Stored(d, shown) ==
  [d EXCEPT !.at = [n \in Nodes |-> IF n \in d.graph.nodes THEN shown[n] ELSE 0]]

\* saveNodeLayout after the stages: the places shown are those of the document,
\* at once and not when it is saved.
SaveNodeLayout(stages, shown) ==
  LET before == Last(<<doc>> \o stages)
      after  == Stored(before, shown)
  IN /\ positions' = after.at
     /\ IF after # before THEN Through(Append(stages, after))
        ELSE IF stages # <<>> THEN Through(stages)
        ELSE UNCHANGED <<doc, undoStack>>

\* restoreCardPositions: cards that exist go where they are wanted.
Moved(shown, desired, live) ==
  [n \in Nodes |-> IF n \in DOMAIN desired \cap live THEN desired[n] ELSE shown[n]]

\* Fault: the cards stay where they are shown.
UndoDocument ==
  /\ undoStack # <<>>
  /\ doc' = Last(undoStack) /\ undoStack' = Front(undoStack)
  /\ UNCHANGED <<positions, inputs, used, selected, clipVars, down, edgeVars, holdVars, libVars,
                 frames>>

Undo ==
  /\ undoStack # <<>>
  /\ doc' = Last(undoStack) /\ undoStack' = Front(undoStack)
  /\ positions' = doc'.at
  /\ UNCHANGED <<inputs, used, selected, clipVars, down, edgeVars, holdVars, libVars, frames>>

Removed(d, n) == [d EXCEPT !.graph = Without(@, n), !.at[n] = 0]

\* A document without some of its nodes, one after another.
Deletions(d, order) ==
  LET after[i \in 0..Len(order)] == IF i = 0 THEN d ELSE Removed(after[i - 1], order[i])
  IN [i \in 1..Len(order) |-> after[i]]

\* The key Delete: every selected node goes, each with a step of undo.
DeleteSelected ==
  /\ selected # {} /\ May
  /\ IF selected \cap Live = {} THEN UNCHANGED <<doc, undoStack>>
     ELSE Through(Deletions(doc, SetToSeq(selected \cap Live)))
  /\ positions' = [n \in Nodes |-> IF n \in selected THEN 0 ELSE positions[n]]
  /\ selected' = {} /\ selection' = None
  /\ UNCHANGED <<used, clipVars, down, edgeVars, canvasPan, areaDrag, dragging, libVars, frames>>

\* The button of one card.
RemoveNode(n) ==
  /\ n \in Live /\ May
  /\ Through(<<Removed(doc, n)>>)
  /\ positions' = [positions EXCEPT ![n] = 0]
  /\ UNCHANGED <<used, selected, clipVars, down, edgeVars, holdVars, libVars, frames>>

CopySelected ==
  /\ May
  /\ selected # {}
  /\ clipboard' = Copy(Graph, selected)
  /\ copied' = IF selected \cap Live # {} THEN selected \cap Live ELSE copied
  /\ UNCHANGED <<docVars, selected, down, edgeVars, holdVars, libVars, frames>>

\* The document while copies are added one by one, and then connected.
Pastes(clip, f) ==
  LET order == SetToSeq(clip.nodes)
      With(i) == [doc EXCEPT !.graph.nodes = @ \cup {f[order[j]] : j \in 1..i}]
  IN [i \in 1..Len(order) |->
        IF i < Len(order) THEN With(i) ELSE [doc EXCEPT !.graph = Paste(@, clip, f)]]

\* The copies are shown at the default place until a frame later, and then where
\* the originals were, in the middle of the screen.
PasteClipboard ==
  /\ clipboard.nodes # {} /\ copied # {} /\ May
  /\ \A t \in frames : t.kind # "paste"
  /\ \E f \in Renamings(clipboard, Fresh), v \in Places :
       LET new == {f[n] : n \in clipboard.nodes}
           placed == {f[n] : n \in clipboard.nodes \cap copied}
       IN /\ Through(Pastes(clipboard, f))
          /\ used' = used \cup new
          /\ frames' = frames \cup {[kind |-> "paste", desired |-> [n \in placed |-> v]]}
  /\ UNCHANGED <<positions, selected, clipVars, down, edgeVars, holdVars, libVars>>

\* The button of a card: the clipboard is used, the copied places are not.
DuplicateNode(n) ==
  /\ n \in Live /\ May
  /\ clipboard' = Copy(Graph, {n})
  /\ \E f \in Renamings(clipboard', Fresh), v \in Places :
       /\ SaveNodeLayout(Pastes(clipboard', f), [positions EXCEPT ![f[n]] = v])
       /\ used' = used \cup {f[n]}
  /\ UNCHANGED <<selected, copied, down, edgeVars, holdVars, libVars, frames>>

\* A placement of the last frame. Cards gone meanwhile are left out.
Frame(t) ==
  /\ t \in frames
  /\ LET live == DOMAIN t.desired \cap Live
     IN /\ SaveNodeLayout(<<>>, Moved(positions, t.desired, Live))
        /\ selected' = IF t.kind = "paste" /\ live # {} THEN live ELSE selected
  /\ frames' = frames \ {t}
  /\ UNCHANGED <<inputs, used, clipVars, down, edgeVars, holdVars, libVars>>

\* Aligning all cards, refused while connections form a cycle that no loop
\* controls.
ResetNodeLayout ==
  /\ Controlled(Graph) /\ May
  /\ SaveNodeLayout(<<>>, NoPlaces)
  /\ UNCHANGED <<used, selected, clipVars, down, edgeVars, holdVars, libVars, frames>>

SetArea(v) ==
  /\ UNCHANGED <<used, positions>>
  /\ IF doc.area = v THEN UNCHANGED <<doc, undoStack>>
     ELSE Through(<<[doc EXCEPT !.area = v]>>)

\* Added, removed, renamed, or moved by the arrow keys.
EditArea(v) ==
  /\ v # doc.area /\ May /\ SetArea(v)
  /\ UNCHANGED <<selected, clipVars, down, edgeVars, holdVars, libVars, frames>>

-----------------------------------------------------------------------------
(* The library of nodes.                                                    *)

\* The places of all cards are kept for the placement, and what is downstream of
\* a connection that does not lead back.
CaptureInsertion(c, dropped) ==
  LET returns == Returns(Graph)
      back    == returns \cup Feedback(Graph, returns)
      forward == {e \in Graph.edges \ back : e[3] # c[1]}
  IN pendingInsertion' =
       [edge |-> c, dropped |-> dropped, at |-> [n \in Live |-> positions[n]],
        ahead |-> IF c[3] = None \/ \E e \in back : e[1] = c[1] /\ e[3] = c[3] THEN {}
                  ELSE Reach({c[3]}, forward) \ {c[1]}]

PreparePalette(c) == insertConnection' = c /\ libraryOpen' = TRUE

\* A double click on the empty canvas.
OpenCanvasPalette ==
  /\ May
  /\ pendingInsertion' = None /\ pendingDrop' = TRUE /\ PreparePalette(None)
  /\ UNCHANGED <<docVars, selected, clipVars, down, edgeVars, holdVars, frames>>

OpenEdgePalette(c) ==
  /\ CaptureInsertion(c, FALSE) /\ PreparePalette(c) /\ UNCHANGED pendingDrop

ClickEdge(c) ==
  /\ May
  /\ c \in CanvasEdges /\ OpenEdgePalette(c)
  /\ UNCHANGED <<docVars, selected, clipVars, down, edgeVars, holdVars, frames>>

\* The button "add": whatever was remembered is dropped.
OpenLibrary ==
  /\ May
  /\ pendingDrop' = FALSE /\ pendingInsertion' = None /\ PreparePalette(None)
  /\ UNCHANGED <<docVars, selected, clipVars, down, edgeVars, holdVars, frames>>

\* The empty canvas offers a start; a connection remembered is not dropped.
OpenEmpty ==
  /\ May
  /\ Live = {} /\ libraryOpen' = TRUE
  /\ UNCHANGED <<docVars, selected, clipVars, down, edgeVars, holdVars, insertConnection,
                 pendingInsertion, pendingDrop, frames>>

CloseLibrary ==
  /\ libraryOpen /\ libraryOpen' = FALSE /\ insertConnection' = None
  /\ UNCHANGED <<docVars, inputs, selected, clipVars, down, edgeVars, holdVars, pendingInsertion,
                 pendingDrop, frames>>

\* A node of the library: at the point asked for, or on the connection, which
\* makes room a frame later, or in the middle of the screen.
InsertNode(n) ==
  /\ libraryOpen /\ n \in Fresh /\ May
  /\ insertConnection = None \/ n \notin Starts
  /\ Insertable(Graph, insertConnection)
  /\ LET c        == insertConnection
         inserted == [doc EXCEPT !.graph = Insert(@, n, c)]
         captured == ~pendingDrop /\ pendingInsertion # None /\ n \notin Starts
     IN \E v \in Places :
          /\ SaveNodeLayout(<<inserted>>, IF captured THEN positions ELSE [positions EXCEPT ![n] = v])
          /\ selected' = IF pendingDrop \/ captured THEN selected ELSE {n}
          /\ pendingInsertion' = IF captured THEN None ELSE pendingInsertion
          /\ IF captured /\ c # None /\ c[1] = pendingInsertion.edge[1] /\ c[3] = pendingInsertion.edge[3]
             THEN \E room \in {{}, pendingInsertion.ahead} :
                    frames' = frames \cup
                      {[kind |-> "insert",
                        desired |-> [m \in DOMAIN pendingInsertion.at \cup {n} |->
                                       IF m = n THEN v
                                       ELSE IF m \in room /\ ~pendingInsertion.dropped THEN 1
                                       ELSE pendingInsertion.at[m]]]}
             ELSE UNCHANGED frames
  /\ used' = used \cup {n}
  /\ insertConnection' = None /\ libraryOpen' = FALSE /\ pendingDrop' = FALSE
  /\ UNCHANGED <<clipVars, down, edgeVars, holdVars>>

-----------------------------------------------------------------------------
(* Connections.                                                             *)

\* Drawing ends, and with it any other gesture on connections.
CancelConnection == connecting' = None /\ pendingEdgeDrag' = None /\ routeDrag' = None

\* The document accepts the connection or stays as it is.
CompleteConnection(n) ==
  LET e == <<connecting.source, connecting.port, n>>
  IN /\ CancelConnection
     /\ IF Connectable(Graph, e)
        THEN Through(<<[doc EXCEPT !.graph = Connect(@, e, connecting.replace)]>>)
        ELSE UNCHANGED <<doc, undoStack>>

\* A click on a card while a connection waits for its target.
ClickTarget(n) ==
  /\ connecting # None /\ n \in Live \cap Actions /\ May
  /\ CompleteConnection(n)
  /\ UNCHANGED <<used, positions, selected, clipVars, down, holdVars, libVars, frames>>

CloseHint ==
  /\ connecting # None /\ CancelConnection
  /\ UNCHANGED <<docVars, inputs, selected, clipVars, down, holdVars, libVars, frames>>

RemoveSelectedEdge(e) ==
  /\ e \in Graph.edges /\ May
  /\ CancelConnection
  /\ SaveNodeLayout(<<[doc EXCEPT !.graph = Disconnect(@, e)]>>, positions)
  /\ UNCHANGED <<used, selected, clipVars, down, holdVars, libVars, frames>>

-----------------------------------------------------------------------------
(* Pressing a pointer.                                                      *)

Press(p) ==
  /\ May
  /\ p \notin down /\ down' = down \cup {p}

Rest == UNCHANGED <<docVars, clipVars, libVars, frames>>

\* Fault: a drag of cards does not count.
BusyUnlessDragging ==
  \/ canvasPan # None \/ connecting # None \/ routeDrag # None \/ areaDrag # None
  \/ pendingEdgeDrag # None \/ selection # None

\* Only one of the gestures that begin on the canvas itself.
Busy ==
  \/ canvasPan # None \/ connecting # None \/ routeDrag # None \/ areaDrag # None
  \/ pendingEdgeDrag # None \/ selection # None \/ dragging # None

\* A button, a field, or the canvas while it is busy.
PressNothing(p) == Press(p) /\ UNCHANGED <<selected, edgeVars, holdVars>> /\ Rest

StartCanvasPan(p) ==
  /\ Press(p) /\ ~Busy /\ canvasPan' = [pointer |-> p, moved |-> FALSE]
  /\ UNCHANGED <<selected, edgeVars, areaDrag, selection, dragging>> /\ Rest

StartBoxSelection(p) ==
  /\ Press(p) /\ ~Busy /\ selection' = [pointer |-> p, previous |-> selected]
  /\ UNCHANGED <<selected, edgeVars, canvasPan, areaDrag, dragging>> /\ Rest

ToggleSelected(p, n) ==
  /\ Press(p) /\ ~Busy /\ n \in Live
  /\ selected' = IF n \in selected THEN selected \ {n} ELSE selected \cup {n}
  /\ UNCHANGED <<edgeVars, holdVars>> /\ Rest

StartNodeDrag(p, n) ==
  /\ Press(p) /\ ~Busy /\ n \in Live
  /\ selected' = IF n \in selected THEN selected ELSE {n}
  /\ dragging' = [pointer |-> p, moved |-> FALSE, origins |-> [m \in selected' |-> positions[m]]]
  /\ UNCHANGED <<edgeVars, canvasPan, areaDrag, selection>> /\ Rest

StartAreaDrag(p) ==
  /\ Press(p) /\ connecting = None /\ routeDrag = None /\ doc.area # None
  /\ areaDrag' = [pointer |-> p, before |-> doc.area]
  /\ UNCHANGED <<selected, edgeVars, canvasPan, selection, dragging>> /\ Rest

StartEdgeRouteDrag(p) ==
  /\ Press(p) /\ connecting = None /\ Graph.edges # {}
  /\ routeDrag' = [pointer |-> p, moved |-> FALSE]
  /\ UNCHANGED <<selected, pendingEdgeDrag, connecting, holdVars>> /\ Rest

StartEdgeControlDrag(p, c) ==
  /\ Press(p) /\ c \in CanvasEdges
  /\ pendingEdgeDrag' = [pointer |-> p, edge |-> c, moved |-> FALSE]
  /\ UNCHANGED <<selected, routeDrag, connecting, holdVars>> /\ Rest

StartConnection(p, n, port) ==
  /\ Press(p) /\ n \in Live /\ port \in Ports(n)
  /\ connecting' = [source |-> n, port |-> port, replace |-> None]
  /\ UNCHANGED <<selected, routeDrag, pendingEdgeDrag, holdVars>> /\ Rest

\* From an input the only connection that leads there is drawn anew.
StartIncomingConnection(p, e) ==
  /\ Press(p) /\ connecting = None
  /\ {x \in Graph.edges : x[3] = e[3]} = {e}
  /\ connecting' = [source |-> e[1], port |-> e[2], replace |-> e[3]]
  /\ UNCHANGED <<selected, routeDrag, pendingEdgeDrag, holdVars>> /\ Rest

-----------------------------------------------------------------------------
(* Moving and releasing a pointer: the first gesture that takes the event.  *)

Holds(gesture, p) == gesture # None /\ gesture.pointer = p

MovePan(p) ==
  /\ Holds(canvasPan, p) /\ canvasPan' = [canvasPan EXCEPT !.moved = TRUE]
  /\ UNCHANGED <<docVars, inputs, selected, edgeVars, areaDrag, selection, dragging>>

MoveAreaDrag(p, v) ==
  /\ canvasPan = None /\ Holds(areaDrag, p)
  /\ doc.area # None /\ v # doc.area /\ May /\ SetArea(v)
  /\ UNCHANGED <<selected, edgeVars, holdVars>>

MoveRoute(p) ==
  /\ canvasPan = None /\ areaDrag = None /\ Holds(routeDrag, p)
  /\ routeDrag' = [routeDrag EXCEPT !.moved = TRUE]
  /\ UNCHANGED <<docVars, inputs, selected, pendingEdgeDrag, connecting, holdVars>>

MoveBox(p, S) ==
  /\ canvasPan = None /\ areaDrag = None /\ ~Holds(routeDrag, p) /\ Holds(selection, p)
  /\ selected' = selection.previous \cup S
  /\ UNCHANGED <<docVars, inputs, edgeVars, holdVars>>

Later(p) ==
  canvasPan = None /\ areaDrag = None /\ ~Holds(routeDrag, p) /\ ~Holds(selection, p)

\* A connection's control that is pulled becomes a connection being drawn: the
\* pulled one anew, or one from the open port.
MoveEdge(p) ==
  /\ Later(p) /\ Holds(pendingEdgeDrag, p) /\ ~pendingEdgeDrag.moved
  /\ pendingEdgeDrag' = [pendingEdgeDrag EXCEPT !.moved = TRUE]
  /\ LET e == pendingEdgeDrag.edge
     IN connecting' = [source |-> e[1], port |-> e[2], replace |-> e[3]]
  /\ UNCHANGED <<docVars, inputs, selected, routeDrag, holdVars>>

Land(place, by) == (place + by) % 2

\* All cards of the selection at the press, by the way of the pointer since.
MoveNodes(p, by) ==
  /\ Later(p) /\ connecting = None /\ Holds(dragging, p)
  /\ ~(Holds(pendingEdgeDrag, p) /\ ~pendingEdgeDrag.moved)
  /\ dragging' = [dragging EXCEPT !.moved = TRUE]
  /\ positions' = [n \in Nodes |-> IF n \in DOMAIN dragging.origins
                                   THEN Land(dragging.origins[n], by) ELSE positions[n]]
  /\ UNCHANGED <<inputs, doc, undoStack, used, selected, edgeVars, canvasPan, areaDrag, selection>>

Move(p) ==
  /\ \/ MovePan(p) \/ MoveRoute(p) \/ MoveEdge(p)
     \/ \E v \in Places : MoveAreaDrag(p, v) \/ MoveNodes(p, v)
     \/ \E S \in SUBSET Live : MoveBox(p, S)
  /\ UNCHANGED <<clipVars, down, libVars, frames>>

\* The pan is given up: the window lost the focus, or the pointer its capture.
StopCanvasPan ==
  /\ canvasPan # None /\ canvasPan' = None
  /\ UNCHANGED <<inputs, selected, edgeVars, areaDrag, selection, dragging, down>> /\ Rest

\* A pan that did not move was a click on the canvas.
ReleasePan(p, up) ==
  /\ Holds(canvasPan, p) /\ canvasPan' = None
  /\ IF up /\ ~canvasPan.moved THEN selected' = {} /\ selection' = None
     ELSE UNCHANGED <<selected, selection>>
  /\ UNCHANGED <<docVars, edgeVars, areaDrag, dragging, libVars>>

\* An area that still exists goes back when its drag is given up.
StopAreaDrag(cancel) ==
  /\ areaDrag' = None
  /\ IF cancel /\ areaDrag # None /\ doc.area # None THEN SetArea(areaDrag.before)
     ELSE UNCHANGED <<doc, undoStack, used, positions>>

ReleaseArea(p, up) ==
  /\ ~Holds(canvasPan, p) /\ Holds(areaDrag, p)
  /\ StopAreaDrag(~up)
  /\ UNCHANGED <<selected, edgeVars, canvasPan, selection, dragging, libVars>>

ReleaseRoute(p, up) ==
  /\ ~Holds(canvasPan, p) /\ ~Holds(areaDrag, p) /\ Holds(routeDrag, p)
  /\ routeDrag' = None
  /\ IF up /\ routeDrag.moved THEN SaveNodeLayout(<<>>, positions)
     ELSE UNCHANGED <<doc, undoStack, positions>>
  /\ UNCHANGED <<used, selected, pendingEdgeDrag, connecting, holdVars, libVars>>

ReleaseBox(p) ==
  /\ ~Holds(canvasPan, p) /\ ~Holds(areaDrag, p) /\ ~Holds(routeDrag, p) /\ Holds(selection, p)
  /\ selection' = None
  /\ UNCHANGED <<docVars, selected, edgeVars, canvasPan, areaDrag, dragging, libVars>>

\* The rest goes on one after another: a control that was tapped opens the
\* library; a connection being drawn, by whichever pointer, ends on a card, on
\* the empty canvas, outside it (None), or goes on, as it does not end where it
\* began; a drag of cards is over, wherever, and is stored even if cancelled.
ReleaseRest(p, up, where) ==
  LET tap  == up /\ Holds(pendingEdgeDrag, p) /\ ~pendingEdgeDrag.moved
      ends == connecting # None /\ (~up \/ where # "goes on")
      e    == <<connecting.source, connecting.port, where>>
      drop == <<connecting.source, connecting.port, connecting.replace>>
      joined == IF ends /\ up /\ where \in Live \cap Actions /\ Connectable(Graph, e)
                THEN <<[doc EXCEPT !.graph = Connect(@, e, connecting.replace)]>> ELSE <<>>
  IN /\ ~Holds(canvasPan, p) /\ ~Holds(areaDrag, p) /\ ~Holds(routeDrag, p) /\ ~Holds(selection, p)
     /\ (connecting = None \/ ~up) => where = None
     /\ IF ends THEN CancelConnection
        ELSE /\ pendingEdgeDrag' = IF Holds(pendingEdgeDrag, p) THEN None ELSE pendingEdgeDrag
             /\ UNCHANGED <<routeDrag, connecting>>
     /\ IF ends /\ up /\ where = "canvas"
        THEN CaptureInsertion(drop, TRUE) /\ PreparePalette(drop) /\ UNCHANGED pendingDrop
        ELSE IF tap THEN OpenEdgePalette(pendingEdgeDrag.edge) ELSE UNCHANGED libVars
     /\ IF Holds(dragging, p)
        THEN /\ dragging' = None
             /\ IF dragging.moved THEN SaveNodeLayout(joined, positions)
                ELSE /\ UNCHANGED positions
                     /\ IF joined # <<>> THEN Through(joined) ELSE UNCHANGED <<doc, undoStack>>
        ELSE /\ UNCHANGED <<dragging, positions>>
             /\ IF joined # <<>> THEN Through(joined) ELSE UNCHANGED <<doc, undoStack>>
     /\ UNCHANGED <<used, selected, canvasPan, areaDrag, selection>>

Release(p, up) ==
  /\ p \in down /\ down' = down \ {p} 
  /\ \/ ReleasePan(p, up) \/ ReleaseArea(p, up) \/ ReleaseRoute(p, up) \/ ReleaseBox(p)
     \/ \E where \in (Live \cap Actions) \cup {None, "canvas", "goes on"} : ReleaseRest(p, up, where)
  /\ UNCHANGED <<inputs, clipVars, frames>>

\* A pointer that is not captured is released on the input of a card, which does
\* not let the canvas know: a drag of cards not yet moved goes on.
ReleaseOnInput(p, n) ==
  /\ p \in down /\ down' = down \ {p}  /\ n \in Live \cap Actions
  /\ \A gesture \in {canvasPan, areaDrag, routeDrag, selection, pendingEdgeDrag} : ~Holds(gesture, p)
  /\ Holds(dragging, p) => ~dragging.moved
  /\ IF connecting # None /\ connecting.replace # n
     THEN CompleteConnection(n)
     ELSE UNCHANGED <<doc, undoStack, edgeVars>>
  /\ UNCHANGED <<inputs, used, positions, selected, clipVars, holdVars, libVars, frames>>

Escape ==
  /\ canvasPan' = None /\ StopAreaDrag(TRUE) /\ CancelConnection /\ libraryOpen' = FALSE
  /\ UNCHANGED <<inputs, selected, clipVars, down, selection, dragging, insertConnection,
                 pendingInsertion, pendingDrop, frames>>

-----------------------------------------------------------------------------
PressSomething(p) ==
  \/ PressNothing(p) \/ StartCanvasPan(p) \/ StartBoxSelection(p) \/ StartAreaDrag(p)
  \/ StartEdgeRouteDrag(p)
  \/ \E n \in Live : \/ ToggleSelected(p, n) \/ StartNodeDrag(p, n)
                      \/ \E port \in Ports(n) : StartConnection(p, n, port)
  \/ \E c \in CanvasEdges : StartEdgeControlDrag(p, c)
  \/ \E e \in Graph.edges : StartIncomingConnection(p, e)

\* Clicks and keys.
Click ==
  \/ Undo \/ DeleteSelected \/ CopySelected \/ PasteClipboard \/ ResetNodeLayout
  \/ \E n \in Nodes : RemoveNode(n) \/ DuplicateNode(n) \/ InsertNode(n) \/ ClickTarget(n)
  \/ \E v \in Places \cup {None} : EditArea(v)
  \/ OpenCanvasPalette \/ OpenLibrary \/ OpenEmpty \/ CloseLibrary \/ CloseHint \/ Escape
  \/ \E c \in CanvasEdges : ClickEdge(c)
  \/ \E e \in Graph.edges : RemoveSelectedEdge(e)

Next ==
  \/ Click \/ StopCanvasPan
  \/ \E t \in frames : Frame(t)
  \/ \E p \in Pointers :
       \/ PressSomething(p) \/ Move(p)
       \/ \E up \in BOOLEAN : Release(p, up)
       \/ \E n \in Live : ReleaseOnInput(p, n)

Spec == Init /\ [][Next]_vars

-----------------------------------------------------------------------------
Documents == [graph : Graphs, at : [Nodes -> Places], area : Places \cup {None}]

TypeOK ==
  /\ doc \in Documents /\ undoStack \in Seq(Documents) /\ Len(undoStack) <= UndoLimit
  /\ inputs \in 0..MaxInputs
  /\ used \in SUBSET Nodes /\ Live \subseteq used
  /\ positions \in [Nodes -> Places]
  /\ selected \in SUBSET Nodes /\ down \in SUBSET Pointers /\ dragging \in Drags \cup {None}
  /\ clipboard \in Graphs /\ copied \in SUBSET Nodes
  /\ libraryOpen \in BOOLEAN /\ pendingDrop \in BOOLEAN

\* Every connection of the document leads from a port its source has to an
\* action that exists, whatever was removed, undone or pasted while a connection
\* was drawn, the library was open for one, or a card was dragged.
EdgesJoinNodes == \A e \in Graph.edges : Joins(Graph, e)

\* A node put at an open port, or on a connection that is still there, closes no
\* cycle that no loop controls, which the server would refuse and the alignment
\* leaves alone: in the body of a loop it returns by the right ports, and what led
\* back before it does still. Only a loop put between two nodes is excepted.
InsertionsKeepControl ==
  [][LET c == insertConnection
     IN /\ libraryOpen /\ ~libraryOpen' /\ Live' # Live /\ Controlled(Graph)
        /\ \/ c = None \/ c[3] = None
           \/ c \in Graph.edges /\ (Live' \ Live) \cap Loops = {}
        => Controlled(Graph')]_vars

\* What the document would save is what is seen: unless cards are on the move,
\* each is shown where it is stored, with insertions and pastes placed a frame
\* after they are made, and undone before.
ShownIsStored ==
  (dragging = None \/ ~dragging.moved) => \A n \in Live : positions[n] = doc.at[n]

\* No gesture is left over when its pointer is released, nor taken over by
\* another pointer: of a pan, a box and a drag of cards, which share the canvas,
\* one at most goes on. (A drag of cards that has not moved may be left over.)
GesturesAreHeld ==
  /\ \A gesture \in {canvasPan, areaDrag, routeDrag, selection, pendingEdgeDrag} :
       gesture # None => gesture.pointer \in down
  /\ Cardinality({i \in 1..3 : <<canvasPan, selection, dragging>>[i] # None}) <= 1

\* Nodes that a step adds or removes.
Changed == (Live \ Live') \cup (Live' \ Live)

\* As many steps of undo as nodes were added or removed, or two where a change
\* also stores the layout, bring back the document before the change. Only of a
\* Delete or a paste of more nodes than the limit it is lost.
ChangesCanBeUndone ==
  [][doc' # doc /\ Len(undoStack') >= Len(undoStack) /\ Cardinality(Changed) <= UndoLimit
       => \E n \in 1..Len(undoStack') :
            /\ n <= 2 \/ n <= Cardinality(Changed)
            /\ undoStack'[Len(undoStack') + 1 - n] = doc]_vars
=============================================================================
