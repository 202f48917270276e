--------------------------- MODULE BrowserEditor ---------------------------
(***************************************************************************)
(* The browser editor of a workflow against its server: one document with  *)
(* undo, edited while whole-document saves, renames of single nodes in the *)
(* background, duplication and deletion are on their way, and while other  *)
(* windows write the same workflow.  The server accepts a write only with  *)
(* the version it last gave out.                                           *)
(*                                                                         *)
(* resources/js/workflow-browser-editor.mjs, workflow-browser-document.mjs *)
(* and Services/Workflows/WorkflowBrowserDocument.php.                     *)
(***************************************************************************)
EXTENDS Naturals, Sequences, FiniteSets

CONSTANTS
  Docs,         \* rows of the workflows table, the edited one and copies
  FirstDocs,    \* what the page may be opened for: a workflow, or None, a new one
  Nodes,        \* nodes the document may have
  FirstNodes,   \* nodes of the workflow that is opened
  Imports,      \* the sets of nodes that files to import have
  UndoLimit,    \* documents the stack of undo has room for, 50 in the code
  MaxEdits,     \* bound: different contents that this editor makes
  MaxRivals,    \* bound: writes of other windows
  MaxRevision,  \* bound: checkpoints and undos of one document
  MaxCalls,     \* bound: saves, copies and deletions the user asks for
  None

ASSUME EditorAssumption ==
  /\ None \notin Docs /\ FirstDocs \subseteq Docs \cup {None}
  /\ FirstNodes \subseteq Nodes /\ Imports \subseteq SUBSET Nodes
  /\ {UndoLimit, MaxEdits, MaxRivals, MaxRevision, MaxCalls} \subseteq Nat

\* What a field or a name was last set to: by this editor, by another window,
\* or (0) as it was loaded.
Own    == 0..MaxEdits
Rivals == (MaxEdits + 1)..(MaxEdits + MaxRivals)
Stamps == Own \cup Rivals

\* A document: its identity, the switch, all fields but the nodes' names, and
\* the name of every node it has.
Content == [id : Docs \cup {None}, active : BOOLEAN, body : Stamps,
            name : [Nodes -> Stamps \cup {None}]]

VARIABLES
  value, saved, undoStack, redoStack,  \* BrowserWorkflowDocument
  editGroup,     \* the field, or the node's name, of the last checkpoint
  revision,
  version,       \* the version the server last gave out
  saving,        \* which whole-document request is on its way
  renamePending, \* a rename that waits for its timer, or None
  renameTimer,   \* "off", "auto" (400 ms), "plain" (a retry that saves nothing new)
  renames,       \* the chain of rename requests not ended; its head may be sent
  renameTask,    \* how many renames were chained; Len(renames) of them are open
  waits,         \* saves that wait for the renames chained before them
  put, patch,    \* the requests on their way, or None
  srv,           \* the server's rows: content and version, or None
  clock,         \* versions given out
  edits, calls, rivals  \* bounds: fresh contents, requested saves, others' writes

docVars == <<value, saved, undoStack, redoStack, editGroup, revision>>
renVars == <<renamePending, renameTimer, renames, renameTask>>
netVars == <<saving, waits, put, patch, calls>>
srvVars == <<srv, clock, rivals>>
vars == <<docVars, renVars, netVars, srvVars, version, edits>>

Dirty     == value # saved
Has(c, n) == c.name[n] # None
Ended     == renameTask - Len(renames)

\* Promises that are settled go on before the page takes another event: first
\* the saves that waited, then the next rename of the chain.
SavesIdle == \A w \in waits : w[1] > Ended
Idle      == SavesIdle /\ (renames # <<>> => patch # None)
Open      == saving # "left" /\ Idle

Blank(doc) == [id |-> doc, active |-> FALSE, body |-> 0,
               name |-> [n \in Nodes |-> IF n \in FirstNodes THEN 0 ELSE None]]

Init ==
  /\ \E doc \in FirstDocs :
       /\ value = Blank(doc) /\ saved = Blank(doc)
       /\ srv = [d \in Docs |-> IF d = doc THEN [content |-> Blank(doc), version |-> 0] ELSE None]
  /\ undoStack = <<>> /\ redoStack = <<>> /\ editGroup = None /\ revision = 0
  /\ version = 0 /\ saving = "no" /\ waits = {} /\ put = None /\ patch = None
  /\ renamePending = None /\ renameTimer = "off" /\ renames = <<>> /\ renameTask = 0
  /\ edits = 0 /\ calls = 0 /\ clock = 0 /\ rivals = 0

-----------------------------------------------------------------------------
(* The document: every edit passes a checkpoint.                            *)

\* Of more documents than the limit the oldest goes.
Pushed(stack, content) ==
  LET all == IF stack # <<>> /\ stack[Len(stack)] = content THEN stack ELSE Append(stack, content)
  IN IF Len(all) > UndoLimit THEN Tail(all) ELSE all

\* Fault: typing on in the same field does not count as a new revision.
CheckpointUncounted(group) ==
  /\ revision < MaxRevision
  /\ \/ /\ group # None /\ editGroup = group
        /\ UNCHANGED <<undoStack, redoStack, editGroup, revision>>
     \/ /\ editGroup' = group
        /\ undoStack' = Pushed(undoStack, value)
        /\ redoStack' = <<>>
        /\ revision' = revision + 1

\* Two edits of one group within 600 ms are one step of undo.
Checkpoint(group) ==
  /\ revision < MaxRevision
  /\ revision' = revision + 1
  /\ \/ /\ group # None /\ editGroup = group
        /\ UNCHANGED <<undoStack, redoStack, editGroup>>
     \/ /\ editGroup' = group
        /\ undoStack' = Pushed(undoStack, value)
        /\ redoStack' = <<>>

Fresh == edits < MaxEdits /\ edits' = edits + 1

\* A field of the inspector: typing joins a group, choices and lists do not.
Type(group) ==
  /\ Open /\ Fresh /\ Checkpoint(group)
  /\ value' = [value EXCEPT !.body = edits']
  /\ UNCHANGED <<saved, version, renVars, netVars, srvVars>>

\* A node is added, or one is removed with its name.
Insert(n) ==
  /\ Open /\ Fresh /\ ~Has(value, n) /\ Checkpoint(None)
  /\ value' = [value EXCEPT !.name[n] = edits']
  /\ UNCHANGED <<saved, version, renVars, netVars, srvVars>>

Remove(n) ==
  /\ Open /\ Has(value, n) /\ Checkpoint(None)
  /\ value' = [value EXCEPT !.name[n] = None]
  /\ UNCHANGED <<saved, version, renVars, netVars, srvVars, edits>>

\* A file replaces the definition; identity and switch are kept.
Import(S) ==
  /\ Open /\ Fresh /\ Checkpoint(None)
  /\ value' = [value EXCEPT !.body = edits',
                            !.name = [n \in Nodes |-> IF n \in S THEN edits' ELSE None]]
  /\ UNCHANGED <<saved, version, renVars, netVars, srvVars>>

Undo ==
  /\ Open /\ undoStack # <<>> /\ revision < MaxRevision
  /\ LET n == Len(undoStack)
     IN value' = undoStack[n] /\ undoStack' = SubSeq(undoStack, 1, n - 1)
  /\ redoStack' = Append(redoStack, value)
  /\ revision' = revision + 1
  /\ UNCHANGED <<saved, editGroup, version, renVars, netVars, srvVars, edits>>

Redo ==
  /\ Open /\ redoStack # <<>> /\ revision < MaxRevision
  /\ LET n == Len(redoStack)
     IN value' = redoStack[n] /\ redoStack' = SubSeq(redoStack, 1, n - 1)
  /\ undoStack' = Append(undoStack, value)
  /\ revision' = revision + 1
  /\ UNCHANGED <<saved, editGroup, version, renVars, netVars, srvVars, edits>>

-----------------------------------------------------------------------------
(* Saving the whole document.                                               *)

\* A request carries a copy of the document and the version known now.
Send(kind, content) ==
  /\ saving' = kind
  /\ put' = [doc |-> value.id, content |-> content, version |-> version,
             revision |-> revision, state |-> "sent", answer |-> None]

SendSave(active) ==
  Send("save", IF active = None THEN value ELSE [value EXCEPT !.active = active])

Asked == calls < MaxCalls /\ calls' = calls + 1

\* A pending rename leaves its wait: a node the server knows is renamed by a
\* request of its own, behind those already chained.
Known(n) == value.id # None /\ Has(saved, n)

Chain ==
  /\ renames' = Append(renames, renamePending)
  /\ renameTask' = renameTask + 1

\* saveDocument up to its first wait: renames on their way go first.
StartSave(active) ==
  IF renames # <<>>
  THEN waits' = waits \cup {<<renameTask, active>>} /\ UNCHANGED <<saving, put>>
  ELSE SendSave(active) /\ UNCHANGED waits

Save(active) ==
  /\ Open /\ saving = "no" /\ Asked
  /\ IF renamePending = None
     THEN StartSave(active) /\ UNCHANGED renVars
     ELSE /\ renameTimer' = "off" /\ renamePending' = None
          /\ IF Known(renamePending.node) THEN Chain ELSE UNCHANGED <<renames, renameTask>>
          /\ waits' = waits \cup {<<renameTask', active>>}
          /\ UNCHANGED <<saving, put>>
  /\ UNCHANGED <<docVars, version, patch, srvVars, edits>>

\* The renames a save waited for are over; another save may have begun since.
SaveGoesOn(w) ==
  /\ w \in waits /\ w[1] <= Ended
  /\ waits' = waits \ {w}
  /\ IF saving # "no" THEN UNCHANGED <<saving, put>> ELSE SendSave(w[2])
  /\ UNCHANGED <<docVars, version, renVars, patch, calls, srvVars, edits>>

NewMachine(c) ==
  /\ value' = c /\ saved' = c
  /\ undoStack' = <<>> /\ redoStack' = <<>> /\ editGroup' = None /\ revision' = 0

\* The answer is the new baseline. It replaces the document only if nothing was
\* edited since; otherwise only identity and switch are taken over.
SaveAnswered ==
  /\ Open /\ saving = "save" /\ put.state = "ok"
  /\ version' = put.answer.version
  /\ saved' = put.answer.content
  /\ value' = IF revision = put.revision THEN put.answer.content
              ELSE [value EXCEPT !.id = put.answer.content.id, !.active = put.answer.content.active]
  /\ saving' = "no" /\ put' = None
  /\ UNCHANGED <<undoStack, redoStack, editGroup, revision, renVars, waits, patch, calls,
                 srvVars, edits>>

\* Fault: a deletion that failed does not open the editor again.
CallFailedStuck ==
  /\ Open /\ saving # "no" /\ put.state = "failed"
  /\ saving' = IF saving = "delete" THEN "delete" ELSE "no" 
  /\ put' = None
  /\ UNCHANGED <<docVars, version, renVars, waits, patch, calls, srvVars, edits>>

\* A conflict, a rejection or no answer: document and version stay.
CallFailed ==
  /\ Open /\ saving # "no" /\ put.state = "failed"
  /\ saving' = "no" /\ put' = None
  /\ UNCHANGED <<docVars, version, renVars, waits, patch, calls, srvVars, edits>>

\* The copy becomes the edited document; what was typed meanwhile is gone.
Duplicate ==
  /\ Open /\ saving = "no" /\ value.id # None /\ Asked
  /\ Send("copy", value)
  /\ UNCHANGED <<docVars, version, renVars, waits, patch, srvVars, edits>>

CopyAnswered ==
  /\ Open /\ saving = "copy" /\ put.state = "ok"
  /\ NewMachine(put.answer.content)
  /\ version' = put.answer.version
  /\ saving' = "no" /\ put' = None
  /\ UNCHANGED <<renVars, waits, patch, calls, srvVars, edits>>

Delete ==
  /\ Open /\ saving = "no" /\ value.id # None /\ Asked
  /\ Send("delete", value)
  /\ UNCHANGED <<docVars, version, renVars, waits, patch, srvVars, edits>>

\* The page leaves for the list; nothing it has started is awaited any more.
DeleteAnswered ==
  /\ Open /\ saving = "delete" /\ put.state = "ok"
  /\ saving' = "left" /\ put' = None
  /\ saved' = value
  /\ renamePending' = None /\ renameTimer' = "off" /\ renames' = <<>>
  /\ waits' = {} /\ patch' = None
  /\ UNCHANGED <<value, undoStack, redoStack, editGroup, revision, version, renameTask,
                 calls, srvVars, edits>>

-----------------------------------------------------------------------------
(* Renaming one node in the background.                                     *)

\* flushRename while no whole-document request is out, up to its first wait. A
\* node the server does not know yet is saved with the document, or not at all.
Flushed(auto) ==
  IF renamePending = None THEN UNCHANGED <<renames, renameTask, saving, put, waits>>
  ELSE IF Known(renamePending.node) THEN Chain /\ UNCHANGED <<saving, put, waits>>
  ELSE /\ UNCHANGED <<renames, renameTask>>
       /\ IF auto THEN StartSave(None) ELSE UNCHANGED <<saving, put, waits>>

\* Typing a name into the inspector. A pending rename of another node is
\* flushed first, with the document as it is before this one; while a save is
\* out it gives way and reaches the server with the next whole document only.
Rename(n) ==
  /\ Open /\ Fresh /\ Has(value, n) /\ Checkpoint(n)
  /\ value' = [value EXCEPT !.name[n] = edits']
  /\ IF saving = "no" /\ renamePending # None /\ renamePending.node # n
     THEN Flushed(TRUE) ELSE UNCHANGED <<renames, renameTask, saving, put, waits>>
  /\ renamePending' = [node |-> n, name |-> edits']
  /\ renameTimer' = "auto"
  /\ UNCHANGED <<saved, version, patch, calls, srvVars>>

\* Fault: a rename that meets a save is forgotten by its timer.
FlushForgets(auto) ==
  /\ Open /\ renamePending # None
  /\ IF saving = "no"
     THEN Flushed(auto) /\ renamePending' = None /\ renameTimer' = "off"
     ELSE /\ renameTimer' = "off"
          /\ UNCHANGED <<renamePending, renames, renameTask, saving, put, waits>>
  /\ UNCHANGED <<docVars, version, patch, calls, srvVars, edits>>

\* The timer of a rename, or the loss of focus; a save on its way postpones it.
Flush(auto) ==
  /\ Open /\ renamePending # None
  /\ IF saving = "no"
     THEN Flushed(auto) /\ renamePending' = None /\ renameTimer' = "off"
     ELSE /\ renameTimer' = IF auto THEN "auto" ELSE "plain"
          /\ UNCHANGED <<renamePending, renames, renameTask, saving, put, waits>>
  /\ UNCHANGED <<docVars, version, patch, calls, srvVars, edits>>

TimerFires == renameTimer # "off" /\ Flush(renameTimer = "auto")
Blur       == Flush(TRUE)

\* The head of the chain is sent, with the document and the version of now.
RenameSend ==
  /\ saving # "left" /\ SavesIdle /\ renames # <<>> /\ patch = None
  /\ patch' = [doc |-> value.id, version |-> version, node |-> Head(renames).node,
               name |-> Head(renames).name, state |-> "sent", answer |-> None]
  /\ UNCHANGED <<docVars, version, renVars, saving, waits, put, calls, srvVars, edits>>

RenameEnds ==
  /\ renames' = Tail(renames) /\ patch' = None
  /\ UNCHANGED <<value, undoStack, redoStack, editGroup, revision, renamePending, renameTimer,
                 renameTask, saving, waits, put, calls, srvVars, edits>>

\* Fault: only the version is taken from the answer.
RenameAnsweredVersion ==
  /\ Open /\ patch # None /\ patch.state = "ok"
  /\ version' = patch.answer.version /\ UNCHANGED saved
  /\ RenameEnds

\* Only the baseline moves on; the document keeps its other edits.
RenameAnswered ==
  /\ Open /\ patch # None /\ patch.state = "ok"
  /\ version' = patch.answer.version /\ saved' = patch.answer.content
  /\ RenameEnds

RenameFailed ==
  /\ Open /\ patch # None /\ patch.state = "failed"
  /\ UNCHANGED <<version, saved>>
  /\ RenameEnds

-----------------------------------------------------------------------------
(* The server and the other windows.                                        *)

Current(r) == r.doc # None /\ srv[r.doc] # None /\ srv[r.doc].version = r.version

Write(d, c) ==
  /\ srv' = [srv EXCEPT ![d] = [content |-> [c EXCEPT !.id = d], version |-> clock + 1]]
  /\ clock' = clock + 1

\* A whole-document request is carried out; its answer may be lost.
ServePut ==
  /\ saving \in {"save", "copy", "delete"} /\ put.state = "sent"
  /\ \/ saving = "save" /\ put.doc # None /\ Current(put) /\ Write(put.doc, put.content)
     \/ /\ saving = "save" /\ put.doc = None
        /\ \E d \in Docs : srv[d] = None /\ Write(d, put.content)
     \/ /\ saving = "copy" /\ Current(put)
        /\ \E d \in Docs : srv[d] = None /\ Write(d, [put.content EXCEPT !.active = FALSE])
     \/ /\ saving = "delete" /\ Current(put)
        /\ srv' = [srv EXCEPT ![put.doc] = None] /\ UNCHANGED clock
  /\ \E state \in {"ok", "failed"}, d \in Docs :
       /\ d = put.doc \/ srv'[d] # srv[d]
       /\ saving # "delete" => srv'[d] # srv[d]
       /\ put' = [put EXCEPT !.state = state, !.answer = IF state = "ok" THEN srv'[d] ELSE None]
  /\ UNCHANGED <<docVars, version, renVars, saving, waits, patch, calls, rivals, edits>>

\* A stale version, a document that is refused, or no connection.
RefusePut ==
  /\ saving \in {"save", "copy", "delete"} /\ put.state = "sent"
  /\ put' = [put EXCEPT !.state = "failed"]
  /\ UNCHANGED <<docVars, version, renVars, saving, waits, patch, calls, srvVars, edits>>

\* Fault: the rename of a node does not look at the version.
ServePatchBlind ==
  /\ patch # None /\ patch.state = "sent"
  /\ patch.doc # None /\ srv[patch.doc] # None
  /\ LET c == srv[patch.doc].content
     IN /\ Has(c, patch.node)
        /\ IF c.name[patch.node] = patch.name THEN UNCHANGED <<srv, clock>>
           ELSE Write(patch.doc, [c EXCEPT !.name[patch.node] = patch.name])
  /\ \E state \in {"ok", "failed"} :
       patch' = [patch EXCEPT !.state = state,
                              !.answer = IF state = "ok" THEN srv'[patch.doc] ELSE None]
  /\ UNCHANGED <<docVars, version, renVars, saving, waits, put, calls, rivals, edits>>

\* One name of the stored document changes, references to it with it.
ServePatch ==
  /\ patch # None /\ patch.state = "sent" /\ Current(patch)
  /\ LET c == srv[patch.doc].content
     IN /\ Has(c, patch.node)
        /\ IF c.name[patch.node] = patch.name THEN UNCHANGED <<srv, clock>>
           ELSE Write(patch.doc, [c EXCEPT !.name[patch.node] = patch.name])
  /\ \E state \in {"ok", "failed"} :
       patch' = [patch EXCEPT !.state = state,
                              !.answer = IF state = "ok" THEN srv'[patch.doc] ELSE None]
  /\ UNCHANGED <<docVars, version, renVars, saving, waits, put, calls, rivals, edits>>

RefusePatch ==
  /\ patch # None /\ patch.state = "sent"
  /\ patch' = [patch EXCEPT !.state = "failed"]
  /\ UNCHANGED <<docVars, version, renVars, saving, waits, put, calls, srvVars, edits>>

\* Another window writes the workflow.
Rival(d) ==
  /\ srv[d] # None /\ rivals < MaxRivals
  /\ rivals' = rivals + 1
  /\ Write(d, [srv[d].content EXCEPT !.body = MaxEdits + rivals'])
  /\ UNCHANGED <<docVars, version, renVars, netVars, edits>>

-----------------------------------------------------------------------------
User ==
  \/ Type("field")
  \/ \E n \in Nodes : Insert(n) \/ Remove(n) \/ Rename(n)
  \/ \E S \in Imports : Import(S)
  \/ Undo \/ Redo \/ Blur
  \/ \E active \in {None, TRUE} : Save(active)
  \/ Duplicate \/ Delete

Page ==
  \/ TimerFires \/ RenameSend
  \/ \E w \in waits : SaveGoesOn(w)
  \/ SaveAnswered \/ CopyAnswered \/ DeleteAnswered \/ CallFailed
  \/ RenameAnswered \/ RenameFailed

Server == ServePut \/ RefusePut \/ ServePatch \/ RefusePatch

Next == User \/ Page \/ Server \/ \E d \in Docs : Rival(d)

Spec == Init /\ [][Next]_vars

\* Timers fire, promises go on and every request ends with an answer or an error.
Fairness ==
  /\ WF_vars(TimerFires) /\ WF_vars(RenameSend) /\ WF_vars(\E w \in waits : SaveGoesOn(w))
  /\ WF_vars(ServePut \/ RefusePut) /\ WF_vars(ServePatch \/ RefusePatch)
  /\ WF_vars(SaveAnswered \/ CopyAnswered \/ DeleteAnswered \/ CallFailed)
  /\ WF_vars(RenameAnswered \/ RenameFailed)

FairSpec == Spec /\ Fairness

-----------------------------------------------------------------------------
Answer  == [content : Content, version : Nat]
Pending == [node : Nodes, name : Own]
Put     == [doc : Docs \cup {None}, content : Content, version : Nat, revision : Nat,
            state : {"sent", "ok", "failed"}, answer : Answer \cup {None}]

ASSUME NoneAssumption == None \notin Answer /\ None \notin Put

TypeOK ==
  /\ value \in Content /\ saved \in Content
  /\ undoStack \in Seq(Content) /\ redoStack \in Seq(Content)
  /\ Len(undoStack) + Len(redoStack) <= UndoLimit
  /\ editGroup \in Nodes \cup {"field", None} /\ revision \in Nat
  /\ version \in Nat /\ clock \in Nat /\ edits \in Own
  /\ calls \in 0..MaxCalls /\ rivals \in 0..MaxRivals
  /\ saving \in {"no", "save", "copy", "delete", "left"}
  /\ (put = None) <=> (saving \in {"no", "left"})
  /\ renamePending \in Pending \cup {None} /\ renameTimer \in {"off", "auto", "plain"}
  /\ renames \in Seq(Pending) /\ renameTask \in Nat /\ Len(renames) <= renameTask
  /\ \A w \in waits : w[1] \in 0..renameTask /\ w[2] \in BOOLEAN \cup {None}
  /\ srv \in [Docs -> Answer \cup {None}]

\* A document shown as saved, under the version the server has, is what the
\* server has stored: whichever saves, renames, undos, copies and lost answers
\* led there, "saved" is never shown for something that is not.
CleanMeansStored ==
  saving # "left" /\ ~Dirty =>
    \A d \in Docs : srv[d] # None /\ srv[d].version = version => srv[d].content = value

\* What the user typed is not changed by answers: neither the end of a save nor
\* that of a rename touches fields and names, whatever was typed since.
UserPart(c) == <<c.body, c.name>>
TypingSurvives ==
  [][(saving = "save" /\ saving' = "no") \/ Len(renames') < Len(renames)
       => UserPart(value') = UserPart(value)]_vars

\* What another window has stored is not overwritten by this editor, which
\* never saw it: by no save, no rename and no deletion.
RivalsSurvive ==
  [][\A d \in Docs : srv[d] # None /\ srv[d].content.body \in Rivals
       => srv'[d] # None /\ srv'[d].content.body \in Rivals]_vars

\* A rename does not stay pending: it is sent, goes along with a save, or fails.
RenamesSettle ==
  renamePending # None \/ renames # <<>> ~> renamePending = None /\ renames = <<>>

=============================================================================
