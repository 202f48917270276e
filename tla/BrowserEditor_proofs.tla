------------------------ MODULE BrowserEditor_proofs ------------------------
(***************************************************************************)
(* Proofs about the browser editor and its server, for any documents,      *)
(* nodes and bounds: types; what is shown as saved is stored; nothing that *)
(* another window stored is overwritten; answers leave what was typed.     *)
(* They rest on one idea: a version that the editor knows, or that is on   *)
(* its way to it, stands for one content of one row, as long as a row has  *)
(* it at all.                                                              *)
(***************************************************************************)
EXTENDS BrowserEditor, SequenceTheorems, TLAPS

-----------------------------------------------------------------------------
(* The inductive invariant                                                 *)

\* Nothing that another window wrote is in the editor.
Mine == [id : Docs \cup {None}, active : BOOLEAN, body : Own,
         name : [Nodes -> Stamps \cup {None}]]
MyAnswer == [content : Mine, version : Nat]
MyPut    == {q \in Put : q.content \in Mine}
MyPatch  == [doc : Docs \cup {None}, version : Nat, node : Nodes, name : Own,
             state : {"sent", "ok", "failed"}, answer : Answer \cup {None}]

DocTyped ==
  /\ value \in Mine /\ saved \in Mine /\ undoStack \in Seq(Mine) /\ redoStack \in Seq(Mine)
  /\ Len(undoStack) + Len(redoStack) <= UndoLimit
  /\ editGroup \in Nodes \cup {"field", None} /\ revision \in Nat /\ edits \in Own

RenTyped ==
  /\ renamePending \in Pending \cup {None} /\ renameTimer \in {"off", "auto", "plain"}
  /\ renames \in Seq(Pending) /\ renameTask \in Nat /\ Len(renames) <= renameTask
  /\ \A w \in waits : w[1] \in 0..renameTask /\ w[2] \in BOOLEAN \cup {None}
  /\ patch # None => Len(renames) >= 1

Whole == {"save", "copy", "delete"}

NetTyped ==
  /\ saving \in Whole \cup {"no", "left"} /\ calls \in 0..MaxCalls /\ version \in Nat
  /\ saving \in Whole => put \in MyPut
  /\ saving \notin Whole => put = None
  /\ patch # None => patch \in MyPatch

SrvTyped ==
  /\ srv \in [Docs -> Answer \cup {None}] /\ clock \in Nat /\ rivals \in 0..MaxRivals
  /\ \A d \in Docs : srv[d] # None => srv[d].version <= clock
  /\ \A d, e \in Docs : srv[d] # None /\ srv[e] # None /\ srv[d].version = srv[e].version => d = e

\* The row that has the version, if any, was not last written by another window.
Seen(v) ==
  /\ v <= clock
  /\ \A d \in Docs : srv[d] # None /\ srv[d].version = v => srv[d].content.body \in Own

\* The row that has the version, if any, has the content.
Stands(v, c) ==
  /\ v <= clock
  /\ \A d \in Docs : srv[d] # None /\ srv[d].version = v => srv[d].content = c

Given(a) == a \in MyAnswer /\ Stands(a.version, a.content)

Baseline == saving # "left" => Stands(version, saved)

PutKnown ==
  saving \in Whole =>
    /\ Seen(put.version)
    /\ put.state = "ok" /\ saving # "delete" => Given(put.answer)

PatchKnown ==
  patch # None => Seen(patch.version) /\ (patch.state = "ok" => Given(patch.answer))

\* A save brings what the document has, unless it was edited since.
PutFits ==
  saving = "save" =>
    /\ put.revision <= revision
    /\ put.revision = revision => UserPart(put.content) = UserPart(value)
    /\ put.state = "ok" => UserPart(put.answer.content) = UserPart(put.content)

Types == DocTyped /\ RenTyped /\ NetTyped /\ SrvTyped
IInv  == Types /\ Baseline /\ PutKnown /\ PatchKnown /\ PutFits

LEMMA Bounds ==
  /\ MaxEdits \in Nat /\ MaxRivals \in Nat /\ MaxRevision \in Nat /\ MaxCalls \in Nat
  /\ Own \subseteq Stamps /\ Stamps \ Rivals = Own /\ Own \cap Rivals = {} /\ 0 \in Own
BY EditorAssumption DEF Own, Stamps, Rivals

LEMMA MineIsContent == Mine \subseteq Content /\ MyAnswer \subseteq Answer
BY Bounds DEF Mine, Content, MyAnswer, Answer

LEMMA TypesMean == Types => TypeOK
<1> SUFFICES ASSUME Types PROVE TypeOK
  OBVIOUS
<1>1. undoStack \in Seq(Content) /\ redoStack \in Seq(Content)
  BY MineIsContent DEF Types, DocTyped
<1>2. (put = None) <=> (saving \in {"no", "left"})
  BY NoneAssumption DEF Types, NetTyped, MyPut, Whole
<1> QED BY <1>1, <1>2, MineIsContent DEF Types, DocTyped, RenTyped, NetTyped, SrvTyped, TypeOK, Whole

-----------------------------------------------------------------------------
(* What becomes of the knowledge when the server's rows change             *)

\* Rows that change get a new version, or are gone.
Onward ==
  /\ clock' \in Nat /\ clock' >= clock
  /\ \A d \in Docs : srv'[d] = srv[d] \/ srv'[d] = None \/ srv'[d].version > clock

LEMMA OnwardKeeps ==
  ASSUME SrvTyped, Onward
  PROVE  /\ \A v \in Nat : Seen(v) => Seen(v)'
         /\ \A v \in Nat : \A c : Stands(v, c) => Stands(v, c)'
<1>1. ASSUME NEW v \in Nat, v <= clock, NEW d \in Docs, srv'[d] # None, srv'[d].version = v
      PROVE  srv'[d] = srv[d]
  BY <1>1 DEF SrvTyped, Onward
<1>2. ASSUME NEW v \in Nat, Seen(v) PROVE Seen(v)'
  BY <1>1, <1>2 DEF Seen, SrvTyped, Onward
<1>3. ASSUME NEW v \in Nat, NEW c, Stands(v, c) PROVE Stands(v, c)'
  BY <1>1, <1>3 DEF Stands, SrvTyped, Onward
<1> QED BY <1>2, <1>3

LEMMA StandsSeen ==
  ASSUME NEW v \in Nat, NEW c \in Mine, Stands(v, c)
  PROVE  Seen(v)
BY DEF Stands, Seen, Mine

LEMMA WriteGives ==
  ASSUME SrvTyped, NEW d \in Docs, NEW c \in Content, Write(d, c)
  PROVE  /\ Onward /\ srv' \in [Docs -> Answer \cup {None}] /\ clock' \in Nat
         /\ \A e \in Docs : srv'[e] # None => srv'[e].version <= clock'
         /\ \A e, f \in Docs : srv'[e] # None /\ srv'[f] # None /\ srv'[e].version = srv'[f].version
                                 => e = f
         /\ \A e \in Docs : e # d => srv'[e] = srv[e]
         /\ \E n \in Answer : /\ srv'[d] = n /\ n # None /\ srv' = [srv EXCEPT ![d] = n]
                              /\ n.content.body = c.body /\ n.content.name = c.name
                              /\ n.content.active = c.active
                              /\ c \in Mine => n \in MyAnswer
                              /\ Stands(n.version, n.content)'
<1>1. /\ [c EXCEPT !.id = d] \in Content /\ (c \in Mine => [c EXCEPT !.id = d] \in Mine)
      /\ [c EXCEPT !.id = d].body = c.body /\ [c EXCEPT !.id = d].name = c.name
      /\ [c EXCEPT !.id = d].active = c.active
  BY DEF Content, Mine
<1> DEFINE w == [c EXCEPT !.id = d]
<1> HIDE DEF w
<1>2. PICK n : n = [content |-> w, version |-> clock + 1]
  OBVIOUS
<1>3. w \in Content /\ (c \in Mine => w \in Mine) /\ w.body = c.body /\ w.name = c.name
       /\ w.active = c.active
  BY <1>1 DEF w
<1>4. n \in Answer /\ n.version = clock + 1 /\ n.content = w /\ (c \in Mine => n \in MyAnswer)
  BY <1>2, <1>3 DEF Answer, MyAnswer, SrvTyped
<1>5. n # None
  BY <1>4, NoneAssumption
<1>6. srv' = [srv EXCEPT ![d] = n] /\ clock' = clock + 1
  BY <1>2 DEF Write, w
<1>7. srv'[d] = n /\ \A e \in Docs : e # d => srv'[e] = srv[e]
  BY <1>6 DEF SrvTyped
<1>8. \A e \in Docs : srv[e] # None => srv[e].version \in Nat /\ srv[e].version <= clock
  BY DEF SrvTyped, Answer
<1>9. clock \in Nat
  BY DEF SrvTyped
<1>10. \A e \in Docs : srv'[e] # None => srv'[e].version <= clock'
  BY <1>4, <1>6, <1>7, <1>8, <1>9
<1>11. \A e, f \in Docs : srv'[e] # None /\ srv'[f] # None /\ srv'[e].version = srv'[f].version => e = f
  BY <1>4, <1>7, <1>8, <1>9 DEF SrvTyped
<1>12. Onward
  BY <1>4, <1>6, <1>7, <1>9 DEF Onward
<1>13. Stands(n.version, n.content)'
  BY <1>4, <1>5, <1>6, <1>7, <1>9, <1>11 DEF Stands
<1>14. srv' \in [Docs -> Answer \cup {None}]
  BY <1>4, <1>6 DEF SrvTyped
<1>15. n.content.body = c.body /\ n.content.name = c.name /\ n.content.active = c.active
  BY <1>3, <1>4
<1>16. \E m \in Answer : /\ srv'[d] = m /\ m # None /\ srv' = [srv EXCEPT ![d] = m]
                         /\ m.content.body = c.body /\ m.content.name = c.name
                         /\ m.content.active = c.active
                         /\ c \in Mine => m \in MyAnswer
                         /\ Stands(m.version, m.content)'
  BY <1>4, <1>5, <1>6, <1>7, <1>13, <1>15, Zenon
<1>17. clock' \in Nat
  BY <1>6, <1>9
<1> QED BY <1>7, <1>10, <1>11, <1>12, <1>14, <1>16, <1>17, Zenon

-----------------------------------------------------------------------------
(* The user's edits                                                        *)

\* The document was edited, and nothing else.
Edited ==
  /\ DocTyped' /\ saved' = saved /\ revision' = revision + 1
  /\ UNCHANGED <<version, renVars, netVars, srvVars>>

LEMMA EditedKeeps ==
  ASSUME IInv, Edited
  PROVE  IInv'
<1>1. RenTyped' /\ NetTyped' /\ SrvTyped'
  BY DEF IInv, Types, Edited, RenTyped, NetTyped, SrvTyped, renVars, netVars, srvVars
<1>2. Baseline' /\ PutKnown' /\ PatchKnown'
  BY DEF IInv, Edited, Baseline, PutKnown, PatchKnown, Stands, Seen, Given, netVars, srvVars
<1>3. PutFits'
  <2>1. saving = "save" => put \in Put
    BY DEF IInv, Types, NetTyped, MyPut, Whole
  <2>2. saving = "save" => put.revision \in Nat /\ revision \in Nat
    BY <2>1 DEF IInv, Types, DocTyped, Put
  <2> QED BY <2>2 DEF IInv, Edited, PutFits, netVars
<1> QED BY <1>1, <1>2, <1>3 DEF IInv, Types, Edited

\* The stack grows by the document of now at most, and keeps the limit.
LEMMA PushedTyped ==
  ASSUME NEW stack \in Seq(Mine), Len(stack) <= UndoLimit, NEW content \in Mine
  PROVE  Pushed(stack, content) \in Seq(Mine) /\ Len(Pushed(stack, content)) <= UndoLimit
<1> DEFINE all == IF stack # <<>> /\ stack[Len(stack)] = content THEN stack
                  ELSE Append(stack, content)
<1>1. Append(stack, content) \in Seq(Mine) /\ Len(Append(stack, content)) = Len(stack) + 1
  BY AppendProperties
<1>2. all \in Seq(Mine) /\ Len(all) <= UndoLimit + 1 /\ Len(all) \in Nat
  BY <1>1, LenProperties, EditorAssumption
<1>3. Pushed(stack, content) = IF Len(all) > UndoLimit THEN Tail(all) ELSE all
  BY DEF Pushed
<1> HIDE DEF all
<1>4. CASE Len(all) > UndoLimit
  <2>1. all # <<>>  BY <1>2, <1>4, EditorAssumption, EmptySeq
  <2>2. Tail(all) \in Seq(Mine) /\ Len(Tail(all)) = Len(all) - 1  BY <1>2, <2>1, HeadTailProperties
  <2> QED BY <1>2, <1>3, <1>4, <2>2, EditorAssumption
<1>5. CASE ~(Len(all) > UndoLimit)
  BY <1>2, <1>3, <1>5, EditorAssumption
<1> QED BY <1>4, <1>5

LEMMA CheckpointTyped ==
  ASSUME DocTyped, NEW group \in Nodes \cup {"field", None}, Checkpoint(group)
  PROVE  /\ undoStack' \in Seq(Mine) /\ redoStack' \in Seq(Mine)
         /\ Len(undoStack') + Len(redoStack') <= UndoLimit
         /\ editGroup' \in Nodes \cup {"field", None} /\ revision' \in Nat
         /\ revision' = revision + 1
<1>1. /\ undoStack \in Seq(Mine) /\ redoStack \in Seq(Mine) /\ value \in Mine
      /\ Len(undoStack) \in Nat /\ Len(redoStack) \in Nat
      /\ Len(undoStack) + Len(redoStack) <= UndoLimit
  BY LenProperties DEF DocTyped
<1>2. revision' = revision + 1 /\ revision' \in Nat
  BY DEF Checkpoint, DocTyped
<1>3. CASE UNCHANGED <<undoStack, redoStack, editGroup>>
  BY <1>1, <1>2, <1>3 DEF DocTyped
<1>4. CASE editGroup' = group /\ redoStack' = <<>> /\ undoStack' = Pushed(undoStack, value)
  <2>1. Len(undoStack) <= UndoLimit  BY <1>1, EditorAssumption
  <2>2. undoStack' \in Seq(Mine) /\ Len(undoStack') <= UndoLimit /\ Len(undoStack') \in Nat
    BY <1>1, <1>4, <2>1, PushedTyped, LenProperties
  <2>3. redoStack' \in Seq(Mine) /\ Len(redoStack') = 0  BY <1>4, EmptySeq
  <2> QED BY <1>2, <1>4, <2>2, <2>3
<1> QED BY <1>3, <1>4 DEF Checkpoint

LEMMA FreshIsOwn ==
  ASSUME DocTyped, Fresh
  PROVE  edits' \in Own /\ edits' \in Stamps
BY Bounds DEF Fresh, DocTyped, Own

\* A stack that is not empty, without its last document.
LEMMA Shortened ==
  ASSUME NEW S, NEW stack \in Seq(S), Len(stack) >= 1
  PROVE  /\ SubSeq(stack, 1, Len(stack) - 1) \in Seq(S)
         /\ Len(SubSeq(stack, 1, Len(stack) - 1)) = Len(stack) - 1
<1> DEFINE N == Len(stack) - 1
<1>1. N \in Nat /\ 1 \in Int /\ N \in Int /\ \A i \in 1..N : stack[i] \in S
  BY LenProperties, ElementOfSeq
<1>2. \A n \in Nat : (IF 1 <= n THEN n - 1 + 1 ELSE 0) = n  OBVIOUS
<1> HIDE DEF N
<1>3. SubSeq(stack, 1, N) \in Seq(S) /\ Len(SubSeq(stack, 1, N)) = N
  <2>1. Len(SubSeq(stack, 1, N)) = IF 1 <= N THEN N - 1 + 1 ELSE 0  BY <1>1, SubSeqProperties
  <2>2. SubSeq(stack, 1, N) \in Seq(S)  BY <1>1, SubSeqProperties
  <2> QED BY <1>1, <1>2, <2>1, <2>2
<1> QED BY <1>3 DEF N

LEMMA EditSteps ==
  ASSUME IInv,
         \/ Type("field") \/ Undo \/ Redo
         \/ \E n \in Nodes : Insert(n) \/ Remove(n)
         \/ \E S \in Imports : Import(S)
  PROVE  Edited
<1>1. DocTyped
  BY DEF IInv, Types
<1>2. \A c \in Mine, n \in Nodes, t \in Stamps \cup {None} : [c EXCEPT !.name[n] = t] \in Mine
  BY DEF Mine
<1>3. ASSUME Type("field") PROVE Edited
  <2>1. Fresh /\ Checkpoint("field") /\ value' = [value EXCEPT !.body = edits']
        /\ UNCHANGED <<saved, version, renVars, netVars, srvVars>>
    BY <1>3 DEF Type
  <2>2. value' \in Mine
    BY <1>1, <2>1, FreshIsOwn DEF DocTyped, Mine
  <2> QED BY <1>1, <2>1, <2>2, CheckpointTyped, FreshIsOwn DEF Edited, DocTyped
<1>4. ASSUME NEW n \in Nodes, Insert(n) PROVE Edited
  <2>1. Fresh /\ Checkpoint(None) /\ value' = [value EXCEPT !.name[n] = edits']
        /\ UNCHANGED <<saved, version, renVars, netVars, srvVars>>
    BY <1>4 DEF Insert
  <2>2. value' \in Mine
    BY <1>1, <1>2, <2>1, FreshIsOwn DEF DocTyped
  <2> QED BY <1>1, <2>1, <2>2, CheckpointTyped, FreshIsOwn DEF Edited, DocTyped
<1>5. ASSUME NEW n \in Nodes, Remove(n) PROVE Edited
  <2>1. Checkpoint(None) /\ value' = [value EXCEPT !.name[n] = None]
        /\ UNCHANGED <<saved, version, renVars, netVars, srvVars, edits>>
    BY <1>5 DEF Remove
  <2>2. value' \in Mine
    BY <1>1, <1>2, <2>1 DEF DocTyped
  <2> QED BY <1>1, <2>1, <2>2, CheckpointTyped DEF Edited, DocTyped
<1>6. ASSUME NEW S \in Imports, Import(S) PROVE Edited
  <2>1. Fresh /\ Checkpoint(None)
        /\ value' = [value EXCEPT !.body = edits',
                                  !.name = [n \in Nodes |-> IF n \in S THEN edits' ELSE None]]
        /\ UNCHANGED <<saved, version, renVars, netVars, srvVars>>
    BY <1>6 DEF Import
  <2>2. edits' \in Own /\ edits' \in Stamps
    BY <1>1, <2>1, FreshIsOwn
  <2>3. [n \in Nodes |-> IF n \in S THEN edits' ELSE None] \in [Nodes -> Stamps \cup {None}]
    BY <2>2
  <2>4. value' \in Mine
    BY <1>1, <2>1, <2>2, <2>3 DEF DocTyped, Mine
  <2> QED BY <1>1, <2>1, <2>2, <2>4, CheckpointTyped DEF Edited, DocTyped
<1>7. ASSUME Undo PROVE Edited
  <2>1. Len(undoStack) \in Nat /\ Len(undoStack) >= 1 /\ undoStack[Len(undoStack)] \in Mine
    BY <1>1, <1>7, EmptySeq, LenProperties, ElementOfSeq DEF DocTyped, Undo
  <2>2. SubSeq(undoStack, 1, Len(undoStack) - 1) \in Seq(Mine)
        /\ Len(SubSeq(undoStack, 1, Len(undoStack) - 1)) = Len(undoStack) - 1
    BY <1>1, <2>1, Shortened DEF DocTyped
  <2>3. Append(redoStack, value) \in Seq(Mine) /\ Len(Append(redoStack, value)) = Len(redoStack) + 1
        /\ Len(redoStack) \in Nat
    BY <1>1, AppendProperties, LenProperties DEF DocTyped
  <2>4. Len(undoStack') = Len(undoStack) - 1 /\ Len(redoStack') = Len(redoStack) + 1
    BY <1>7, <2>2, <2>3 DEF Undo
  <2>5. Len(undoStack') + Len(redoStack') <= UndoLimit
    <3>1. Len(undoStack) + Len(redoStack) <= UndoLimit  BY <1>1 DEF DocTyped
    <3> QED BY <2>1, <2>3, <2>4, <3>1, EditorAssumption
  <2>6. value' \in Mine /\ undoStack' \in Seq(Mine) /\ redoStack' \in Seq(Mine)
    BY <1>7, <2>1, <2>2, <2>3 DEF Undo
  <2>7. /\ saved' = saved /\ editGroup' = editGroup /\ edits' = edits /\ revision' = revision + 1
        /\ UNCHANGED <<version, renVars, netVars, srvVars>>
    BY <1>7 DEF Undo
  <2>8. DocTyped'  BY <1>1, <2>5, <2>6, <2>7 DEF DocTyped
  <2> QED BY <2>7, <2>8 DEF Edited
<1>8. ASSUME Redo PROVE Edited
  <2>1. Len(redoStack) \in Nat /\ Len(redoStack) >= 1 /\ redoStack[Len(redoStack)] \in Mine
    BY <1>1, <1>8, EmptySeq, LenProperties, ElementOfSeq DEF DocTyped, Redo
  <2>2. SubSeq(redoStack, 1, Len(redoStack) - 1) \in Seq(Mine)
        /\ Len(SubSeq(redoStack, 1, Len(redoStack) - 1)) = Len(redoStack) - 1
    BY <1>1, <2>1, Shortened DEF DocTyped
  <2>3. Append(undoStack, value) \in Seq(Mine) /\ Len(Append(undoStack, value)) = Len(undoStack) + 1
        /\ Len(undoStack) \in Nat
    BY <1>1, AppendProperties, LenProperties DEF DocTyped
  <2>4. Len(redoStack') = Len(redoStack) - 1 /\ Len(undoStack') = Len(undoStack) + 1
    BY <1>8, <2>2, <2>3 DEF Redo
  <2>5. Len(undoStack') + Len(redoStack') <= UndoLimit
    <3>1. Len(undoStack) + Len(redoStack) <= UndoLimit  BY <1>1 DEF DocTyped
    <3> QED BY <2>1, <2>3, <2>4, <3>1, EditorAssumption
  <2>6. value' \in Mine /\ undoStack' \in Seq(Mine) /\ redoStack' \in Seq(Mine)
    BY <1>8, <2>1, <2>2, <2>3 DEF Redo
  <2>7. /\ saved' = saved /\ editGroup' = editGroup /\ edits' = edits /\ revision' = revision + 1
        /\ UNCHANGED <<version, renVars, netVars, srvVars>>
    BY <1>8 DEF Redo
  <2>8. DocTyped'  BY <1>1, <2>5, <2>6, <2>7 DEF DocTyped
  <2> QED BY <2>7, <2>8 DEF Edited
<1> QED BY <1>3, <1>4, <1>5, <1>6, <1>7, <1>8

-----------------------------------------------------------------------------
(* Requests that begin                                                     *)

\* At most a save begins, with what the document has now.
MaySave ==
  \/ UNCHANGED <<saving, put>>
  \/ /\ saving = "no" /\ saving' = "save" /\ put' \in MyPut
     /\ put'.version = version /\ put'.state = "sent"
     /\ put'.revision = revision /\ UserPart(put'.content) = UserPart(value)

LEMMA SentGives ==
  ASSUME IInv, saving = "no", NEW kind \in Whole, NEW c \in Mine, Send(kind, c)
  PROVE  /\ saving' = kind /\ put' \in MyPut /\ put'.content = c /\ put'.version = version
         /\ put'.state = "sent" /\ put'.revision = revision
<1>1. value.id \in Docs \cup {None} /\ version \in Nat /\ revision \in Nat /\ c \in Content
  BY MineIsContent DEF IInv, Types, DocTyped, NetTyped, Mine
<1>2. [doc |-> value.id, content |-> c, version |-> version, revision |-> revision,
       state |-> "sent", answer |-> None] \in MyPut
  BY <1>1 DEF MyPut, Put
<1> QED BY <1>2 DEF Send

LEMMA SendSaveGives ==
  ASSUME IInv, saving = "no", NEW active \in BOOLEAN \cup {None}, SendSave(active)
  PROVE  MaySave
<1> DEFINE c == IF active = None THEN value ELSE [value EXCEPT !.active = active]
<1>1. c \in Mine /\ UserPart(c) = UserPart(value)
  BY DEF IInv, Types, DocTyped, Mine, UserPart
<1>2. Send("save", c)
  BY DEF SendSave
<1> HIDE DEF c
<1> QED BY <1>1, <1>2, SentGives DEF MaySave, Whole

LEMMA MaySaveKeeps ==
  ASSUME IInv, MaySave, DocTyped', calls' \in 0..MaxCalls,
         UNCHANGED <<version, saved, patch, srvVars>>,
         \/ revision' = revision /\ value' = value
         \/ revision' = revision + 1
  PROVE  NetTyped' /\ SrvTyped' /\ Baseline' /\ PutKnown' /\ PatchKnown' /\ PutFits'
<1>1. SrvTyped'
  BY DEF IInv, Types, SrvTyped, srvVars
<1>2. NetTyped'
  BY DEF IInv, Types, NetTyped, MaySave, Whole
<1>3. Baseline'
  BY DEF IInv, Baseline, Stands, MaySave, srvVars
<1>4. PatchKnown'
  BY DEF IInv, PatchKnown, Seen, Given, Stands, srvVars
<1>5. PutKnown' /\ PutFits'
  <2>1. CASE UNCHANGED <<saving, put>>
    <3>1. PutKnown'
      BY <2>1 DEF IInv, PutKnown, Seen, Given, Stands, srvVars
    <3>2. saving = "save" => put.revision \in Nat /\ revision \in Nat
      BY DEF IInv, Types, DocTyped, NetTyped, MyPut, Put, Whole
    <3> QED BY <2>1, <3>1, <3>2 DEF IInv, PutFits
  <2>2. CASE /\ saving = "no" /\ saving' = "save" /\ put' \in MyPut
             /\ put'.version = version /\ put'.state = "sent"
             /\ put'.revision = revision /\ UserPart(put'.content) = UserPart(value)
    <3>1. Seen(version)
      BY <2>2, StandsSeen DEF IInv, Types, DocTyped, NetTyped, Baseline
    <3>2. Seen(put'.version)
      BY <2>2, <3>1
    <3>3. PutKnown'
      BY <2>2, <3>2 DEF PutKnown, Seen, srvVars
    <3>4. revision \in Nat
      BY DEF IInv, Types, DocTyped
    <3>5. PutFits'
      BY <2>2, <3>4 DEF PutFits
    <3> QED BY <3>3, <3>5
  <2> QED BY <2>1, <2>2 DEF MaySave
<1> QED BY <1>1, <1>2, <1>3, <1>4, <1>5

-----------------------------------------------------------------------------
(* The chain of renames                                                    *)

\* The chain grows, or stays; saves may wait for it.
Grows ==
  /\ renames' \in Seq(Pending) /\ renameTask' \in Nat
  /\ Len(renames') <= renameTask' /\ Len(renames') >= Len(renames)
  /\ \A w \in waits' : w[1] \in 0..renameTask' /\ w[2] \in BOOLEAN \cup {None}

LEMMA ChainGives ==
  ASSUME RenTyped, renamePending \in Pending, Chain
  PROVE  /\ renames' \in Seq(Pending) /\ renameTask' = renameTask + 1 /\ renameTask' \in Nat
         /\ Len(renames') = Len(renames) + 1 /\ Len(renames') <= renameTask'
         /\ Len(renames) \in Nat
<1>1. renames \in Seq(Pending) /\ renameTask \in Nat /\ Len(renames) <= renameTask
  BY DEF RenTyped
<1>2. Len(renames) \in Nat
  BY <1>1, LenProperties
<1>3. renames' \in Seq(Pending) /\ Len(renames') = Len(renames) + 1
  BY <1>1, AppendProperties DEF Chain
<1> QED BY <1>1, <1>2, <1>3 DEF Chain

LEMMA StartSaveGives ==
  ASSUME IInv, saving = "no", NEW active \in BOOLEAN \cup {None}, StartSave(active)
  PROVE  /\ MaySave
         /\ \A w \in waits' : w[1] \in 0..renameTask /\ w[2] \in BOOLEAN \cup {None}
<1>1. RenTyped
  BY DEF IInv, Types
<1>2. CASE renames # <<>>
  BY <1>1, <1>2 DEF StartSave, MaySave, RenTyped
<1>3. CASE renames = <<>>
  BY <1>1, <1>3, SendSaveGives DEF StartSave, RenTyped
<1> QED BY <1>2, <1>3

LEMMA FlushedGives ==
  ASSUME IInv, saving = "no", NEW auto, Flushed(auto)
  PROVE  MaySave /\ Grows
<1>1. RenTyped
  BY DEF IInv, Types
<1>2. Len(renames) \in Nat
  BY <1>1, LenProperties DEF RenTyped
<1>3. CASE UNCHANGED <<renames, renameTask, saving, put, waits>>
  BY <1>1, <1>2, <1>3 DEF MaySave, Grows, RenTyped
<1>4. CASE renamePending \in Pending /\ Chain /\ UNCHANGED <<saving, put, waits>>
  BY <1>1, <1>4, ChainGives DEF MaySave, Grows, RenTyped
<1>5. CASE UNCHANGED <<renames, renameTask>> /\ StartSave(None)
  BY <1>1, <1>2, <1>5, StartSaveGives DEF Grows, RenTyped
<1> QED BY <1>1, <1>3, <1>4, <1>5 DEF Flushed, RenTyped

-----------------------------------------------------------------------------
(* What the user and the page do, but for answers                          *)

\* Requests may begin and renames be chained; the document stays.
LEMMA AskSteps ==
  ASSUME IInv,
         \/ \E active \in {None, TRUE} : Save(active)
         \/ \E w \in waits : SaveGoesOn(w)
         \/ \E auto \in BOOLEAN : Flush(auto)
  PROVE  IInv' /\ Len(renames') >= Len(renames) /\ (saving = "save" => saving' = "save")
         /\ UNCHANGED srvVars
<1>1. RenTyped /\ DocTyped /\ NetTyped /\ Len(renames) \in Nat
  BY LenProperties DEF IInv, Types, RenTyped
<1>2. ASSUME MaySave, Grows, UNCHANGED <<docVars, edits, version, patch, srvVars>>,
             calls' \in 0..MaxCalls, renamePending' \in Pending \cup {None},
             renameTimer' \in {"off", "auto", "plain"}
      PROVE  /\ IInv' /\ Len(renames') >= Len(renames) /\ (saving = "save" => saving' = "save")
             /\ UNCHANGED srvVars
  <2>1. DocTyped'
    BY <1>1, <1>2 DEF DocTyped, docVars
  <2>2. UNCHANGED saved /\ revision' = revision /\ value' = value
    BY <1>2 DEF docVars
  <2>3. NetTyped' /\ SrvTyped' /\ Baseline' /\ PutKnown' /\ PatchKnown' /\ PutFits'
    BY <1>2, <2>1, <2>2, MaySaveKeeps
  <2>4. RenTyped'
    BY <1>1, <1>2, LenProperties DEF Grows, RenTyped
  <2> QED BY <1>2, <2>1, <2>3, <2>4 DEF IInv, Types, Grows, MaySave
<1>3. ASSUME NEW active \in {None, TRUE}, Save(active)
      PROVE  /\ IInv' /\ Len(renames') >= Len(renames) /\ (saving = "save" => saving' = "save")
             /\ UNCHANGED srvVars
  <2>1. /\ saving = "no" /\ calls' \in 0..MaxCalls
        /\ UNCHANGED <<docVars, version, patch, srvVars, edits>>
    BY <1>1, <1>3, Bounds DEF Save, Asked, NetTyped
  <2>2. CASE renamePending = None
    <3>1. StartSave(active) /\ UNCHANGED renVars
      BY <1>3, <2>2 DEF Save
    <3>2. active \in BOOLEAN \cup {None}
      BY <1>3
    <3>3. /\ MaySave
          /\ \A w \in waits' : w[1] \in 0..renameTask /\ w[2] \in BOOLEAN \cup {None}
      BY <2>1, <3>1, <3>2, StartSaveGives
    <3>4. Grows
      BY <1>1, <3>1, <3>3 DEF Grows, RenTyped, renVars
    <3> QED BY <1>1, <1>2, <2>1, <3>1, <3>3, <3>4 DEF RenTyped, renVars
  <2>3. CASE renamePending # None
    <3>1. /\ renameTimer' = "off" /\ renamePending' = None /\ UNCHANGED <<saving, put>>
          /\ Chain \/ UNCHANGED <<renames, renameTask>>
          /\ waits' = waits \cup {<<renameTask', active>>}
      BY <1>3, <2>3 DEF Save
    <3>2. renamePending \in Pending
      BY <1>1, <2>3 DEF RenTyped
    <3>3. /\ renames' \in Seq(Pending) /\ renameTask' \in Nat /\ renameTask' >= renameTask
          /\ Len(renames') <= renameTask' /\ Len(renames') >= Len(renames)
      BY <1>1, <3>1, <3>2, ChainGives DEF RenTyped
    <3>4. \A w \in waits' : w[1] \in 0..renameTask' /\ w[2] \in BOOLEAN \cup {None}
      <4>1. \A w \in waits : w[1] \in 0..renameTask' /\ w[2] \in BOOLEAN \cup {None}
        BY <1>1, <3>3 DEF RenTyped
      <4>2. renameTask' \in 0..renameTask'
        BY <3>3
      <4>3. active \in BOOLEAN \cup {None}
        BY <1>3
      <4> QED BY <3>1, <4>1, <4>2, <4>3
    <3>5. MaySave /\ Grows
      BY <3>1, <3>3, <3>4 DEF MaySave, Grows
    <3> QED BY <1>2, <2>1, <3>1, <3>5
  <2> QED BY <2>2, <2>3
<1>4. ASSUME NEW w \in waits, SaveGoesOn(w)
      PROVE  /\ IInv' /\ Len(renames') >= Len(renames) /\ (saving = "save" => saving' = "save")
             /\ UNCHANGED srvVars
  <2>1. w[2] \in BOOLEAN \cup {None}
    BY <1>1 DEF RenTyped
  <2>2. /\ waits' = waits \ {w} /\ UNCHANGED <<docVars, version, renVars, patch, calls, srvVars, edits>>
        /\ (saving # "no" /\ UNCHANGED <<saving, put>>) \/ (saving = "no" /\ SendSave(w[2]))
    BY <1>4 DEF SaveGoesOn
  <2>3. MaySave
    BY <2>1, <2>2, SendSaveGives DEF MaySave
  <2>4. Grows
    BY <1>1, <2>2 DEF Grows, RenTyped, renVars
  <2> QED BY <1>1, <1>2, <2>2, <2>3, <2>4 DEF RenTyped, NetTyped, renVars
<1>5. ASSUME NEW auto \in BOOLEAN, Flush(auto)
      PROVE  /\ IInv' /\ Len(renames') >= Len(renames) /\ (saving = "save" => saving' = "save")
             /\ UNCHANGED srvVars
  <2>1. /\ UNCHANGED <<docVars, version, patch, calls, srvVars, edits>>
        /\ \/ saving = "no" /\ Flushed(auto) /\ renamePending' = None
           \/ UNCHANGED <<renamePending, renames, renameTask, saving, put, waits>>
        /\ renameTimer' \in {"off", "auto", "plain"}
    BY <1>5 DEF Flush
  <2>2. MaySave /\ Grows
    BY <1>1, <2>1, FlushedGives DEF MaySave, Grows, RenTyped
  <2> QED BY <1>1, <1>2, <2>1, <2>2 DEF RenTyped, NetTyped
<1> QED BY <1>3, <1>4, <1>5

LEMMA RenameSteps ==
  ASSUME IInv, NEW n \in Nodes, Rename(n)
  PROVE  IInv' /\ Len(renames') >= Len(renames) /\ (saving = "save" => saving' = "save")
         /\ UNCHANGED srvVars
<1>1. RenTyped /\ DocTyped /\ NetTyped /\ Len(renames) \in Nat
  BY LenProperties DEF IInv, Types, RenTyped
<1>2. /\ Fresh /\ Checkpoint(n) /\ value' = [value EXCEPT !.name[n] = edits']
      /\ UNCHANGED <<saved, version, patch, calls, srvVars>>
      /\ renamePending' = [node |-> n, name |-> edits'] /\ renameTimer' = "auto"
      /\ \/ saving = "no" /\ Flushed(TRUE)
         \/ UNCHANGED <<renames, renameTask, saving, put, waits>>
  BY DEF Rename
<1>3. edits' \in Own /\ edits' \in Stamps
  BY <1>1, <1>2, FreshIsOwn
<1>4. value' \in Mine
  BY <1>1, <1>2, <1>3 DEF DocTyped, Mine
<1>5. DocTyped' /\ revision' = revision + 1
  BY <1>1, <1>2, <1>3, <1>4, CheckpointTyped DEF DocTyped
<1>6. MaySave /\ Grows
  <2>1. CASE saving = "no" /\ Flushed(TRUE)
    BY <2>1, FlushedGives
  <2>2. CASE UNCHANGED <<renames, renameTask, saving, put, waits>>
    BY <1>1, <2>2 DEF MaySave, Grows, RenTyped
  <2> QED BY <1>2, <2>1, <2>2
<1>7. RenTyped'
  <2>1. renamePending' \in Pending
    BY <1>2, <1>3 DEF Pending
  <2> QED BY <1>1, <1>2, <1>6, <2>1, LenProperties DEF Grows, RenTyped
<1>8. calls' \in 0..MaxCalls
  BY <1>1, <1>2 DEF NetTyped
<1>9. NetTyped' /\ SrvTyped' /\ Baseline' /\ PutKnown' /\ PatchKnown' /\ PutFits'
  BY <1>2, <1>5, <1>6, <1>8, MaySaveKeeps
<1> QED BY <1>2, <1>5, <1>6, <1>7, <1>9 DEF IInv, Types, Grows, MaySave

\* A copy or a deletion is asked for.
LEMMA CopySteps ==
  ASSUME IInv, Duplicate \/ Delete
  PROVE  /\ IInv' /\ Len(renames') >= Len(renames) /\ (saving = "save" => saving' = "save")
         /\ UNCHANGED srvVars
<1>1. RenTyped /\ DocTyped /\ NetTyped /\ SrvTyped /\ Len(renames) \in Nat
  BY LenProperties DEF IInv, Types, RenTyped
<1>2. PICK kind \in {"copy", "delete"} :
        /\ saving = "no" /\ calls' \in 0..MaxCalls /\ Send(kind, value)
        /\ UNCHANGED <<docVars, version, renVars, waits, patch, srvVars, edits>>
  BY <1>1, Bounds DEF Duplicate, Delete, Asked, NetTyped
<1>3. saving' = kind /\ put' \in MyPut /\ put'.version = version /\ put'.state = "sent"
  BY <1>1, <1>2, SentGives DEF DocTyped, Whole
<1>4. DocTyped' /\ RenTyped' /\ SrvTyped'
  BY <1>1, <1>2 DEF DocTyped, RenTyped, SrvTyped, docVars, renVars, srvVars
<1>5. NetTyped'
  BY <1>1, <1>2, <1>3 DEF NetTyped, Whole
<1>6. Baseline' /\ PatchKnown'
  BY <1>2, <1>3 DEF IInv, Baseline, PatchKnown, Seen, Given, Stands, docVars, srvVars
<1>7. Seen(version)
  BY <1>1, <1>2, StandsSeen DEF IInv, DocTyped, NetTyped, Baseline
<1>8. PutKnown' /\ PutFits'
  BY <1>2, <1>3, <1>7 DEF PutKnown, PutFits, Seen, srvVars
<1> QED BY <1>1, <1>2, <1>4, <1>5, <1>6, <1>8 DEF IInv, Types, renVars

-----------------------------------------------------------------------------
(* Answers                                                                 *)

LEMMA AnswerSteps ==
  ASSUME IInv, SaveAnswered \/ CopyAnswered \/ CallFailed
  PROVE  /\ IInv' /\ Len(renames') >= Len(renames) /\ UNCHANGED srvVars
         /\ saving = "save" => UserPart(value') = UserPart(value)
<1>1. RenTyped /\ DocTyped /\ NetTyped /\ SrvTyped /\ Len(renames) \in Nat
  BY LenProperties DEF IInv, Types, RenTyped
<1>2. /\ saving' = "no" /\ put' = None /\ saving \in Whole
      /\ UNCHANGED <<renVars, waits, patch, calls, srvVars, edits>>
  BY <1>1 DEF SaveAnswered, CopyAnswered, CallFailed, NetTyped, Whole, Open
<1>3. RenTyped' /\ SrvTyped' /\ PatchKnown' /\ PutKnown' /\ PutFits'
  BY <1>1, <1>2 DEF IInv, RenTyped, SrvTyped, PatchKnown, PutKnown, PutFits, Seen, Given, Stands,
                    renVars, srvVars, Whole
<1>4. ASSUME CallFailed
      PROVE  DocTyped' /\ NetTyped' /\ Baseline' /\ UserPart(value') = UserPart(value)
  <2>1. UNCHANGED <<docVars, version>> /\ saving # "left"
    BY <1>2, <1>4 DEF CallFailed, Whole
  <2> QED BY <1>1, <1>2, <2>1 DEF IInv, DocTyped, NetTyped, Baseline, Stands, docVars, srvVars, Whole
<1>5. ASSUME SaveAnswered
      PROVE  DocTyped' /\ NetTyped' /\ Baseline' /\ UserPart(value') = UserPart(value)
  <2>1. /\ saving = "save" /\ put.state = "ok"
        /\ version' = put.answer.version /\ saved' = put.answer.content
        /\ \/ revision = put.revision /\ value' = put.answer.content
           \/ value' = [value EXCEPT !.id = put.answer.content.id,
                                     !.active = put.answer.content.active]
        /\ UNCHANGED <<undoStack, redoStack, editGroup, revision, edits>>
    BY <1>5 DEF SaveAnswered
  <2>2. put.answer \in MyAnswer /\ Stands(put.answer.version, put.answer.content)
    BY <2>1 DEF IInv, PutKnown, Given, Whole
  <2>3. put.answer.content \in Mine /\ put.answer.version \in Nat
    BY <2>2 DEF MyAnswer
  <2>4. UserPart(put.answer.content) = UserPart(put.content)
        /\ (put.revision = revision => UserPart(put.content) = UserPart(value))
    BY <2>1 DEF IInv, PutFits
  <2>5. value' \in Mine /\ UserPart(value') = UserPart(value)
    <3>1. CASE revision = put.revision /\ value' = put.answer.content
      BY <2>3, <2>4, <3>1
    <3>2. CASE value' = [value EXCEPT !.id = put.answer.content.id,
                                      !.active = put.answer.content.active]
      BY <1>1, <2>3, <3>2 DEF DocTyped, Mine, UserPart
    <3> QED BY <2>1, <3>1, <3>2
  <2>6. DocTyped'
    BY <1>1, <2>1, <2>3, <2>5 DEF DocTyped
  <2>7. NetTyped'
    BY <1>1, <1>2, <2>1, <2>3 DEF NetTyped, Whole
  <2>8. Baseline'
    BY <1>2, <2>1, <2>2 DEF Baseline, Stands, srvVars
  <2> QED BY <2>5, <2>6, <2>7, <2>8
<1>6. ASSUME CopyAnswered PROVE DocTyped' /\ NetTyped' /\ Baseline' /\ saving = "copy"
  <2>1. /\ saving = "copy" /\ put.state = "ok"
        /\ version' = put.answer.version /\ saved' = put.answer.content
        /\ value' = put.answer.content /\ UNCHANGED edits
        /\ undoStack' = <<>> /\ redoStack' = <<>> /\ editGroup' = None /\ revision' = 0
    BY <1>6 DEF CopyAnswered, NewMachine
  <2>2. put.answer \in MyAnswer /\ Stands(put.answer.version, put.answer.content)
    BY <2>1 DEF IInv, PutKnown, Given, Whole
  <2>3. put.answer.content \in Mine /\ put.answer.version \in Nat
    BY <2>2 DEF MyAnswer
  <2>4. <<>> \in Seq(Mine) /\ Len(<<>>) = 0 /\ 0 + 0 <= UndoLimit
    BY EmptySeq, EditorAssumption
  <2>5. DocTyped'
    BY <1>1, <2>1, <2>3, <2>4 DEF DocTyped
  <2>6. NetTyped'
    BY <1>1, <1>2, <2>1, <2>3 DEF NetTyped, Whole
  <2>7. Baseline'
    BY <1>2, <2>1, <2>2 DEF Baseline, Stands, srvVars
  <2> QED BY <2>1, <2>5, <2>6, <2>7
<1>7. DocTyped' /\ NetTyped' /\ Baseline'
  BY <1>4, <1>5, <1>6
<1>8. saving = "save" => UserPart(value') = UserPart(value)
  BY <1>4, <1>5, <1>6
<1> QED BY <1>1, <1>2, <1>3, <1>7, <1>8 DEF IInv, Types, renVars

LEMMA LeaveStep ==
  ASSUME IInv, DeleteAnswered
  PROVE  /\ IInv' /\ UNCHANGED srvVars /\ UNCHANGED value /\ saving = "delete"
<1>1. RenTyped /\ DocTyped /\ NetTyped /\ SrvTyped
  BY DEF IInv, Types
<1>2. <<>> \in Seq(Pending) /\ Len(<<>>) = 0
  BY EmptySeq
<1>3. DocTyped' /\ NetTyped' /\ SrvTyped'
  BY <1>1 DEF DeleteAnswered, DocTyped, NetTyped, SrvTyped, srvVars, Whole
<1>4. RenTyped'
  BY <1>1, <1>2 DEF DeleteAnswered, RenTyped
<1>5. Baseline' /\ PutKnown' /\ PatchKnown' /\ PutFits'
  BY DEF DeleteAnswered, Baseline, PutKnown, PatchKnown, PutFits, Whole
<1> QED BY <1>3, <1>4, <1>5 DEF DeleteAnswered, IInv, Types

LEMMA RenameSendStep ==
  ASSUME IInv, RenameSend
  PROVE  /\ IInv' /\ Len(renames') >= Len(renames) /\ (saving = "save" => saving' = "save")
         /\ UNCHANGED srvVars
<1>1. RenTyped /\ DocTyped /\ NetTyped /\ SrvTyped /\ Len(renames) \in Nat
  BY LenProperties DEF IInv, Types, RenTyped
<1>2. /\ saving # "left" /\ renames # <<>>
      /\ UNCHANGED <<docVars, version, renVars, saving, waits, put, calls, srvVars, edits>>
  BY DEF RenameSend
<1>3. Head(renames) \in Pending /\ Len(renames) >= 1
  BY <1>1, <1>2, HeadTailProperties, EmptySeq DEF RenTyped
<1>4. Seen(version)
  BY <1>1, <1>2, StandsSeen DEF IInv, DocTyped, NetTyped, Baseline
<1>5. patch' \in MyPatch /\ patch'.version = version /\ patch'.state = "sent"
  BY <1>1, <1>3 DEF RenameSend, DocTyped, NetTyped, Mine, Pending, MyPatch
<1>6. DocTyped' /\ RenTyped' /\ NetTyped' /\ SrvTyped'
  BY <1>1, <1>2, <1>3, <1>5 DEF DocTyped, RenTyped, NetTyped, SrvTyped, docVars, renVars, srvVars
<1>7. Baseline' /\ PutKnown' /\ PutFits'
  BY <1>2 DEF IInv, Baseline, PutKnown, PutFits, Seen, Given, Stands, docVars, srvVars
<1>8. PatchKnown'
  BY <1>2, <1>4, <1>5 DEF PatchKnown, Seen, srvVars
<1> QED BY <1>1, <1>2, <1>6, <1>7, <1>8 DEF IInv, Types, renVars

LEMMA RenameEndSteps ==
  ASSUME IInv, RenameAnswered \/ RenameFailed
  PROVE  IInv' /\ UNCHANGED <<srvVars, value, saving>>
<1>1. RenTyped /\ DocTyped /\ NetTyped /\ SrvTyped /\ Len(renames) \in Nat
  BY LenProperties DEF IInv, Types, RenTyped
<1>2. /\ patch # None /\ saving # "left" /\ renames' = Tail(renames) /\ patch' = None
      /\ UNCHANGED <<value, undoStack, redoStack, editGroup, revision, renamePending, renameTimer,
                     renameTask, saving, waits, put, calls, srvVars, edits>>
  BY DEF RenameAnswered, RenameFailed, RenameEnds, Open
<1>3. Tail(renames) \in Seq(Pending) /\ Len(Tail(renames)) = Len(renames) - 1
  BY <1>1, <1>2, HeadTailProperties, EmptySeq DEF RenTyped
<1>4. RenTyped' /\ SrvTyped'
  BY <1>1, <1>2, <1>3 DEF RenTyped, SrvTyped, srvVars
<1>5. saved' \in Mine /\ version' \in Nat /\ Stands(version', saved')
  <2>1. CASE RenameAnswered
    <3>1. Given(patch.answer) /\ version' = patch.answer.version /\ saved' = patch.answer.content
      BY <1>2, <2>1 DEF IInv, PatchKnown, RenameAnswered
    <3> QED BY <3>1 DEF Given, MyAnswer
  <2>2. CASE RenameFailed
    BY <1>1, <1>2, <2>2 DEF IInv, Baseline, RenameFailed, DocTyped, NetTyped
  <2> QED BY <2>1, <2>2
<1>6. DocTyped' /\ NetTyped'
  BY <1>1, <1>2, <1>5 DEF DocTyped, NetTyped
<1>7. Baseline'
  BY <1>2, <1>5 DEF Baseline, Stands, srvVars
<1>8. PutKnown' /\ PutFits' /\ PatchKnown'
  BY <1>2 DEF IInv, PutKnown, PutFits, PatchKnown, Seen, Given, Stands, srvVars
<1> QED BY <1>2, <1>4, <1>6, <1>7, <1>8 DEF IInv, Types

-----------------------------------------------------------------------------
(* The server and the other windows                                        *)

KeepsRivals ==
  \A d \in Docs : srv[d] # None /\ srv[d].content.body \in Rivals
    => srv'[d] # None /\ srv'[d].content.body \in Rivals

\* What the server may do to the requests: an answer it gives is known.
PutMoves ==
  \/ put' = put
  \/ /\ saving \in Whole /\ put' \in MyPut
     /\ put'.content = put.content /\ put'.version = put.version /\ put'.revision = put.revision
     /\ put'.state = "ok" /\ saving # "delete" => Given(put.answer)'
     /\ put'.state = "ok" /\ saving = "save"
          => UserPart(put'.answer.content) = UserPart(put.content)

PatchMoves ==
  \/ patch' = patch
  \/ /\ patch # None /\ patch' \in MyPatch /\ patch'.version = patch.version
     /\ patch'.state = "ok" => Given(patch.answer)'

\* Seen and Stands after a step, of what is known before it.
SeenThen(v) ==
  /\ v <= clock'
  /\ \A d \in Docs : srv'[d] # None /\ srv'[d].version = v => srv'[d].content.body \in Own
StandsThen(v, c) ==
  /\ v <= clock'
  /\ \A d \in Docs : srv'[d] # None /\ srv'[d].version = v => srv'[d].content = c

LEMMA ServerKeeps ==
  ASSUME IInv, SrvTyped', Onward, PutMoves, PatchMoves,
         UNCHANGED <<docVars, version, renVars, saving, waits, calls, edits>>
  PROVE  IInv'
<1>1. RenTyped /\ DocTyped /\ NetTyped /\ SrvTyped
  BY DEF IInv, Types
<1>2. DocTyped' /\ RenTyped'
  <2>1. DocTyped'
    BY <1>1 DEF DocTyped, docVars
  <2>2. patch' # None => patch # None
    BY DEF PatchMoves
  <2> QED BY <1>1, <2>1, <2>2 DEF RenTyped, renVars
<1>3. NetTyped'
  BY <1>1, NoneAssumption DEF NetTyped, PutMoves, PatchMoves
<1>4. /\ \A v \in Nat : Seen(v) => SeenThen(v)
      /\ \A v \in Nat : \A c : Stands(v, c) => StandsThen(v, c)
  <2>1. /\ \A v \in Nat : Seen(v) => Seen(v)'
        /\ \A v \in Nat : \A c : Stands(v, c) => Stands(v, c)'
    BY <1>1, OnwardKeeps
  <2> QED BY <2>1 DEF Seen, Stands, SeenThen, StandsThen
<1>5. Baseline'
  <2>1. saving # "left" => StandsThen(version, saved)
    BY <1>1, <1>4 DEF IInv, Baseline, NetTyped
  <2>2. version' = version /\ saved' = saved /\ saving' = saving
    BY DEF docVars
  <2> QED BY <2>1, <2>2 DEF Baseline, Stands, StandsThen
<1>6. ASSUME NEW a, Given(a) PROVE a \in MyAnswer /\ StandsThen(a.version, a.content)
  BY <1>4, <1>6 DEF Given, MyAnswer
<1>7. PutKnown'
  <2>1. saving \in Whole => SeenThen(put.version)
    <3>1. saving \in Whole => put \in MyPut /\ Seen(put.version)
      BY <1>1 DEF NetTyped, IInv, PutKnown
    <3>2. saving \in Whole => put.version \in Nat
      BY <3>1 DEF MyPut, Put
    <3> QED BY <1>4, <3>1, <3>2
  <2>2. CASE put' = put
    <3>1. saving \in Whole /\ put.state = "ok" /\ saving # "delete"
            => put.answer \in MyAnswer /\ StandsThen(put.answer.version, put.answer.content)
      BY <1>6 DEF IInv, PutKnown
    <3> QED BY <2>1, <2>2, <3>1 DEF PutKnown, Seen, Given, Stands, SeenThen, StandsThen
  <2>3. CASE /\ saving \in Whole /\ put'.version = put.version
             /\ put'.state = "ok" /\ saving # "delete" => Given(put.answer)'
    <3>1. Seen(put.version)'
      BY <2>1, <2>3 DEF Seen, SeenThen
    <3> QED BY <2>3, <3>1 DEF PutKnown
  <2> QED BY <2>2, <2>3 DEF PutMoves
<1>8. PatchKnown'
  <2>1. patch # None => SeenThen(patch.version)
    <3>1. patch # None => patch \in MyPatch /\ Seen(patch.version)
      BY <1>1 DEF NetTyped, IInv, PatchKnown
    <3>2. patch # None => patch.version \in Nat
      BY <3>1 DEF MyPatch
    <3> QED BY <1>4, <3>1, <3>2
  <2>2. CASE patch' = patch
    <3>1. patch # None /\ patch.state = "ok"
            => patch.answer \in MyAnswer /\ StandsThen(patch.answer.version, patch.answer.content)
      BY <1>6 DEF IInv, PatchKnown
    <3> QED BY <2>1, <2>2, <3>1 DEF PatchKnown, Seen, Given, Stands, SeenThen, StandsThen
  <2>3. CASE /\ patch # None /\ patch'.version = patch.version
             /\ patch'.state = "ok" => Given(patch.answer)'
    <3>1. Seen(patch.version)'
      BY <2>1, <2>3 DEF Seen, SeenThen
    <3> QED BY <2>3, <3>1 DEF PatchKnown
  <2> QED BY <2>2, <2>3 DEF PatchMoves
<1>9. PutFits'
  <2>1. revision' = revision /\ value' = value /\ saving' = saving
    BY DEF docVars
  <2>2. CASE put' = put
    BY <2>1, <2>2 DEF IInv, PutFits
  <2>3. CASE /\ put'.content = put.content /\ put'.revision = put.revision
             /\ put'.state = "ok" /\ saving = "save"
                  => UserPart(put'.answer.content) = UserPart(put.content)
    BY <2>1, <2>3 DEF IInv, PutFits
  <2> QED BY <2>2, <2>3 DEF PutMoves
<1> QED BY <1>2, <1>3, <1>5, <1>7, <1>8, <1>9 DEF IInv, Types

\* A row whose version the editor knows was not written by another window.
LEMMA CurrentIsMine ==
  ASSUME SrvTyped, NEW d \in Docs, NEW v \in Nat, Seen(v), srv[d] # None, srv[d].version = v
  PROVE  srv[d].content \in Mine /\ srv[d] \in MyAnswer /\ srv[d].content.body \notin Rivals
<1>1. srv[d].content.body \in Own
  BY DEF Seen
<1>2. srv[d] \in Answer
  BY DEF SrvTyped
<1>3. srv[d].content \in Mine
  BY <1>1, <1>2 DEF Answer, Content, Mine
<1>4. srv[d] \in MyAnswer
  BY <1>2, <1>3 DEF Answer, MyAnswer
<1> QED BY <1>1, <1>3, <1>4, Bounds

LEMMA RowStands ==
  ASSUME SrvTyped, NEW d \in Docs, srv[d] # None
  PROVE  Stands(srv[d].version, srv[d].content)
BY DEF SrvTyped, Stands, Answer

\* A row that the editor knows, or a free one, gets a content of the editor.
LEMMA MineWritten ==
  ASSUME SrvTyped, NEW d \in Docs, NEW v \in Nat, Seen(v),
         srv[d] # None => srv[d].version = v,
         NEW c \in Mine, Write(d, c), UNCHANGED rivals
  PROVE  /\ Onward /\ SrvTyped' /\ KeepsRivals
         /\ \A e \in Docs : e # d => srv'[e] = srv[e]
         /\ \E n \in MyAnswer : /\ srv'[d] = n /\ Stands(n.version, n.content)'
                                /\ UserPart(n.content) = UserPart(c)
<1>1. c \in Content
  BY MineIsContent
<1>2. /\ Onward /\ srv' \in [Docs -> Answer \cup {None}] /\ clock' \in Nat
      /\ \A e \in Docs : srv'[e] # None => srv'[e].version <= clock'
      /\ \A e, f \in Docs : srv'[e] # None /\ srv'[f] # None /\ srv'[e].version = srv'[f].version
                              => e = f
      /\ \A e \in Docs : e # d => srv'[e] = srv[e]
  BY <1>1, WriteGives
<1>3. PICK n \in Answer : /\ srv'[d] = n /\ n.content.body = c.body /\ n.content.name = c.name
                          /\ c \in Mine => n \in MyAnswer
                          /\ Stands(n.version, n.content)'
  <2>1. \E n \in Answer : /\ srv'[d] = n /\ n # None /\ srv' = [srv EXCEPT ![d] = n]
                          /\ n.content.body = c.body /\ n.content.name = c.name
                          /\ n.content.active = c.active
                          /\ c \in Mine => n \in MyAnswer
                          /\ Stands(n.version, n.content)'
    BY <1>1, WriteGives
  <2> QED BY <2>1, Zenon
<1>4. SrvTyped'
  BY <1>2 DEF SrvTyped
<1>5. srv[d] # None => srv[d].content.body \notin Rivals
  BY CurrentIsMine
<1>6. KeepsRivals
  BY <1>2, <1>5 DEF KeepsRivals
<1>7. UserPart(n.content) = UserPart(c)
  BY <1>3 DEF UserPart
<1>8. n \in MyAnswer /\ srv'[d] = n /\ Stands(n.version, n.content)'
  BY <1>3
<1>9. \E m \in MyAnswer : /\ srv'[d] = m /\ Stands(m.version, m.content)'
                          /\ UserPart(m.content) = UserPart(c)
  BY <1>7, <1>8, Zenon
<1> QED BY <1>2, <1>4, <1>6, <1>9, Zenon

LEMMA ServePutStep ==
  ASSUME IInv, ServePut
  PROVE  IInv' /\ KeepsRivals /\ UNCHANGED <<value, renames, saving>>
<1>1. SrvTyped /\ NetTyped
  BY DEF IInv, Types
<1>2. /\ saving \in Whole /\ put.state = "sent"
      /\ UNCHANGED <<docVars, version, renVars, saving, waits, patch, calls, rivals, edits>>
  BY DEF ServePut, Whole
<1>3. put \in MyPut /\ Seen(put.version)
  BY <1>1, <1>2 DEF NetTyped, IInv, PutKnown
<1>4. put \in Put /\ put.content \in Mine /\ put.version \in Nat /\ put.doc \in Docs \cup {None}
  BY <1>3 DEF MyPut, Put
<1>5. PICK state \in {"ok", "failed"}, d \in Docs :
        /\ d = put.doc \/ srv'[d] # srv[d]
        /\ saving # "delete" => srv'[d] # srv[d]
        /\ put' = [put EXCEPT !.state = state, !.answer = IF state = "ok" THEN srv'[d] ELSE None]
  BY DEF ServePut
<1>6. PatchMoves
  BY <1>2 DEF PatchMoves
<1>7. ASSUME NEW a \in Answer \cup {None},
             put' = [put EXCEPT !.state = state, !.answer = a]
      PROVE  /\ put' \in MyPut /\ put'.content = put.content /\ put'.version = put.version
             /\ put'.revision = put.revision /\ put'.state = state /\ put'.answer = a
  BY <1>4, <1>7 DEF MyPut, Put
<1>8. ASSUME NEW e \in Docs, NEW c \in Mine, Write(e, c), saving # "delete",
             srv[e] # None => srv[e].version = put.version,
             UserPart(c) = UserPart(put.content)
      PROVE  Onward /\ SrvTyped' /\ KeepsRivals /\ PutMoves
  <2>1. /\ Onward /\ SrvTyped' /\ KeepsRivals
        /\ \A f \in Docs : f # e => srv'[f] = srv[f]
        /\ \E n \in MyAnswer : /\ srv'[e] = n /\ Stands(n.version, n.content)'
                               /\ UserPart(n.content) = UserPart(c)
    BY <1>1, <1>2, <1>3, <1>4, <1>8, MineWritten
  <2>2. PICK n \in MyAnswer : /\ srv'[e] = n /\ Stands(n.version, n.content)'
                              /\ UserPart(n.content) = UserPart(c)
    BY <2>1
  <2>3. d = e
    BY <1>5, <1>8, <2>1
  <2>4. n \in Answer
    BY <2>2, MineIsContent
  <2> DEFINE a == IF state = "ok" THEN n ELSE None
  <2>5. a \in Answer \cup {None} /\ (state = "ok" => a = n)
    BY <2>4
  <2>6. put' = [put EXCEPT !.state = state, !.answer = a]
    BY <1>5, <2>2, <2>3
  <2> HIDE DEF a
  <2>7. /\ put' \in MyPut /\ put'.content = put.content /\ put'.version = put.version
        /\ put'.revision = put.revision /\ put'.state = state /\ put'.answer = a
    BY <1>7, <2>5, <2>6
  <2>8. put'.state = "ok" => put'.answer = n
    BY <2>5, <2>7
  <2>9. put'.state = "ok" => Given(put.answer)'
    BY <2>2, <2>8 DEF Given, Stands
  <2>10. put'.state = "ok" => UserPart(put'.answer.content) = UserPart(put.content)
    BY <1>8, <2>2, <2>8
  <2> QED BY <1>2, <2>1, <2>7, <2>9, <2>10 DEF PutMoves
<1>9. \A c \in Mine : [c EXCEPT !.active = FALSE] \in Mine
                      /\ UserPart([c EXCEPT !.active = FALSE]) = UserPart(c)
  BY DEF Mine, UserPart
<1>10. Onward /\ SrvTyped' /\ KeepsRivals /\ PutMoves
  <2>1. CASE saving = "save" /\ put.doc # None /\ Current(put) /\ Write(put.doc, put.content)
    <3>1. put.doc \in Docs /\ srv[put.doc].version = put.version
      BY <1>4, <2>1 DEF Current
    <3> QED BY <1>4, <1>8, <2>1, <3>1
  <2>2. CASE saving = "save" /\ \E e \in Docs : srv[e] = None /\ Write(e, put.content)
    <3>1. PICK e \in Docs : srv[e] = None /\ Write(e, put.content)
      BY <2>2
    <3> QED BY <1>4, <1>8, <2>2, <3>1
  <2>3. CASE /\ saving = "copy"
             /\ \E e \in Docs : srv[e] = None /\ Write(e, [put.content EXCEPT !.active = FALSE])
    <3>1. PICK e \in Docs : srv[e] = None /\ Write(e, [put.content EXCEPT !.active = FALSE])
      BY <2>3
    <3> DEFINE c == [put.content EXCEPT !.active = FALSE]
    <3>2. c \in Mine /\ UserPart(c) = UserPart(put.content) /\ Write(e, c)
      BY <1>4, <1>9, <3>1
    <3> HIDE DEF c
    <3> QED BY <1>8, <2>3, <3>1, <3>2
  <2>4. CASE /\ saving = "delete" /\ Current(put)
             /\ srv' = [srv EXCEPT ![put.doc] = None] /\ UNCHANGED clock
    <3>1. put.doc \in Docs /\ srv[put.doc] # None /\ srv[put.doc].version = put.version
      BY <1>4, <2>4 DEF Current
    <3>2. Onward
      BY <1>1, <2>4, <3>1 DEF Onward, SrvTyped
    <3>3. SrvTyped'
      BY <1>1, <1>2, <2>4, <3>1 DEF SrvTyped
    <3>4. KeepsRivals
      BY <1>1, <1>3, <1>4, <2>4, <3>1, CurrentIsMine DEF KeepsRivals, SrvTyped
    <3>5. srv'[d] = None
      BY <1>1, <1>5, <2>4, <3>1 DEF SrvTyped
    <3>6. put' = [put EXCEPT !.state = state, !.answer = None]
      BY <1>5, <3>5
    <3>7. PutMoves
      BY <1>2, <1>7, <2>4, <3>6 DEF PutMoves
    <3> QED BY <3>2, <3>3, <3>4, <3>7
  <2> QED BY <2>1, <2>2, <2>3, <2>4 DEF ServePut
<1>11. IInv'
  BY <1>2, <1>6, <1>10, ServerKeeps
<1> QED BY <1>2, <1>10, <1>11 DEF docVars, renVars

LEMMA ServePatchStep ==
  ASSUME IInv, ServePatch
  PROVE  IInv' /\ KeepsRivals /\ UNCHANGED <<value, renames, saving>>
<1>1. SrvTyped /\ NetTyped
  BY DEF IInv, Types
<1>2. /\ patch # None /\ Current(patch)
      /\ UNCHANGED <<docVars, version, renVars, saving, waits, put, calls, rivals, edits>>
  BY DEF ServePatch
<1>3. patch \in MyPatch /\ Seen(patch.version)
  BY <1>1, <1>2 DEF NetTyped, IInv, PatchKnown
<1>4. patch.doc \in Docs /\ patch.version \in Nat /\ patch.node \in Nodes /\ patch.name \in Own
      /\ srv[patch.doc] # None /\ srv[patch.doc].version = patch.version
  BY <1>2, <1>3 DEF MyPatch, Current
<1>5. srv[patch.doc].content \in Mine /\ srv[patch.doc] \in MyAnswer
  BY <1>1, <1>3, <1>4, CurrentIsMine
<1>6. PICK state \in {"ok", "failed"} :
        patch' = [patch EXCEPT !.state = state,
                               !.answer = IF state = "ok" THEN srv'[patch.doc] ELSE None]
  BY DEF ServePatch
<1> DEFINE c == [srv[patch.doc].content EXCEPT !.name[patch.node] = patch.name]
<1>7. c \in Mine
  BY <1>4, <1>5, Bounds DEF Mine
<1>8. UNCHANGED <<srv, clock>> \/ Write(patch.doc, c)
  BY DEF ServePatch
<1> HIDE DEF c
<1>9. /\ Onward /\ SrvTyped' /\ KeepsRivals
      /\ \E n \in MyAnswer : srv'[patch.doc] = n /\ Stands(n.version, n.content)'
  <2>1. CASE UNCHANGED <<srv, clock>>
    <3>1. Onward /\ SrvTyped' /\ KeepsRivals
      BY <1>1, <1>2, <2>1 DEF Onward, SrvTyped, KeepsRivals
    <3>2. PICK n \in MyAnswer : n = srv[patch.doc]
      BY <1>5
    <3>3. Stands(n.version, n.content)
      BY <1>1, <1>4, <3>2, RowStands
    <3>4. srv'[patch.doc] = n /\ Stands(n.version, n.content)'
      BY <2>1, <3>2, <3>3 DEF Stands
    <3> QED BY <3>1, <3>4
  <2>2. CASE Write(patch.doc, c)
    BY <1>1, <1>2, <1>3, <1>4, <1>7, <2>2, MineWritten
  <2> QED BY <1>8, <2>1, <2>2
<1>10. PICK n \in MyAnswer : srv'[patch.doc] = n /\ Stands(n.version, n.content)'
  BY <1>9
<1>11. PatchMoves
  <2>1. n \in Answer
    BY <1>10, MineIsContent
  <2> DEFINE a == IF state = "ok" THEN n ELSE None
  <2>2. a \in Answer \cup {None} /\ (state = "ok" => a = n)
    BY <2>1
  <2>3. patch' = [patch EXCEPT !.state = state, !.answer = a]
    BY <1>6, <1>10
  <2> HIDE DEF a
  <2>4. /\ patch' \in MyPatch /\ patch'.version = patch.version /\ patch'.state = state
        /\ patch'.answer = a
    BY <1>3, <2>2, <2>3 DEF MyPatch
  <2>5. patch'.state = "ok" => Given(patch.answer)'
    BY <1>10, <2>2, <2>4 DEF Given, Stands
  <2> QED BY <1>2, <2>4, <2>5 DEF PatchMoves
<1>12. PutMoves
  BY <1>2 DEF PutMoves
<1>13. IInv'
  BY <1>2, <1>9, <1>11, <1>12, ServerKeeps
<1> QED BY <1>2, <1>9, <1>13 DEF docVars, renVars

LEMMA RefuseSteps ==
  ASSUME IInv, RefusePut \/ RefusePatch
  PROVE  IInv' /\ KeepsRivals /\ UNCHANGED <<value, renames, saving>>
<1>1. SrvTyped /\ NetTyped
  BY DEF IInv, Types
<1>2. UNCHANGED <<docVars, version, renVars, saving, waits, calls, edits>> /\ UNCHANGED srvVars
  BY DEF RefusePut, RefusePatch
<1>3. Onward /\ SrvTyped' /\ KeepsRivals
  BY <1>1, <1>2 DEF Onward, SrvTyped, KeepsRivals, srvVars
<1>4. PutMoves
  <2>1. CASE RefusePut
    <3>1. saving \in Whole /\ put' = [put EXCEPT !.state = "failed"]
      BY <2>1 DEF RefusePut, Whole
    <3>2. put \in MyPut
      BY <1>1, <3>1 DEF NetTyped
    <3>3. put' \in MyPut /\ put'.content = put.content /\ put'.version = put.version
          /\ put'.revision = put.revision /\ put'.state = "failed"
      BY <3>1, <3>2 DEF MyPut, Put
    <3> QED BY <3>1, <3>3 DEF PutMoves
  <2>2. CASE RefusePatch
    BY <2>2 DEF RefusePatch, PutMoves
  <2> QED BY <2>1, <2>2
<1>5. PatchMoves
  <2>1. CASE RefusePatch
    BY <1>1, <2>1 DEF RefusePatch, PatchMoves, NetTyped, MyPatch
  <2>2. CASE RefusePut
    BY <2>2 DEF RefusePut, PatchMoves
  <2> QED BY <2>1, <2>2
<1>6. IInv'
  BY <1>2, <1>3, <1>4, <1>5, ServerKeeps
<1> QED BY <1>2, <1>3, <1>6 DEF docVars, renVars

LEMMA RivalStep ==
  ASSUME IInv, NEW d \in Docs, Rival(d)
  PROVE  IInv' /\ KeepsRivals /\ UNCHANGED <<value, renames, saving>>
<1>1. SrvTyped
  BY DEF IInv, Types
<1>2. /\ srv[d] # None /\ rivals < MaxRivals /\ rivals' = rivals + 1
      /\ UNCHANGED <<docVars, version, renVars, netVars, edits>>
  BY DEF Rival
<1>3. rivals' \in 0..MaxRivals /\ MaxEdits + rivals' \in Rivals /\ MaxEdits + rivals' \in Stamps
  BY <1>1, <1>2, Bounds DEF SrvTyped, Rivals, Stamps
<1>4. PICK t \in Rivals : t = MaxEdits + rivals' /\ t \in Stamps
  BY <1>3
<1> DEFINE c == [srv[d].content EXCEPT !.body = t]
<1>5. c \in Content /\ c.body = t
  BY <1>1, <1>2, <1>4 DEF SrvTyped, Answer, Content
<1>6. Write(d, c)
  BY <1>4 DEF Rival
<1> HIDE DEF c
<1>7. /\ Onward /\ srv' \in [Docs -> Answer \cup {None}] /\ clock' \in Nat
      /\ \A e \in Docs : srv'[e] # None => srv'[e].version <= clock'
      /\ \A e, f \in Docs : srv'[e] # None /\ srv'[f] # None /\ srv'[e].version = srv'[f].version
                              => e = f
      /\ \A e \in Docs : e # d => srv'[e] = srv[e]
      /\ \E n \in Answer : /\ srv'[d] = n /\ n # None /\ srv' = [srv EXCEPT ![d] = n]
                           /\ n.content.body = c.body /\ n.content.name = c.name
                           /\ n.content.active = c.active
                           /\ c \in Mine => n \in MyAnswer
                           /\ Stands(n.version, n.content)'
  BY <1>1, <1>5, <1>6, WriteGives
<1>8. srv'[d] # None /\ srv'[d].content.body \in Rivals
  BY <1>4, <1>5, <1>7
<1>9. Onward /\ SrvTyped' /\ KeepsRivals
  BY <1>1, <1>3, <1>7, <1>8 DEF SrvTyped, KeepsRivals
<1>10. IInv'
  BY <1>2, <1>9, ServerKeeps DEF PutMoves, PatchMoves, netVars
<1> QED BY <1>2, <1>9, <1>10 DEF docVars, renVars, netVars

-----------------------------------------------------------------------------
(* The theorems                                                            *)

LEMMA InitInv == Init => IInv
<1> SUFFICES ASSUME Init PROVE IInv
  OBVIOUS
<1>1. PICK doc \in FirstDocs :
        /\ value = Blank(doc) /\ saved = Blank(doc)
        /\ srv = [d \in Docs |-> IF d = doc THEN [content |-> Blank(doc), version |-> 0] ELSE None]
  BY DEF Init
<1>2. doc \in Docs \cup {None}
  BY EditorAssumption
<1>3. Blank(doc) \in Mine
  <2>1. [n \in Nodes |-> IF n \in FirstNodes THEN 0 ELSE None] \in [Nodes -> Stamps \cup {None}]
    BY Bounds
  <2> QED BY <1>2, <2>1, Bounds DEF Blank, Mine
<1>4. PICK n \in MyAnswer : n = [content |-> Blank(doc), version |-> 0]
  BY <1>3 DEF MyAnswer
<1>5. n \in Answer /\ n # None /\ n.content = Blank(doc) /\ n.version = 0
  BY <1>4, MineIsContent, NoneAssumption
<1>6. srv = [d \in Docs |-> IF d = doc THEN n ELSE None]
  BY <1>1, <1>4
<1>7. DocTyped
  <2>1. <<>> \in Seq(Mine) /\ Len(<<>>) = 0 /\ 0 + 0 <= UndoLimit  BY EmptySeq, EditorAssumption
  <2> QED BY <1>1, <1>3, <2>1, Bounds DEF Init, DocTyped, Own
<1>8. RenTyped
  BY EmptySeq DEF Init, RenTyped
<1>9. NetTyped
  BY Bounds DEF Init, NetTyped, Whole
<1>10. SrvTyped
  BY <1>5, <1>6, Bounds DEF Init, SrvTyped
<1>11. Baseline
  BY <1>1, <1>5, <1>6 DEF Init, Baseline, Stands
<1>12. PutKnown /\ PatchKnown /\ PutFits
  BY DEF Init, PutKnown, PatchKnown, PutFits, Whole
<1> QED BY <1>7, <1>8, <1>9, <1>10, <1>11, <1>12 DEF IInv, Types

Ends == (saving = "save" /\ saving' = "no") \/ Len(renames') < Len(renames)

\* What every step does: the invariant stays, other windows' writes stay, and
\* what ends a save or a rename leaves fields and names.
LEMMA StepKeeps ==
  ASSUME IInv, [Next]_vars
  PROVE  IInv' /\ KeepsRivals /\ (Ends => UserPart(value') = UserPart(value))
<1>1. Len(renames) \in Nat /\ (IInv' => Len(renames') \in Nat)
  BY LenProperties DEF IInv, Types, RenTyped
<1>2. ASSUME UNCHANGED srvVars PROVE KeepsRivals
  BY <1>2 DEF KeepsRivals, srvVars
<1>3. CASE \/ Type("field") \/ Undo \/ Redo
           \/ \E n \in Nodes : Insert(n) \/ Remove(n)
           \/ \E S \in Imports : Import(S)
  <2>1. Edited
    BY <1>3, EditSteps
  <2>2. saving' = saving /\ renames' = renames /\ UNCHANGED srvVars
    BY <2>1 DEF Edited, netVars, renVars
  <2> QED BY <1>1, <1>2, <2>1, <2>2, EditedKeeps DEF Ends
<1>4. CASE \/ \E active \in {None, TRUE} : Save(active)
           \/ \E w \in waits : SaveGoesOn(w)
           \/ Blur \/ TimerFires
  <2>1. Blur \/ TimerFires => \E auto \in BOOLEAN : Flush(auto)
    BY DEF Blur, TimerFires
  <2>2. IInv' /\ Len(renames') >= Len(renames) /\ (saving = "save" => saving' = "save")
        /\ UNCHANGED srvVars
    BY <1>4, <2>1, AskSteps
  <2> QED BY <1>1, <1>2, <2>2 DEF Ends
<1>5. CASE Duplicate \/ Delete \/ RenameSend \/ \E n \in Nodes : Rename(n)
  <2>1. IInv' /\ Len(renames') >= Len(renames) /\ (saving = "save" => saving' = "save")
        /\ UNCHANGED srvVars
    BY <1>5, CopySteps, RenameSendStep, RenameSteps
  <2> QED BY <1>1, <1>2, <2>1 DEF Ends
<1>6. CASE SaveAnswered \/ CopyAnswered \/ CallFailed
  <2>1. IInv' /\ Len(renames') >= Len(renames) /\ UNCHANGED srvVars
        /\ (saving = "save" => UserPart(value') = UserPart(value))
    BY <1>6, AnswerSteps
  <2> QED BY <1>1, <1>2, <2>1 DEF Ends
<1>7. CASE DeleteAnswered \/ RenameAnswered \/ RenameFailed
  BY <1>2, <1>7, LeaveStep, RenameEndSteps
<1>8. CASE Server \/ \E d \in Docs : Rival(d)
  <2>1. IInv' /\ KeepsRivals /\ UNCHANGED <<value, renames, saving>>
    BY <1>8, ServePutStep, ServePatchStep, RefuseSteps, RivalStep DEF Server
  <2> QED BY <2>1
<1>9. CASE UNCHANGED vars
  <2>1. UNCHANGED <<docVars, renVars, netVars, srvVars, version, edits>>
    BY <1>9 DEF vars
  <2>2. DocTyped' /\ RenTyped' /\ NetTyped' /\ SrvTyped'
    BY <2>1 DEF IInv, Types, DocTyped, RenTyped, NetTyped, SrvTyped, docVars, renVars, netVars, srvVars
  <2>3. Baseline' /\ PutKnown' /\ PatchKnown' /\ PutFits'
    BY <2>1 DEF IInv, Baseline, PutKnown, PatchKnown, PutFits, Seen, Stands, Given,
                docVars, netVars, srvVars
  <2>4. value' = value /\ UNCHANGED srvVars
    BY <2>1 DEF docVars
  <2> QED BY <1>2, <2>2, <2>3, <2>4 DEF IInv, Types
<1> QED BY <1>3, <1>4, <1>5, <1>6, <1>7, <1>8, <1>9 DEF Next, User, Page

\* The invariant holds throughout: above all, the saved state is what stands
\* under the known version.
THEOREM InvHolds == Spec => []IInv
<1>1. IInv /\ [Next]_vars => IInv'
  BY StepKeeps
<1> QED BY InitInv, <1>1, PTL DEF Spec

\* Every variable keeps its type, and a request is out exactly while it is awaited.
THEOREM TypeCorrect == Spec => []TypeOK
<1>1. IInv => TypeOK
  BY TypesMean DEF IInv
<1> QED BY <1>1, InvHolds, PTL

\* As long as the page is open: a document shown as saved, under the version the
\* server has, is what the server has stored.
THEOREM SavedIsStored == Spec => []CleanMeansStored
<1>1. IInv => CleanMeansStored
  BY DEF IInv, Baseline, Stands, CleanMeansStored, Dirty
<1> QED BY <1>1, InvHolds, PTL

\* No save, rename, copy or deletion of this editor undoes what another window
\* stored and this editor has not seen.
THEOREM RivalsKept == Spec => RivalsSurvive
<1>1. IInv /\ [Next]_vars => KeepsRivals
  BY StepKeeps
<1> QED BY <1>1, InvHolds, PTL DEF Spec, RivalsSurvive, KeepsRivals

\* The answer to a save, and the end of a rename, leave every field and name as
\* the user has it now.
THEOREM TypingKept == Spec => TypingSurvives
<1>1. IInv /\ [Next]_vars => (Ends => UserPart(value') = UserPart(value))
  BY StepKeeps
<1> QED BY <1>1, InvHolds, PTL DEF Spec, TypingSurvives, Ends
=============================================================================
