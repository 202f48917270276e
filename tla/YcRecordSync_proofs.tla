------------------------ MODULE YcRecordSync_proofs ------------------------
(***************************************************************************)
(* Proofs about YcRecordSync for every number of rows, appointments,       *)
(* deliveries and leads: type correctness, one worker per row, at most one *)
(* lead per appointment, receipts that name their lead, that the lead      *)
(* receipts implement CreateOnce, and one note per event; where re-exports *)
(* are queued, whose outcomes are written; for a row alone, no lost update.*)
(***************************************************************************)
EXTENDS YcRecordSync, TLAPS

-----------------------------------------------------------------------------
(* The inductive invariant                                                 *)

\* Stages in which the delivery works on a lead it has found or created.
HasLead == {"adopt", "ack", "link", "note", "notepost"}

WorkIsALead == \A p \in Procs : pc[p] \in HasLead => work[p] \in Leads

TypeInv == TypeOK /\ WorkIsALead

\* A job that works on a row owns the row's lock.
LockHeld == \A j \in Jobs : pc[j] \in Section => lock[jrow[j]] = j

NoLead(a) == \A l \in Leads : lappt[l] # a

\* Stages between the claim of a lead's receipt and its outcome.
Creating(p) == pc[p] \in {"post", "reject"}

CreatedOnce == \A l \in Leads : lappt[l] # None => lstate[l] # "absent"

\* Only the delivery that claimed the receipt may create, and nobody did yet.
ClaimExclusive ==
  \A p, q \in Procs : Creating(p) /\ Creating(q) /\ Appt(p) = Appt(q) => p = q

ClaimedFresh ==
  \A p \in Procs : Creating(p) => rstate[Appt(p)] = "open" /\ NoLead(Appt(p))

\* A receipt that may be claimed stands for no lead, present or coming.
ClosedIsFree ==
  \A a \in Appts : rstate[a] # "open" =>
    /\ NoLead(a)
    /\ \A p \in Procs : pc[p] \in {"post", "reject", "ack"} => Appt(p) # a

AckNamesItsLead == \A p \in Procs : pc[p] = "ack" => lappt[work[p]] = Appt(p)

LeadInv == /\ CreatedOnce /\ ClaimExclusive /\ ClaimedFresh /\ ClosedIsFree
           /\ AckNamesItsLead /\ ReceiptNamesItsLead /\ OneLeadPerAppointment

IInv == TypeInv /\ LockHeld /\ LeadInv
-----------------------------------------------------------------------------
(* Type correctness                                                        *)

\* Every initial state is well typed.
LEMMA InitTypeInv == Init => TypeInv
<1>. SUFFICES ASSUME Init PROVE TypeInv
  OBVIOUS
<1>1. TypeOK
  BY ConstantsAssumption DEF Init, TypeOK, Status, Stages, Mark, Snapshot, Event, NothingSeen
<1>2. WorkIsALead
  BY DEF Init, WorkIsALead, HasLead
<1>. QED
  BY <1>1, <1>2 DEF TypeInv

\* A delivery's row and its appointment.
LEMMA RowType == TypeOK => \A p \in Procs : Row(p) \in Rows /\ Appt(p) \in Appts
  BY ConstantsAssumption DEF TypeOK, Row, Appt

\* Every step, of a worker, the queue or the surroundings, keeps the types
\* and has a delivery work on a lead only where the code has one.
LEMMA StepTypeInv == TypeInv /\ [Next]_vars => TypeInv'
<1>. SUFFICES ASSUME TypeInv, [Next]_vars PROVE TypeInv'
  OBVIOUS
<1>. USE ConstantsAssumption DEF TypeInv, TypeOK, WorkIsALead, HasLead, Procs, Status,
       Stages, Section, Ended, rowVars, recptVars, noteVars, remoteVars, jobVars, memVars, cntVars
<1>1. ASSUME NEW r \in Rows, NEW j \in Jobs, WebhookSave(r, j) PROVE TypeInv'
  BY <1>1 DEF WebhookSave, Assign, Goto, Snapshot, Event, Mark
<1>2. ASSUME NEW r \in Rows, NEW j \in Jobs, Reexport(r, j) PROVE TypeInv'
  BY <1>2 DEF Reexport, Assign, Goto, Snapshot, Event, Mark
<1>3. ASSUME NEW r \in Rows, NEW j \in Jobs, Redispatch(r, j) PROVE TypeInv'
  BY <1>3 DEF Redispatch, Assign, Goto, Snapshot, Event, Mark
<1>4. ASSUME NEW r \in Rows, NEW c \in Clis, CliStart(r, c) PROVE TypeInv'
  <2>1. pc' \in [Procs -> Stages] /\ jrow' \in [Procs -> Rows] /\ wantsNote' \in [Procs -> BOOLEAN]
    BY <1>4 DEF CliStart, Assign, Goto
  <2>2. status' \in [Rows -> Status] /\ lock' \in [Rows -> Procs \cup {None}]
    BY <1>4 DEF CliStart
  <2>3. \A p \in Procs : pc'[p] = pc[p] \/ pc'[p] \in {"failed", "done", "send"}
    BY <1>4 DEF CliStart, Assign, Goto
  <2>4. UNCHANGED <<migrated, ver, gone, leadId, recptVars, noteVars, remoteVars, memVars, cntVars>>
    BY <1>4 DEF CliStart, Assign
  <2>. QED
    BY <2>1, <2>2, <2>3, <2>4
<1>5. ASSUME NEW r \in Rows, LockExpires(r) PROVE TypeInv'
  BY <1>5 DEF LockExpires, Snapshot, Event, Mark
<1>6. ASSUME NEW j \in Jobs, Dispatch(j) PROVE TypeInv'
  BY <1>6 DEF Dispatch, Goto, Snapshot, Event, Mark
<1>7. ASSUME NEW j \in Jobs, WebDies(j) PROVE TypeInv'
  BY <1>7 DEF WebDies, Goto, Snapshot, Event, Mark
<1>8. ASSUME NEW j \in Jobs, Defer(j) PROVE TypeInv'
  BY <1>8 DEF Defer, Popped, Snapshot, Event, Mark
<1>9. ASSUME NEW j \in Jobs, Acquire(j) PROVE TypeInv'
  BY <1>9 DEF Acquire, Popped, Goto, LockFreeFor, Row, Snapshot, Event, Mark
<1>10. ASSUME NEW j \in Jobs, Redeliver(j) PROVE TypeInv'
  BY <1>10 DEF Redeliver, Goto, Snapshot, Event, Mark
<1>11. ASSUME NEW j \in Jobs, Exhaust(j) PROVE TypeInv'
  BY <1>11 DEF Exhaust, Goto, LockFreeFor, Release, Row, Snapshot, Event, Mark
<1>12. ASSUME NEW p \in Procs, Crash(p) PROVE TypeInv'
  BY <1>12 DEF Crash, Goto, Forget, NothingSeen, Snapshot, Event, Mark
<1>13. ASSUME NEW p \in Procs, Load(p) PROVE TypeInv'
  BY <1>13 DEF Load, Goto, Row, Holds, Snapshot, Event, Mark
<1>14. ASSUME NEW p \in Procs, Fails(p) PROVE TypeInv'
  BY <1>14 DEF Fails, Goto, Snapshot, Event, Mark
<1>15. ASSUME NEW p \in Procs, LostLock(p) PROVE TypeInv'
  BY <1>15 DEF LostLock, Goto, Forget, NothingSeen, Row, Holds, Snapshot, Event, Mark
<1>16. ASSUME NEW p \in Procs, ResolveOwn(p) PROVE TypeInv'
  BY <1>16 DEF ResolveOwn, OwnLeadUsable, AdoptLead, Goto, Live, Snapshot, Event, Mark
<1>17. ASSUME NEW p \in Procs, ResolveReceipt(p) PROVE TypeInv'
  <2>1. Appt(p) \in Appts
    BY RowType
  <2>2. \A l : Live(l) /\ l \in Leads \cup {None} => l \in Leads
    BY DEF Live
  <2>3. rstate' \in [Appts -> {"absent", "open", "rejected"}] /\ rlead' \in [Appts -> Leads \cup {None}]
    BY <1>17, <2>1 DEF ResolveReceipt, Reconciled
  <2>4. pc' \in [Procs -> Stages] /\ work' \in [Procs -> Leads \cup {None}]
    BY <1>17, <2>1, <2>2 DEF ResolveReceipt, Reconciled, AdoptLead, Goto
  <2>5. WorkIsALead'
    BY <1>17, <2>1, <2>2 DEF ResolveReceipt, Reconciled, AdoptLead, Goto
  <2>. QED
    BY <1>17, <2>3, <2>4, <2>5 DEF ResolveReceipt
<1>18. ASSUME NEW p \in Procs, ResolveSearch(p) PROVE TypeInv'
  BY <1>18 DEF ResolveSearch, AdoptLead, Goto, Live, Doubles, DoubleUsable, ExactMatches, FreeMatches, Snapshot, Event, Mark
<1>19. ASSUME NEW p \in Procs, Adopt(p) PROVE TypeInv'
  <2>1. <<Appt(p), seen[p].ver>> \in Mark
    BY RowType DEF Mark, Snapshot
  <2>2. lstatus' \in [Leads -> Mark] /\ pc' \in [Procs -> Stages]
    BY <1>19, <2>1 DEF Adopt, Goto
  <2>3. WorkIsALead'
    BY <1>19 DEF Adopt, Goto, Live
  <2>. QED
    BY <1>19, <2>2, <2>3 DEF Adopt
<1>20. ASSUME NEW p \in Procs, Claim(p) PROVE TypeInv'
  BY <1>20 DEF Claim, Goto, Appt, Snapshot, Event, Mark
<1>21. ASSUME NEW p \in Procs, PostAccepted(p) PROVE TypeInv'
  <2>1. Appt(p) \in Appts /\ <<Appt(p), seen[p].ver>> \in Mark
    BY RowType DEF Mark, Snapshot
  <2>2. /\ lstate' \in [Leads -> {"absent", "live", "deleted"}]
        /\ lappt' \in [Leads -> Appts \cup {None}]
        /\ lstatus' \in [Leads -> Mark]
    BY <1>21, <2>1 DEF PostAccepted
  <2>3. pc' \in [Procs -> Stages] /\ work' \in [Procs -> Leads \cup {None}]
    BY <1>21 DEF PostAccepted, Goto
  <2>4. WorkIsALead'
    BY <1>21 DEF PostAccepted, Goto
  <2>. QED
    BY <1>21, <2>2, <2>3, <2>4 DEF PostAccepted
<1>22. ASSUME NEW p \in Procs, PostRefused(p) PROVE TypeInv'
  BY <1>22 DEF PostRefused, Goto, Snapshot, Event, Mark
<1>23. ASSUME NEW p \in Procs, Acknowledge(p) PROVE TypeInv'
  BY <1>23 DEF Acknowledge, Goto, Appt, Snapshot, Event, Mark
<1>24. ASSUME NEW p \in Procs, Reject(p) PROVE TypeInv'
  BY <1>24 DEF Reject, Goto, Appt, Snapshot, Event, Mark
<1>25. ASSUME NEW p \in Procs, Link(p) PROVE TypeInv'
  <2>1. leadId' \in [Rows -> Leads \cup {None}]
    BY <1>25 DEF Link
  <2>2. pc' \in [Procs -> Stages]
    BY <1>25 DEF Link, Goto
  <2>3. WorkIsALead'
    BY <1>25 DEF Link, Goto
  <2>. QED
    BY <1>25, <2>1, <2>2, <2>3 DEF Link
<1>26. ASSUME NEW p \in Procs, NoteClaim(p) PROVE TypeInv'
  <2>1. pc[p] = "note" => NoteEvent(p) \in Event
    BY RowType DEF NoteEvent, Event, Snapshot
  <2>2. noteClaims' \subseteq Event /\ pc' \in [Procs -> Stages]
    BY <1>26, <2>1 DEF NoteClaim, Goto
  <2>3. WorkIsALead'
    BY <1>26 DEF NoteClaim, Goto
  <2>. QED
    BY <1>26, <2>2, <2>3 DEF NoteClaim
<1>27. ASSUME NEW p \in Procs, NotePost(p) PROVE TypeInv'
  <2>1. pc[p] = "notepost" => NoteEvent(p) \in Event
    BY RowType DEF NoteEvent, Event, Snapshot
  <2>2. pc[p] = "notepost" => <<NoteEvent(p), p, tries[p]>> \in Event \X Procs \X Nat
    BY <2>1
  <2>3. notes' \subseteq Event \X Procs \X Nat /\ pc' \in [Procs -> Stages]
    BY <1>27, <2>2 DEF NotePost, Goto
  <2>4. WorkIsALead'
    BY <1>27 DEF NotePost, Goto
  <2>. QED
    BY <1>27, <2>3, <2>4 DEF NotePost
<1>28. ASSUME NEW p \in Procs, Entities(p) PROVE TypeInv'
  BY <1>28 DEF Entities, Goto, Row, Holds, Snapshot, Event, Mark
<1>29. ASSUME NEW p \in Procs, Fields(p) PROVE TypeInv'
  <2>1. <<Appt(p), seen[p].ver>> \in Mark
    BY RowType DEF Mark, Snapshot
  <2>2. lfields' \in [Leads -> Mark] /\ pc' \in [Procs -> Stages]
    BY <1>29, <2>1 DEF Fields, Goto
  <2>3. WorkIsALead'
    BY <1>29 DEF Fields, Goto
  <2>. QED
    BY <1>29, <2>2, <2>3 DEF Fields
<1>30. ASSUME NEW p \in Procs, Finish(p) PROVE TypeInv'
  BY <1>30 DEF Finish, Goto, Release, Forget, NothingSeen, Row, Snapshot, Event, Mark
<1>31. ASSUME NEW p \in Procs, TransportFailure(p) PROVE TypeInv'
  <2>1. fails' \in [Procs -> Nat] /\ status' \in [Rows -> Status]
    BY <1>31 DEF TransportFailure
  <2>2. lock' \in [Rows -> Procs \cup {None}] /\ pc' \in [Procs -> Stages]
    BY <1>31 DEF TransportFailure, Release, Goto
  <2>3. seen' \in [Procs -> Snapshot] /\ work' \in [Procs -> Leads \cup {None}]
    BY <1>31 DEF TransportFailure, Forget, NothingSeen, Snapshot
  <2>4. WorkIsALead'
    BY <1>31 DEF TransportFailure, Goto, Forget
  <2>. QED
    BY <1>31, <2>1, <2>2, <2>3, <2>4 DEF TransportFailure
<1>32. ASSUME NEW p \in Procs, OtherFailure(p) PROVE TypeInv'
  BY <1>32 DEF OtherFailure, Goto, Release, Forget, NothingSeen, Row, Snapshot, Event, Mark
<1>33. ASSUME NEW l \in Leads, ManagerDeletes(l) PROVE TypeInv'
  BY <1>33 DEF ManagerDeletes, Snapshot, Event, Mark
<1>34. ASSUME Migrate PROVE TypeInv'
  BY <1>34 DEF Migrate, Snapshot, Event, Mark
<1>35. CASE UNCHANGED vars
  BY <1>35 DEF vars
<1>. QED
  BY <1>1, <1>2, <1>3, <1>4, <1>5, <1>6, <1>7, <1>8, <1>9, <1>10, <1>11, <1>12, <1>13, <1>14, <1>15, <1>16, <1>17, <1>18, <1>19, <1>20, <1>21, <1>22, <1>23, <1>24, <1>25, <1>26, <1>27, <1>28, <1>29, <1>30, <1>31, <1>32, <1>33, <1>34, <1>35 DEF Next, Arrive, Queue, Work

\* Type correctness of the whole state (every action of the module).
THEOREM TypeCorrect == Spec => []TypeOK
<1>1. TypeInv => TypeOK
  BY DEF TypeInv
<1>. QED
  BY <1>1, InitTypeInv, StepTypeInv, PTL DEF Spec

-----------------------------------------------------------------------------
(* One worker per row                                                      *)

\* A queued delivery that works on a row holds the row's lock: what takes the
\* lock away needs it dead (Crash, LockExpires) or ends its section.
LEMMA StepLockHeld == TypeInv /\ LockHeld /\ [Next]_vars => LockHeld'
<1>. SUFFICES ASSUME TypeInv, LockHeld, [Next]_vars PROVE LockHeld'
  OBVIOUS
<1>. USE ConstantsAssumption DEF TypeInv, TypeOK, LockHeld, Procs, Section, jobVars
<1>1. ASSUME NEW r \in Rows, NEW j \in Jobs, WebhookSave(r, j) PROVE LockHeld'
  BY <1>1 DEF WebhookSave, Assign, Goto
<1>2. ASSUME NEW r \in Rows, NEW j \in Jobs, Reexport(r, j) PROVE LockHeld'
  BY <1>2 DEF Reexport, Assign, Goto
<1>3. ASSUME NEW r \in Rows, NEW j \in Jobs, Redispatch(r, j) PROVE LockHeld'
  BY <1>3 DEF Redispatch, Assign, Goto
<1>4. ASSUME NEW r \in Rows, NEW c \in Clis, CliStart(r, c) PROVE LockHeld'
  BY <1>4 DEF CliStart, Assign, Goto
<1>5. ASSUME NEW r \in Rows, LockExpires(r) PROVE LockHeld'
  BY <1>5 DEF LockExpires
<1>6. ASSUME NEW j \in Jobs, Dispatch(j) PROVE LockHeld'
  BY <1>6 DEF Dispatch, Goto
<1>7. ASSUME NEW j \in Jobs, WebDies(j) PROVE LockHeld'
  BY <1>7 DEF WebDies, Goto
<1>8. ASSUME NEW j \in Jobs, Defer(j) PROVE LockHeld'
  BY <1>8 DEF Defer, Popped
<1>9. ASSUME NEW j \in Jobs, Acquire(j) PROVE LockHeld'
  BY <1>9 DEF Acquire, Popped, Goto, LockFreeFor, Row
<1>10. ASSUME NEW j \in Jobs, Redeliver(j) PROVE LockHeld'
  BY <1>10 DEF Redeliver, Goto
<1>11. ASSUME NEW j \in Jobs, Exhaust(j) PROVE LockHeld'
  BY <1>11 DEF Exhaust, Goto, LockFreeFor, Release, Row
<1>12. ASSUME NEW p \in Procs, Crash(p) PROVE LockHeld'
  BY <1>12 DEF Crash, Goto
<1>13. ASSUME NEW p \in Procs, Load(p) PROVE LockHeld'
  BY <1>13 DEF Load, Goto, Row
<1>14. ASSUME NEW p \in Procs, Fails(p) PROVE LockHeld'
  BY <1>14 DEF Fails, Goto
<1>15. ASSUME NEW p \in Procs, LostLock(p) PROVE LockHeld'
  BY <1>15 DEF LostLock, Goto, Row
<1>16. ASSUME NEW p \in Procs, ResolveOwn(p) PROVE LockHeld'
  BY <1>16 DEF ResolveOwn, AdoptLead, Goto
<1>17. ASSUME NEW p \in Procs, ResolveReceipt(p) PROVE LockHeld'
  BY <1>17 DEF ResolveReceipt, AdoptLead, Goto
<1>18. ASSUME NEW p \in Procs, ResolveSearch(p) PROVE LockHeld'
  BY <1>18 DEF ResolveSearch, AdoptLead, Goto
<1>19. ASSUME NEW p \in Procs, Adopt(p) PROVE LockHeld'
  BY <1>19 DEF Adopt, Goto
<1>20. ASSUME NEW p \in Procs, Claim(p) PROVE LockHeld'
  BY <1>20 DEF Claim, Goto
<1>21. ASSUME NEW p \in Procs, PostAccepted(p) PROVE LockHeld'
  BY <1>21 DEF PostAccepted, Goto
<1>22. ASSUME NEW p \in Procs, PostRefused(p) PROVE LockHeld'
  BY <1>22 DEF PostRefused, Goto
<1>23. ASSUME NEW p \in Procs, Acknowledge(p) PROVE LockHeld'
  BY <1>23 DEF Acknowledge, Goto
<1>24. ASSUME NEW p \in Procs, Reject(p) PROVE LockHeld'
  BY <1>24 DEF Reject, Goto
<1>25. ASSUME NEW p \in Procs, Link(p) PROVE LockHeld'
  BY <1>25 DEF Link, Goto, Row
<1>26. ASSUME NEW p \in Procs, NoteClaim(p) PROVE LockHeld'
  BY <1>26 DEF NoteClaim, Goto
<1>27. ASSUME NEW p \in Procs, NotePost(p) PROVE LockHeld'
  BY <1>27 DEF NotePost, Goto
<1>28. ASSUME NEW p \in Procs, Entities(p) PROVE LockHeld'
  BY <1>28 DEF Entities, Goto, Row
<1>29. ASSUME NEW p \in Procs, Fields(p) PROVE LockHeld'
  BY <1>29 DEF Fields, Goto
<1>30. ASSUME NEW p \in Procs, Finish(p) PROVE LockHeld'
  BY <1>30 DEF Finish, Goto, Release, Row
<1>31. ASSUME NEW p \in Procs, TransportFailure(p) PROVE LockHeld'
  BY <1>31 DEF TransportFailure, Goto, Release, Row
<1>32. ASSUME NEW p \in Procs, OtherFailure(p) PROVE LockHeld'
  BY <1>32 DEF OtherFailure, Goto, Release, Row
<1>33. ASSUME NEW l \in Leads, ManagerDeletes(l) PROVE LockHeld'
  BY <1>33 DEF ManagerDeletes
<1>34. ASSUME Migrate PROVE LockHeld'
  BY <1>34 DEF Migrate
<1>35. CASE UNCHANGED vars
  BY <1>35 DEF vars
<1>. QED
  BY <1>1, <1>2, <1>3, <1>4, <1>5, <1>6, <1>7, <1>8, <1>9, <1>10, <1>11, <1>12, <1>13, <1>14, <1>15, <1>16, <1>17, <1>18, <1>19, <1>20, <1>21, <1>22, <1>23, <1>24, <1>25, <1>26, <1>27, <1>28, <1>29, <1>30, <1>31, <1>32, <1>33, <1>34, <1>35 DEF Next, Arrive, Queue, Work

\* Two queued deliveries never work on one row (see WorkersExclusive).
THEOREM OneWorkerPerRow == Spec => []WorkersExclusive
<1>1. Init => LockHeld
  BY DEF Init, LockHeld, Procs, Section
<1>2. LockHeld => WorkersExclusive
  BY DEF LockHeld, WorkersExclusive
<1>. QED
  BY <1>1, <1>2, InitTypeInv, StepTypeInv, StepLockHeld, PTL DEF Spec

-----------------------------------------------------------------------------
(* One lead per appointment                                                *)

\* A step that touches no receipt and no lead's name, and after which a
\* delivery is at its POST only if it was there before.
Quiet ==
  /\ UNCHANGED <<lappt, rstate, rlead>>
  /\ \A l \in Leads : lstate[l] # "absent" => lstate'[l] # "absent"
  /\ \A p \in Procs : pc'[p] \in {"post", "reject", "ack"} =>
       pc'[p] = pc[p] /\ jrow'[p] = jrow[p] /\ work'[p] = work[p]

\* A step that leaves receipts and created leads alone keeps the invariant.
LEMMA QuietKeepsLeadInv == TypeInv /\ TypeInv' /\ LeadInv /\ Quiet => LeadInv'
<1>. SUFFICES ASSUME TypeInv, TypeInv', LeadInv, Quiet PROVE LeadInv'
  OBVIOUS
<1>. USE DEF LeadInv, Quiet, Creating, Appt
<1>1. CreatedOnce'
  BY DEF CreatedOnce
<1>2. ClaimExclusive'
  BY DEF ClaimExclusive
<1>3. ClaimedFresh'
  BY DEF ClaimedFresh, NoLead
<1>4. ClosedIsFree'
  BY DEF ClosedIsFree, NoLead
<1>5. AckNamesItsLead'
  BY DEF AckNamesItsLead
<1>6. ReceiptNamesItsLead' /\ OneLeadPerAppointment'
  BY DEF ReceiptNamesItsLead, OneLeadPerAppointment
<1>. QED
  BY <1>1, <1>2, <1>3, <1>4, <1>5, <1>6

\* Every action but those of the lead's receipt and POST is quiet.
LEMMA OtherActionsQuiet ==
  ASSUME TypeInv, [Next]_vars,
         ~\E p \in Procs : \/ ResolveReceipt(p) \/ Claim(p) \/ PostAccepted(p)
                          \/ PostRefused(p) \/ Acknowledge(p) \/ Reject(p)
  PROVE  Quiet
<1>. USE ConstantsAssumption DEF TypeInv, TypeOK, Quiet, Procs,
       rowVars, recptVars, noteVars, remoteVars, jobVars, memVars, cntVars
<1>1. ASSUME NEW r \in Rows, NEW j \in Jobs, WebhookSave(r, j) PROVE Quiet
  BY <1>1 DEF WebhookSave, Assign, Goto
<1>2. ASSUME NEW r \in Rows, NEW j \in Jobs, Reexport(r, j) PROVE Quiet
  BY <1>2 DEF Reexport, Assign, Goto
<1>3. ASSUME NEW r \in Rows, NEW j \in Jobs, Redispatch(r, j) PROVE Quiet
  BY <1>3 DEF Redispatch, Assign, Goto
<1>4. ASSUME NEW r \in Rows, NEW c \in Clis, CliStart(r, c) PROVE Quiet
  BY <1>4 DEF CliStart, Assign, Goto
<1>5. ASSUME NEW r \in Rows, LockExpires(r) PROVE Quiet
  BY <1>5 DEF LockExpires
<1>6. ASSUME NEW j \in Jobs, Dispatch(j) PROVE Quiet
  BY <1>6 DEF Dispatch, Goto
<1>7. ASSUME NEW j \in Jobs, WebDies(j) PROVE Quiet
  BY <1>7 DEF WebDies, Goto
<1>8. ASSUME NEW j \in Jobs, Defer(j) PROVE Quiet
  BY <1>8 DEF Defer, Popped
<1>9. ASSUME NEW j \in Jobs, Acquire(j) PROVE Quiet
  BY <1>9 DEF Acquire, Popped, Goto
<1>10. ASSUME NEW j \in Jobs, Redeliver(j) PROVE Quiet
  BY <1>10 DEF Redeliver, Goto
<1>11. ASSUME NEW j \in Jobs, Exhaust(j) PROVE Quiet
  BY <1>11 DEF Exhaust, Goto
<1>12. ASSUME NEW p \in Procs, Crash(p) PROVE Quiet
  BY <1>12 DEF Crash, Goto, Forget
<1>13. ASSUME NEW p \in Procs, Load(p) PROVE Quiet
  BY <1>13 DEF Load, Goto
<1>14. ASSUME NEW p \in Procs, Fails(p) PROVE Quiet
  BY <1>14 DEF Fails, Goto
<1>15. ASSUME NEW p \in Procs, LostLock(p) PROVE Quiet
  BY <1>15 DEF LostLock, Goto, Forget
<1>16. ASSUME NEW p \in Procs, ResolveOwn(p) PROVE Quiet
  BY <1>16 DEF ResolveOwn, AdoptLead, Goto
<1>17. ASSUME NEW p \in Procs, ResolveSearch(p) PROVE Quiet
  BY <1>17 DEF ResolveSearch, AdoptLead, Goto
<1>18. ASSUME NEW p \in Procs, Adopt(p) PROVE Quiet
  BY <1>18 DEF Adopt, Goto
<1>19. ASSUME NEW p \in Procs, Link(p) PROVE Quiet
  BY <1>19 DEF Link, Goto
<1>20. ASSUME NEW p \in Procs, NoteClaim(p) PROVE Quiet
  BY <1>20 DEF NoteClaim, Goto
<1>21. ASSUME NEW p \in Procs, NotePost(p) PROVE Quiet
  BY <1>21 DEF NotePost, Goto
<1>22. ASSUME NEW p \in Procs, Entities(p) PROVE Quiet
  BY <1>22 DEF Entities, Goto
<1>23. ASSUME NEW p \in Procs, Fields(p) PROVE Quiet
  BY <1>23 DEF Fields, Goto
<1>24. ASSUME NEW p \in Procs, Finish(p) PROVE Quiet
  BY <1>24 DEF Finish, Goto, Forget
<1>25. ASSUME NEW p \in Procs, TransportFailure(p) PROVE Quiet
  BY <1>25 DEF TransportFailure, Goto, Forget
<1>26. ASSUME NEW p \in Procs, OtherFailure(p) PROVE Quiet
  BY <1>26 DEF OtherFailure, Goto, Forget
<1>27. ASSUME NEW l \in Leads, ManagerDeletes(l) PROVE Quiet
  BY <1>27 DEF ManagerDeletes
<1>28. ASSUME Migrate PROVE Quiet
  BY <1>28 DEF Migrate
<1>29. CASE UNCHANGED vars
  BY <1>29 DEF vars
<1>. QED
  BY <1>1, <1>2, <1>3, <1>4, <1>5, <1>6, <1>7, <1>8, <1>9, <1>10, <1>11, <1>12, <1>13, <1>14, <1>15, <1>16, <1>17, <1>18, <1>19, <1>20, <1>21, <1>22, <1>23, <1>24, <1>25, <1>26, <1>27, <1>28, <1>29 DEF Next, Arrive, Queue, Work

\* The steps that resolve, claim, post and acknowledge keep the invariant of
\* receipts and leads.
LEMMA StepLeadInv == TypeInv /\ TypeInv' /\ LeadInv /\ [Next]_vars => LeadInv'
<1>. SUFFICES ASSUME TypeInv, TypeInv', LeadInv, [Next]_vars PROVE LeadInv'
  OBVIOUS
<1>. USE ConstantsAssumption, RowType DEF LeadInv, Creating, Goto, NoLead
<1>1. ASSUME NEW p \in Procs, ResolveReceipt(p) PROVE LeadInv'
  <2>1. UNCHANGED <<lappt, lstate, rstate, jrow>>
    BY <1>1 DEF ResolveReceipt, AdoptLead, remoteVars, jobVars, recptVars
  <2>2. \A q \in Procs : pc'[q] \in {"post", "reject", "ack"} => pc'[q] = pc[q] /\ work'[q] = work[q]
    BY <1>1 DEF ResolveReceipt, AdoptLead, TypeInv, TypeOK
  <2>3. \A a \in Appts : rlead'[a] = rlead[a] \/ lappt[rlead'[a]] = a
    BY <1>1 DEF ResolveReceipt, Reconciled, recptVars, TypeInv, TypeOK
  <2>4. ReceiptNamesItsLead'
    BY <2>1, <2>3 DEF ReceiptNamesItsLead
  <2>5. CreatedOnce' /\ OneLeadPerAppointment'
    BY <2>1 DEF CreatedOnce, OneLeadPerAppointment
  <2>6. ClaimExclusive' /\ ClaimedFresh'
    BY <2>1, <2>2 DEF ClaimExclusive, ClaimedFresh, Appt
  <2>7. ClosedIsFree' /\ AckNamesItsLead'
    BY <2>1, <2>2 DEF ClosedIsFree, AckNamesItsLead, Appt
  <2>. QED
    BY <2>4, <2>5, <2>6, <2>7
<1>2. ASSUME NEW p \in Procs, Claim(p) PROVE LeadInv'
  <2>1. UNCHANGED <<lappt, lstate, rlead, jrow, work>>
    BY <1>2 DEF Claim, remoteVars, jobVars, memVars
  <2>2. CASE ~Claimable(Appt(p))
    <3>1. UNCHANGED rstate /\ \A q \in Procs : pc'[q] \in {"post", "reject", "ack"} => pc'[q] = pc[q]
      BY <1>2, <2>2 DEF Claim, TypeInv, TypeOK
    <3>2. Quiet
      BY <2>1, <3>1 DEF Quiet
    <3>. QED
      BY <3>2, QuietKeepsLeadInv
  <2>3. CASE Claimable(Appt(p))
    <3>1. /\ Appt(p) \in Appts /\ rstate[Appt(p)] # "open"
          /\ rstate' = [rstate EXCEPT ![Appt(p)] = "open"]
          /\ pc[p] = "create" /\ pc' = [pc EXCEPT ![p] = "post"]
      BY <1>2, <2>3 DEF Claim, Claimable, TypeInv
    <3>2. NoLead(Appt(p)) /\ \A q \in Procs : pc[q] \in {"post", "reject", "ack"} => Appt(q) # Appt(p)
      BY <3>1 DEF ClosedIsFree
    <3>3. CreatedOnce' /\ OneLeadPerAppointment' /\ ReceiptNamesItsLead'
      BY <2>1 DEF CreatedOnce, OneLeadPerAppointment, ReceiptNamesItsLead
    <3>4. ClaimExclusive'
      BY <2>1, <3>1, <3>2 DEF ClaimExclusive, Appt, TypeInv, TypeOK
    <3>5. ClaimedFresh'
      BY <2>1, <3>1, <3>2 DEF ClaimedFresh, Appt, TypeInv, TypeOK
    <3>6. ClosedIsFree'
      BY <2>1, <3>1, <3>2 DEF ClosedIsFree, Appt, TypeInv, TypeOK
    <3>7. AckNamesItsLead'
      BY <2>1, <3>1 DEF AckNamesItsLead, Appt, TypeInv, TypeOK
    <3>. QED
      BY <3>3, <3>4, <3>5, <3>6, <3>7
  <2>. QED
    BY <2>2, <2>3
<1>3. ASSUME NEW p \in Procs, PostAccepted(p) PROVE LeadInv'
  <2>1. UNCHANGED <<rstate, rlead, jrow>> /\ pc[p] = "post" /\ Appt(p) \in Appts
    BY <1>3 DEF PostAccepted, recptVars, jobVars, TypeInv
  <2>2. PICK l \in Leads : /\ lstate[l] = "absent"
                          /\ lstate' = [lstate EXCEPT ![l] = "live"]
                          /\ lappt' = [lappt EXCEPT ![l] = Appt(p)]
                          /\ work' = [work EXCEPT ![p] = l]
    BY <1>3 DEF PostAccepted
  <2>3. PICK stage \in {"ack", "transport", "error"} : pc' = [pc EXCEPT ![p] = stage]
    BY <1>3 DEF PostAccepted
  <2>4. lappt[l] = None
    BY <2>2 DEF CreatedOnce
  <2>5. rstate[Appt(p)] = "open" /\ NoLead(Appt(p))
    BY <2>1 DEF ClaimedFresh
  <2>6. \A q \in Procs : Creating(q) /\ Appt(q) = Appt(p) => q = p
    BY <2>1 DEF ClaimExclusive
  <2>7. CreatedOnce'
    BY <2>2 DEF CreatedOnce, TypeInv, TypeOK
  <2>8. ClaimExclusive' /\ ClaimedFresh'
    BY <2>1, <2>2, <2>3, <2>6 DEF ClaimExclusive, ClaimedFresh, Appt, TypeInv, TypeOK
  <2>9. ClosedIsFree'
    BY <2>1, <2>2, <2>3, <2>5 DEF ClosedIsFree, Appt, TypeInv, TypeOK
  <2>10. AckNamesItsLead'
    <3>. SUFFICES ASSUME NEW q \in Procs, pc'[q] = "ack" PROVE lappt'[work'[q]] = Appt(q)
      BY <2>1 DEF AckNamesItsLead, Appt
    <3>1. CASE q = p
      BY <3>1, <2>2 DEF TypeInv, TypeOK
    <3>2. CASE q # p
      <4>1. pc[q] = "ack" /\ work'[q] = work[q] /\ work[q] \in Leads /\ lappt[work[q]] = Appt(q)
        BY <3>2, <2>2, <2>3 DEF AckNamesItsLead, TypeInv, TypeOK, WorkIsALead, HasLead
      <4>2. Appt(q) # None
        BY DEF TypeInv
      <4>. QED
        BY <4>1, <4>2, <2>2, <2>4 DEF TypeInv, TypeOK
    <3>. QED
      BY <3>1, <3>2
  <2>11. ReceiptNamesItsLead'
    BY <2>1, <2>2, <2>4 DEF ReceiptNamesItsLead, TypeInv, TypeOK
  <2>12. OneLeadPerAppointment'
    BY <2>2, <2>5 DEF OneLeadPerAppointment, TypeInv, TypeOK
  <2>. QED
    BY <2>7, <2>8, <2>9, <2>10, <2>11, <2>12
<1>4. ASSUME NEW p \in Procs, PostRefused(p) PROVE LeadInv'
  <2>1. UNCHANGED <<lappt, lstate, rstate, rlead, jrow, work>> /\ pc[p] = "post"
    BY <1>4 DEF PostRefused, recptVars, remoteVars, jobVars, memVars
  <2>2. PICK stage \in {"reject", "transport", "error"} : pc' = [pc EXCEPT ![p] = stage]
    BY <1>4 DEF PostRefused
  <2>3. \A q \in Procs : Creating(q)' => Creating(q)
    BY <2>1, <2>2 DEF TypeInv, TypeOK
  <2>4. \A q \in Procs : pc'[q] = "ack" => pc[q] = "ack"
    BY <2>2 DEF TypeInv, TypeOK
  <2>5. CreatedOnce' /\ OneLeadPerAppointment' /\ ReceiptNamesItsLead'
    BY <2>1 DEF CreatedOnce, OneLeadPerAppointment, ReceiptNamesItsLead
  <2>6. ClaimExclusive' /\ ClaimedFresh'
    BY <2>1, <2>3 DEF ClaimExclusive, ClaimedFresh, Appt
  <2>7. ClosedIsFree' /\ AckNamesItsLead'
    BY <2>1, <2>3, <2>4 DEF ClosedIsFree, AckNamesItsLead, Appt
  <2>. QED
    BY <2>5, <2>6, <2>7
<1>5. ASSUME NEW p \in Procs, Acknowledge(p) PROVE LeadInv'
  <2>1. /\ UNCHANGED <<lappt, lstate, rstate, jrow, work>> /\ pc[p] = "ack"
        /\ rlead' = [rlead EXCEPT ![Appt(p)] = work[p]]
        /\ pc' = [pc EXCEPT ![p] = "link"]
    BY <1>5 DEF Acknowledge, remoteVars, jobVars, memVars
  <2>2. lappt[work[p]] = Appt(p)
    BY <2>1 DEF AckNamesItsLead
  <2>3. ReceiptNamesItsLead'
    BY <2>1, <2>2 DEF ReceiptNamesItsLead, TypeInv, TypeOK
  <2>4. CreatedOnce' /\ OneLeadPerAppointment'
    BY <2>1 DEF CreatedOnce, OneLeadPerAppointment
  <2>5. \A q \in Procs : pc'[q] \in {"post", "reject", "ack"} => pc'[q] = pc[q]
    BY <2>1 DEF TypeInv, TypeOK
  <2>6. ClaimExclusive' /\ ClaimedFresh' /\ ClosedIsFree' /\ AckNamesItsLead'
    BY <2>1, <2>5 DEF ClaimExclusive, ClaimedFresh, ClosedIsFree, AckNamesItsLead, Appt
  <2>. QED
    BY <2>3, <2>4, <2>6
<1>6. ASSUME NEW p \in Procs, Reject(p) PROVE LeadInv'
  <2>1. /\ UNCHANGED <<lappt, lstate, rlead, jrow, work>> /\ pc[p] = "reject"
        /\ pc' = [pc EXCEPT ![p] = "error"]
        /\ \A a \in Appts : rstate'[a] # rstate[a] => a = Appt(p)
    BY <1>6 DEF Reject, remoteVars, jobVars, memVars, TypeInv, TypeOK
  <2>2. NoLead(Appt(p)) /\ rstate[Appt(p)] = "open"
    BY <2>1 DEF ClaimedFresh
  <2>3. \A q \in Procs : Creating(q)' => Creating(q) /\ Appt(q) # Appt(p)
    BY <2>1 DEF ClaimExclusive, TypeInv, TypeOK
  <2>4. \A q \in Procs : pc[q] = "ack" => Appt(q) # Appt(p)
    BY <2>2 DEF AckNamesItsLead, TypeInv, WorkIsALead, HasLead
  <2>5. \A q \in Procs : pc'[q] = "ack" => pc[q] = "ack"
    BY <2>1 DEF TypeInv, TypeOK
  <2>6. CreatedOnce' /\ OneLeadPerAppointment' /\ ReceiptNamesItsLead' /\ AckNamesItsLead'
    BY <2>1, <2>5 DEF CreatedOnce, OneLeadPerAppointment, ReceiptNamesItsLead, AckNamesItsLead, Appt
  <2>7. ClaimExclusive'
    BY <2>1, <2>3 DEF ClaimExclusive, Appt
  <2>8. ClaimedFresh'
    BY <2>1, <2>3 DEF ClaimedFresh, Appt, TypeInv
  <2>9. ClosedIsFree'
    <3>. SUFFICES ASSUME NEW a \in Appts, rstate'[a] # "open"
                  PROVE  /\ NoLead(a)
                         /\ \A q \in Procs : pc'[q] \in {"post", "reject", "ack"} => Appt(q) # a
      BY <2>1 DEF ClosedIsFree, Appt
    <3>1. CASE a = Appt(p)
      BY <3>1, <2>2, <2>3, <2>4, <2>5
    <3>2. CASE a # Appt(p)
      BY <3>2, <2>1, <2>3, <2>5 DEF ClosedIsFree
    <3>. QED
      BY <3>1, <3>2
  <2>. QED
    BY <2>6, <2>7, <2>8, <2>9
<1>7. CASE ~\E p \in Procs : \/ ResolveReceipt(p) \/ Claim(p) \/ PostAccepted(p)
                            \/ PostRefused(p) \/ Acknowledge(p) \/ Reject(p)
  BY <1>7, OtherActionsQuiet, QuietKeepsLeadInv
<1>. QED
  BY <1>1, <1>2, <1>3, <1>4, <1>5, <1>6, <1>7

\* Nothing is created or claimed yet.
LEMMA InitLeadInv == Init => LeadInv
<1>. SUFFICES ASSUME Init PROVE LeadInv
  OBVIOUS
<1>1. \A p \in Procs : Appt(p) # None
  BY InitTypeInv, RowType, ConstantsAssumption DEF TypeInv
<1>. QED
  BY <1>1, ConstantsAssumption
  DEF Init, LeadInv, CreatedOnce, ClaimExclusive, ClaimedFresh, ClosedIsFree, AckNamesItsLead,
      Creating, NoLead, ReceiptNamesItsLead, OneLeadPerAppointment

\* The invariant of receipts and leads holds in every reachable state.
LEMMA LeadInvariant == Spec => [](TypeInv /\ LeadInv)
  BY InitTypeInv, StepTypeInv, InitLeadInv, StepLeadInv, PTL DEF Spec

\* amoCRM creates at most one lead for an appointment (EntityCreateGuard).
THEOREM LeadCreatedOnce == Spec => []OneLeadPerAppointment
<1>1. LeadInv => OneLeadPerAppointment
  BY DEF LeadInv
<1>. QED
  BY <1>1, LeadInvariant, PTL

\* A receipt is acknowledged with a lead made for its appointment only.
THEOREM ReceiptIsTruthful == Spec => []ReceiptNamesItsLead
<1>1. LeadInv => ReceiptNamesItsLead
  BY DEF LeadInv
<1>. QED
  BY <1>1, LeadInvariant, PTL

-----------------------------------------------------------------------------
(* The lead receipts implement CreateOnce                                  *)

\* The set of creations, as the refinement mapping sees it.
Made == {<<lappt[l], l>> : l \in {m \in Leads : lappt[m] # None}}

\* A step creates a lead under its appointment's key, or lets the receipt learn
\* the lead created under it, or leaves both as they are.
LEMMA StepImplements ==
  ASSUME TypeInv, TypeInv', LeadInv, [Next]_vars
  PROVE  [Receipt!Next]_Receipt!vars
<1>. USE ConstantsAssumption, RowType
<1>1. ASSUME NEW p \in Procs, PostAccepted(p) PROVE Receipt!Next
  <2>1. PICK l \in Leads : lstate[l] = "absent" /\ lappt' = [lappt EXCEPT ![l] = Appt(p)]
    BY <1>1 DEF PostAccepted
  <2>2. UNCHANGED rlead /\ Appt(p) \in Appts /\ Appt(p) # None /\ NoLead(Appt(p)) /\ lappt[l] = None
    BY <1>1, <2>1 DEF PostAccepted, recptVars, TypeInv, LeadInv, CreatedOnce, ClaimedFresh, Creating
  <2>3. \A m \in Made : m[1] # Appt(p) /\ m[2] # l
    BY <2>2 DEF Made, NoLead
  <2>4. Made' = Made \cup {<<Appt(p), l>>}
    BY <2>1, <2>2 DEF Made, TypeInv, TypeOK
  <2>5. Receipt!Create(Appt(p), l)
    BY <2>2, <2>3, <2>4 DEF Receipt!Create, Made
  <2>. QED
    BY <2>2, <2>5 DEF Receipt!Next
<1>2. ASSUME NEW p \in Procs, Acknowledge(p) PROVE Receipt!Next
  <2>1. /\ UNCHANGED lappt /\ Appt(p) \in Appts /\ work[p] \in Leads /\ lappt[work[p]] = Appt(p)
        /\ rlead' = [rlead EXCEPT ![Appt(p)] = work[p]]
    BY <1>2 DEF Acknowledge, remoteVars, TypeInv, WorkIsALead, HasLead, LeadInv, AckNamesItsLead
  <2>2. <<Appt(p), work[p]>> \in Made
    BY <2>1 DEF Made, TypeInv
  <2>3. Receipt!Learn(Appt(p), work[p])
    BY <2>1, <2>2 DEF Receipt!Learn, Made
  <2>. QED
    BY <2>1, <2>3 DEF Receipt!Next
<1>3. ASSUME NEW p \in Procs, ResolveReceipt(p) PROVE [Receipt!Next]_Receipt!vars
  <2>1. UNCHANGED lappt /\ Appt(p) \in Appts
    BY <1>3 DEF ResolveReceipt, remoteVars, TypeInv
  <2>2. CASE UNCHANGED rlead
    BY <2>1, <2>2 DEF Receipt!vars
  <2>3. CASE rlead' # rlead
    <3>1. PICK l \in Reconciled(Appt(p)) : rlead' = [rlead EXCEPT ![Appt(p)] = l]
      BY <1>3, <2>3 DEF ResolveReceipt, recptVars
    <3>2. l \in Leads /\ <<Appt(p), l>> \in Made
      BY <2>1, <3>1 DEF Reconciled, Made, TypeInv
    <3>3. Receipt!Learn(Appt(p), l)
      BY <2>1, <3>1, <3>2 DEF Receipt!Learn, Made
    <3>. QED
      BY <2>1, <3>2, <3>3 DEF Receipt!Next
  <2>. QED
    BY <2>2, <2>3
<1>4. ASSUME NEW p \in Procs, Claim(p) \/ PostRefused(p) \/ Reject(p) PROVE UNCHANGED <<lappt, rlead>>
  BY <1>4 DEF Claim, PostRefused, Reject, remoteVars, recptVars
<1>5. CASE ~\E p \in Procs : \/ ResolveReceipt(p) \/ Claim(p) \/ PostAccepted(p)
                            \/ PostRefused(p) \/ Acknowledge(p) \/ Reject(p)
  BY <1>5, OtherActionsQuiet DEF Quiet, Receipt!vars
<1>. QED
  BY <1>1, <1>2, <1>3, <1>4, <1>5 DEF Receipt!vars

\* Every behaviour of the export is one CreateOnce allows (LeadsCreatedOnce).
THEOREM ReceiptsImplementCreateOnce == Spec => LeadsCreatedOnce
<1>1. Init => Receipt!Init
  BY DEF Init, Receipt!Init
<1>. QED
  BY <1>1, StepImplements, StepTypeInv, LeadInvariant, PTL DEF Spec, LeadsCreatedOnce, Receipt!Spec

-----------------------------------------------------------------------------
(* One note per event                                                      *)

\* A delivery about to post a note has claimed its event alone, and nobody
\* has posted that note.
NoteInv ==
  /\ \A n \in notes : n[1] \in noteClaims
  /\ \A p \in Procs : pc[p] = "notepost" =>
       NoteEvent(p) \in noteClaims /\ \A n \in notes : n[1] # NoteEvent(p)
  /\ \A p, q \in Procs :
       pc[p] = "notepost" /\ pc[q] = "notepost" /\ NoteEvent(p) = NoteEvent(q) => p = q
  /\ NoteOncePerEvent

\* A step that neither claims nor posts a note.
NoteQuiet ==
  /\ UNCHANGED <<noteClaims, notes>>
  /\ \A p \in Procs : pc'[p] = "notepost" =>
       pc[p] = "notepost" /\ jrow'[p] = jrow[p] /\ work'[p] = work[p] /\ seen'[p] = seen[p]

\* Every action but the note's claim and POST leaves the notes alone.
LEMMA OtherActionsNoteQuiet ==
  ASSUME TypeInv, [Next]_vars, ~\E p \in Procs : NoteClaim(p) \/ NotePost(p)
  PROVE  NoteQuiet
<1>. USE ConstantsAssumption DEF TypeInv, TypeOK, NoteQuiet, Procs,
       rowVars, recptVars, noteVars, remoteVars, jobVars, memVars, cntVars
<1>1. ASSUME NEW r \in Rows, NEW j \in Jobs, WebhookSave(r, j) PROVE NoteQuiet
  BY <1>1 DEF WebhookSave, Assign, Goto
<1>2. ASSUME NEW r \in Rows, NEW j \in Jobs, Reexport(r, j) PROVE NoteQuiet
  BY <1>2 DEF Reexport, Assign, Goto
<1>3. ASSUME NEW r \in Rows, NEW j \in Jobs, Redispatch(r, j) PROVE NoteQuiet
  BY <1>3 DEF Redispatch, Assign, Goto
<1>4. ASSUME NEW r \in Rows, NEW c \in Clis, CliStart(r, c) PROVE NoteQuiet
  BY <1>4 DEF CliStart, Assign, Goto
<1>5. ASSUME NEW r \in Rows, LockExpires(r) PROVE NoteQuiet
  BY <1>5 DEF LockExpires
<1>6. ASSUME NEW j \in Jobs, Dispatch(j) PROVE NoteQuiet
  BY <1>6 DEF Dispatch, Goto
<1>7. ASSUME NEW j \in Jobs, WebDies(j) PROVE NoteQuiet
  BY <1>7 DEF WebDies, Goto
<1>8. ASSUME NEW j \in Jobs, Defer(j) PROVE NoteQuiet
  BY <1>8 DEF Defer, Popped
<1>9. ASSUME NEW j \in Jobs, Acquire(j) PROVE NoteQuiet
  BY <1>9 DEF Acquire, Popped, Goto
<1>10. ASSUME NEW j \in Jobs, Redeliver(j) PROVE NoteQuiet
  BY <1>10 DEF Redeliver, Goto
<1>11. ASSUME NEW j \in Jobs, Exhaust(j) PROVE NoteQuiet
  BY <1>11 DEF Exhaust, Goto
<1>12. ASSUME NEW p \in Procs, Crash(p) PROVE NoteQuiet
  BY <1>12 DEF Crash, Goto, Forget
<1>13. ASSUME NEW p \in Procs, Load(p) PROVE NoteQuiet
  BY <1>13 DEF Load, Goto
<1>14. ASSUME NEW p \in Procs, Fails(p) PROVE NoteQuiet
  BY <1>14 DEF Fails, Goto
<1>15. ASSUME NEW p \in Procs, LostLock(p) PROVE NoteQuiet
  BY <1>15 DEF LostLock, Goto, Forget
<1>16. ASSUME NEW p \in Procs, ResolveOwn(p) PROVE NoteQuiet
  BY <1>16 DEF ResolveOwn, AdoptLead, Goto
<1>17. ASSUME NEW p \in Procs, ResolveReceipt(p) PROVE NoteQuiet
  BY <1>17 DEF ResolveReceipt, AdoptLead, Goto
<1>18. ASSUME NEW p \in Procs, ResolveSearch(p) PROVE NoteQuiet
  BY <1>18 DEF ResolveSearch, AdoptLead, Goto
<1>19. ASSUME NEW p \in Procs, Adopt(p) PROVE NoteQuiet
  BY <1>19 DEF Adopt, Goto
<1>20. ASSUME NEW p \in Procs, Claim(p) PROVE NoteQuiet
  BY <1>20 DEF Claim, Goto
<1>21. ASSUME NEW p \in Procs, PostAccepted(p) PROVE NoteQuiet
  BY <1>21 DEF PostAccepted, Goto
<1>22. ASSUME NEW p \in Procs, PostRefused(p) PROVE NoteQuiet
  BY <1>22 DEF PostRefused, Goto
<1>23. ASSUME NEW p \in Procs, Acknowledge(p) PROVE NoteQuiet
  BY <1>23 DEF Acknowledge, Goto
<1>24. ASSUME NEW p \in Procs, Reject(p) PROVE NoteQuiet
  BY <1>24 DEF Reject, Goto
<1>25. ASSUME NEW p \in Procs, Link(p) PROVE NoteQuiet
  BY <1>25 DEF Link, Goto
<1>26. ASSUME NEW p \in Procs, Entities(p) PROVE NoteQuiet
  BY <1>26 DEF Entities, Goto
<1>27. ASSUME NEW p \in Procs, Fields(p) PROVE NoteQuiet
  BY <1>27 DEF Fields, Goto
<1>28. ASSUME NEW p \in Procs, Finish(p) PROVE NoteQuiet
  BY <1>28 DEF Finish, Goto, Forget
<1>29. ASSUME NEW p \in Procs, TransportFailure(p) PROVE NoteQuiet
  BY <1>29 DEF TransportFailure, Goto, Forget
<1>30. ASSUME NEW p \in Procs, OtherFailure(p) PROVE NoteQuiet
  BY <1>30 DEF OtherFailure, Goto, Forget
<1>31. ASSUME NEW l \in Leads, ManagerDeletes(l) PROVE NoteQuiet
  BY <1>31 DEF ManagerDeletes
<1>32. ASSUME Migrate PROVE NoteQuiet
  BY <1>32 DEF Migrate
<1>33. CASE UNCHANGED vars
  BY <1>33 DEF vars
<1>. QED
  BY <1>1, <1>2, <1>3, <1>4, <1>5, <1>6, <1>7, <1>8, <1>9, <1>10, <1>11, <1>12, <1>13, <1>14, <1>15, <1>16, <1>17, <1>18, <1>19, <1>20, <1>21, <1>22, <1>23, <1>24, <1>25, <1>26, <1>27, <1>28, <1>29, <1>30, <1>31, <1>32, <1>33 DEF Next, Arrive, Queue, Work

\* A note is posted by the delivery that claimed its event, once.
LEMMA StepNoteInv == TypeInv /\ NoteInv /\ [Next]_vars => NoteInv'
<1>. SUFFICES ASSUME TypeInv, NoteInv, [Next]_vars PROVE NoteInv'
  OBVIOUS
<1>. USE DEF NoteInv, NoteOncePerEvent
<1>1. ASSUME NEW p \in Procs, NoteClaim(p) PROVE NoteInv'
  <2>1. UNCHANGED <<notes, jrow, work, seen>> /\ pc[p] = "note"
    BY <1>1 DEF NoteClaim, jobVars, memVars
  <2>2. \A q \in Procs : NoteEvent(q)' = NoteEvent(q)
    BY <2>1 DEF NoteEvent, Appt
  <2>3. CASE wantsNote[p] /\ NoteEvent(p) \notin noteClaims
    <3>1. noteClaims' = noteClaims \cup {NoteEvent(p)} /\ pc' = [pc EXCEPT ![p] = "notepost"]
      BY <1>1, <2>3 DEF NoteClaim, Goto
    <3>2. \A q \in Procs : pc'[q] = "notepost" => q = p \/ pc[q] = "notepost"
      BY <3>1 DEF TypeInv, TypeOK
    <3>. QED
      BY <2>1, <2>2, <2>3, <3>1, <3>2
  <2>4. CASE ~(wantsNote[p] /\ NoteEvent(p) \notin noteClaims)
    <3>1. UNCHANGED noteClaims /\ pc' = [pc EXCEPT ![p] = "entities"]
      BY <1>1, <2>4 DEF NoteClaim, Goto
    <3>2. \A q \in Procs : pc'[q] = "notepost" => pc[q] = "notepost"
      BY <3>1 DEF TypeInv, TypeOK
    <3>. QED
      BY <2>1, <2>2, <3>1, <3>2
  <2>. QED
    BY <2>3, <2>4
<1>2. ASSUME NEW p \in Procs, NotePost(p) PROVE NoteInv'
  <2>1. /\ UNCHANGED <<noteClaims, jrow, work, seen>> /\ pc[p] = "notepost"
        /\ notes' = notes \cup {<<NoteEvent(p), p, tries[p]>>}
    BY <1>2 DEF NotePost, jobVars, memVars
  <2>2. \A q \in Procs : NoteEvent(q)' = NoteEvent(q)
    BY <2>1 DEF NoteEvent, Appt
  <2>3. \A q \in Procs : pc'[q] = "notepost" => q # p /\ pc[q] = "notepost"
    BY <1>2 DEF NotePost, Goto, TypeInv, TypeOK
  <2>. QED
    BY <2>1, <2>2, <2>3
<1>3. CASE ~\E p \in Procs : NoteClaim(p) \/ NotePost(p)
  <2>1. NoteQuiet
    BY <1>3, OtherActionsNoteQuiet
  <2>2. \A p \in Procs : pc'[p] = "notepost" => pc[p] = "notepost" /\ NoteEvent(p)' = NoteEvent(p)
    BY <2>1 DEF NoteQuiet, NoteEvent, Appt
  <2>. QED
    BY <2>1, <2>2 DEF NoteQuiet
<1>. QED
  BY <1>1, <1>2, <1>3

\* One event is noted at most once, whatever is retried (NoteOncePerEvent).
THEOREM NoteSentOnce == Spec => []NoteOncePerEvent
<1>1. Init => NoteInv
  BY DEF Init, NoteInv, NoteOncePerEvent
<1>2. NoteInv => NoteOncePerEvent
  BY DEF NoteInv
<1>. QED
  BY <1>1, <1>2, InitTypeInv, StepTypeInv, StepNoteInv, PTL DEF Spec

-----------------------------------------------------------------------------
(* Outcomes, where no re-export runs inline                                *)

\* Who writes an outcome works on the row, or finds its lock free.
LEMMA OutcomeOwner ==
  ASSUME TypeInv, LockHeld, Clis = {}, [Next]_vars,
         NEW r \in Rows, status'[r] # status[r], status'[r] # "pending"
  PROVE  \E p \in Jobs : /\ jrow[p] = r
                         /\ \/ pc[p] \in Section /\ pc'[p] \notin Section
                            \/ lock[r] \in {None, p} /\ pc[p] \notin Section
<1> DEFINE Owner == \E p \in Jobs : /\ jrow[p] = r
                                    /\ \/ pc[p] \in Section /\ pc'[p] \notin Section
                                       \/ lock[r] \in {None, p} /\ pc[p] \notin Section
<1>. USE DEF TypeInv, TypeOK, rowVars
<1>1. ASSUME NEW q \in Rows, NEW j \in Jobs, WebhookSave(q, j) \/ Reexport(q, j) \/ Redispatch(q, j)
      PROVE  FALSE
  BY <1>1 DEF WebhookSave, Reexport, Redispatch
<1>2. ASSUME NEW j \in Jobs, Exhaust(j) PROVE Owner
  BY <1>2 DEF Exhaust, LockFreeFor, Row, Section
<1>3. ASSUME NEW j \in Jobs, Acquire(j) PROVE FALSE
  BY <1>3 DEF Acquire, Row
<1>4. ASSUME NEW j \in Jobs, Dispatch(j) \/ WebDies(j) \/ Defer(j) \/ Redeliver(j) PROVE FALSE
  BY <1>4 DEF Dispatch, WebDies, Defer, Redeliver
<1>5. ASSUME NEW q \in Rows, LockExpires(q) PROVE FALSE
  BY <1>5 DEF LockExpires
<1>6. ASSUME NEW p \in Jobs, Finish(p) \/ TransportFailure(p) \/ OtherFailure(p) PROVE Owner
  <2>1. /\ pc[p] \in Section /\ jrow[p] = r
        /\ \E s \in {"queued", "failed", "done"} : Goto(p, s)
    BY <1>6 DEF Finish, TransportFailure, OtherFailure, Row, Section
  <2>2. pc'[p] \notin Section
    BY <2>1 DEF Goto, Section, Procs
  <2>. QED
    BY <2>1, <2>2
<1>7. ASSUME NEW p \in Jobs, LostLock(p) PROVE FALSE
  BY <1>7 DEF LostLock
<1>8. ASSUME NEW p \in Jobs,
             \/ Crash(p) \/ Load(p) \/ Fails(p) \/ ResolveOwn(p) \/ ResolveReceipt(p)
             \/ ResolveSearch(p) \/ Adopt(p) \/ Claim(p) \/ PostAccepted(p) \/ PostRefused(p)
             \/ Acknowledge(p) \/ Reject(p) \/ Link(p) \/ NoteClaim(p) \/ NotePost(p)
             \/ Entities(p) \/ Fields(p)
      PROVE  FALSE
  BY <1>8 DEF Crash, Load, Fails, ResolveOwn, ResolveReceipt, ResolveSearch, Adopt, Claim,
       PostAccepted, PostRefused, Acknowledge, Reject, Link, NoteClaim, NotePost, Entities, Fields
<1>9. ASSUME (\E l \in Leads : ManagerDeletes(l)) \/ Migrate \/ UNCHANGED vars PROVE FALSE
  BY <1>9 DEF ManagerDeletes, Migrate, vars
<1>. QED
  BY <1>1, <1>2, <1>3, <1>4, <1>5, <1>6, <1>7, <1>8, <1>9 DEF Next, Arrive, Queue, Work, Procs

\* While re-exports are queued, no outcome is written under a delivery that is
\* still working on the row (RecordSend::handle, RecordSend::failed).
THEOREM OutcomeIsItsWorkers ==
  ASSUME Clis = {}
  PROVE  Spec => OutcomeFromItsWorker
<1> DEFINE Apart ==
      \A r \in Rows :
        status'[r] # status[r] /\ status'[r] # "pending" =>
          \A j \in Jobs : ~(jrow[j] = r /\ pc[j] \in Section /\ pc'[j] \in Section)
<1>1. ASSUME TypeInv, LockHeld, [Next]_vars PROVE Apart
  <2> SUFFICES ASSUME NEW r \in Rows, status'[r] # status[r], status'[r] # "pending",
                      NEW j \in Jobs, jrow[j] = r, pc[j] \in Section, pc'[j] \in Section
               PROVE  FALSE
    OBVIOUS
  <2>1. lock[r] = j
    BY <1>1 DEF LockHeld
  <2>2. \A p \in Jobs : pc[p] \in Section /\ jrow[p] = r => lock[r] = p
    BY <1>1 DEF LockHeld
  <2>. QED
    BY <1>1, <2>1, <2>2, OutcomeOwner, ConstantsAssumption DEF Procs
<1>2. Init => LockHeld
  BY DEF Init, LockHeld, Section, Procs
<1>. QED
  BY <1>1, <1>2, InitTypeInv, StepTypeInv, StepLockHeld, PTL DEF Spec, OutcomeFromItsWorker

-----------------------------------------------------------------------------
(* No lost update, for one row that only queued deliveries export.  (Leads  *)
(* that several appointments share do not show the last webhook of each,    *)
(* see LeadServesOneAppointment.)                                           *)

\* A delivery of the row that is to come, or never came.
Awaiting == {"dispatch", "queued", "crashed", "exhausted", "undispatched"}
Owed(r) == \E j \in Jobs : jrow[j] = r /\ pc[j] \in Awaiting

Mine(r) == <<ApptOf[r], ver[r]>>
Shown(r, marks) == leadId[r] # None /\ Live(leadId[r]) => marks[leadId[r]] = Mine(r)

\* The lead has the row's status; a row without a lead needs none.
Placed(r) == (leadId[r] = None => gone[r]) /\ Shown(r, lstatus)

Knows(p) == seen[p].ver = ver[Row(p)] /\ seen[p].gone = gone[Row(p)] /\ seen[p].lead = leadId[Row(p)]

\* How far a delivery has brought the row that it read: no webhook came since.
Advanced(p) ==
  /\ pc[p] \in {"resolve", "adopt", "create", "post", "ack", "link", "fields"} => Knows(p)
  /\ pc[p] \in {"ack", "link", "note", "notepost"} => lstatus[work[p]] = Mine(Row(p))
  /\ pc[p] \in {"note", "notepost"} => leadId[Row(p)] = work[p]
  /\ pc[p] \in {"entities", "fields", "finish"} => Placed(Row(p))
  /\ pc[p] = "fields" => leadId[Row(p)] # None
  /\ pc[p] = "finish" => Shown(Row(p), lfields)

Worked(r) == \E p \in Jobs : pc[p] \in Section /\ jrow[p] = r

\* Unless a delivery is owed, the one that works has not missed a webhook, and
\* if none works, success means that the lead is up to date.
UpToDate(r) ==
  /\ \A p \in Jobs : pc[p] \in Section /\ jrow[p] = r => Advanced(p)
  /\ status[r] = "success" => Worked(r) \/ (Placed(r) /\ Shown(r, lfields))

CurrentInv == \A r \in Rows : Owed(r) \/ UpToDate(r)

\* There is one row, and no re-export runs inline.
Alone == Clis = {} /\ \A q, r \in Rows : q = r

\* A delivery that goes on, or ends with an outcome, keeps the invariant if it
\* has advanced the row as far as its stage says.
LEMMA WorkerKeeps ==
  ASSUME TypeInv, TypeInv', LockHeld, Alone, CurrentInv, NEW p \in Jobs, pc[p] \in Section,
         UNCHANGED jrow, NEW s \in Stages, pc' = [pc EXCEPT ![p] = s],
         UpToDate(Row(p)) /\ Advanced(p) =>
            \/ s \in Awaiting
            \/ s \in Section /\ Advanced(p)'
            \/ s \notin Section /\ (status'[Row(p)] = "success" =>
                                       Placed(Row(p))' /\ Shown(Row(p), lfields)')
  PROVE  CurrentInv'
<1> SUFFICES ASSUME NEW r \in Rows PROVE Owed(r)' \/ UpToDate(r)'
  BY DEF CurrentInv
<1>1. jrow[p] = r /\ Row(p) = r /\ Row(p)' = r
  BY DEF Row, Alone, TypeInv, TypeOK, Procs
<1>2. pc'[p] = s /\ \A j \in Jobs : j # p => pc'[j] = pc[j]
  BY DEF TypeInv, TypeOK, Procs
<1>3. \A j \in Jobs : pc[j] \in Section /\ jrow[j] = r => j = p
  BY <1>1 DEF LockHeld
<1>4. CASE Owed(r)
  <2>1. PICK j \in Jobs : jrow[j] = r /\ pc[j] \in Awaiting
    BY <1>4 DEF Owed
  <2>2. j # p
    BY <2>1 DEF Awaiting, Section
  <2>. QED
    BY <1>2, <2>1, <2>2 DEF Owed
<1>5. CASE ~Owed(r)
  <2>1. UpToDate(r) /\ Advanced(p)
    BY <1>1, <1>5 DEF CurrentInv, UpToDate
  <2>2. CASE s \in Awaiting
    BY <1>1, <1>2, <2>2 DEF Owed
  <2>3. CASE s \in Section /\ Advanced(p)'
    <3>1. \A j \in Jobs : pc'[j] \in Section /\ jrow'[j] = r => j = p
      BY <1>2, <1>3
    <3>. QED
      BY <1>1, <1>2, <2>3, <3>1 DEF UpToDate, Worked
  <2>4. CASE s \notin Section /\ (status'[Row(p)] = "success" =>
                                    Placed(Row(p))' /\ Shown(Row(p), lfields)')
    <3>1. \A j \in Jobs : ~(pc'[j] \in Section /\ jrow'[j] = r)
      BY <1>2, <1>3, <2>4
    <3>2. status'[r] = "success" => Placed(r)' /\ Shown(r, lfields)'
      BY <1>1, <2>4 DEF Placed, Shown, Mine, Live
    <3>. QED
      BY <3>1, <3>2 DEF UpToDate
  <2>. QED
    BY <1>1, <2>1, <2>2, <2>3, <2>4
<1>. QED
  BY <1>4, <1>5

\* The row is exported, step by step.
LEMMA WorkCurrent ==
  ASSUME TypeInv, TypeInv', LockHeld, Alone, CurrentInv, NEW p \in Jobs, Work(p) \/ Crash(p)
  PROVE  CurrentInv'
<1>1. /\ Row(p) \in Rows /\ Appt(p) = ApptOf[Row(p)] /\ Appt(p) \in Appts
      /\ p \in Procs /\ pc[p] \in Stages /\ work[p] \in Leads \cup {None}
      /\ leadId[Row(p)] \in Leads \cup {None}
  BY RowType DEF Appt, Row, TypeInv, TypeOK, Procs
<1>2. \A l : ~OwnedByAnother(l, Appt(p))
  BY <1>1 DEF OwnedByAnother, Alone
<1>3. \A s : Goto(p, s) => pc'[p] = s
  BY <1>1 DEF Goto, TypeInv, TypeOK
<1>4. UNCHANGED jrow => Row(p)' = Row(p)
  BY DEF Row
<1>5. ASSUME Crash(p) \/ LostLock(p) PROVE CurrentInv'
  <2>1. pc[p] \in Section /\ UNCHANGED jrow /\ \E s \in Awaiting : Goto(p, s)
    BY <1>5 DEF Crash, LostLock, jobVars, Section, Awaiting
  <2>. QED
    BY <2>1, WorkerKeeps DEF Goto, Awaiting, Stages, Ended
<1>6. ASSUME Load(p) PROVE CurrentInv'
  <2>1. /\ pc[p] \in Section /\ UNCHANGED <<jrow, ver, gone, leadId>> /\ Goto(p, "resolve")
        /\ seen'[p] = [ver |-> ver[Row(p)], gone |-> gone[Row(p)], lead |-> leadId[Row(p)]]
    BY <1>1, <1>6 DEF Load, jobVars, rowVars, Section, TypeInv, TypeOK
  <2>2. Advanced(p)'
    BY <1>3, <1>4, <2>1 DEF Advanced, Knows
  <2>. QED
    BY <2>1, <2>2, WorkerKeeps DEF Goto, Section, Stages
<1>7. ASSUME Fails(p) \/ PostRefused(p) \/ Reject(p) PROVE CurrentInv'
  <2>1. /\ pc[p] \in Section /\ UNCHANGED jrow
        /\ \E s \in {"transport", "error", "reject"} : Goto(p, s)
    BY <1>7 DEF Fails, PostRefused, Reject, jobVars, Section
  <2>2. Advanced(p)'
    BY <1>3, <2>1 DEF Advanced
  <2>. QED
    BY <2>1, <2>2, WorkerKeeps DEF Goto, Section, Stages
<1>8. ASSUME ResolveOwn(p) \/ ResolveReceipt(p) \/ ResolveSearch(p) \/ Claim(p) PROVE CurrentInv'
  <2>1. /\ pc[p] \in {"resolve", "create"} /\ UNCHANGED <<jrow, seen, remoteVars, rowVars>>
        /\ \E s \in {"adopt", "transport", "error", "entities", "create", "post"} : Goto(p, s)
    BY <1>8 DEF ResolveOwn, ResolveReceipt, ResolveSearch, Claim, AdoptLead, jobVars, memVars
  <2>2. PICK s \in {"adopt", "transport", "error", "entities", "create", "post"} : Goto(p, s)
    BY <2>1
  <2>3. UNCHANGED <<ver, gone, leadId, lstate, lstatus, lfields>>
    BY <2>1 DEF rowVars, remoteVars
  <2>4. ASSUME Advanced(p) PROVE Advanced(p)'
    <3>1. Knows(p) /\ Knows(p)'
      BY <1>4, <2>1, <2>3, <2>4 DEF Advanced, Knows
    <3>2. CASE s = "entities"
      <4>1. ResolveSearch(p) /\ ~OwnLeadUsable(p) /\ seen[p].gone
        BY <1>3, <1>8, <2>2, <3>2
           DEF ResolveOwn, ResolveReceipt, ResolveSearch, Claim, AdoptLead
      <4>2. gone[Row(p)] /\ (leadId[Row(p)] # None => ~Live(leadId[Row(p)]))
        BY <1>2, <3>1, <4>1 DEF Knows, OwnLeadUsable
      <4>3. Placed(Row(p))
        BY <4>2 DEF Placed, Shown
      <4>4. Placed(Row(p))'
        BY <1>4, <2>1, <2>3, <4>3 DEF Placed, Shown, Mine, Live
      <4>. QED
        BY <1>3, <2>2, <3>2, <4>4 DEF Advanced
    <3>3. CASE s # "entities"
      BY <1>3, <2>2, <3>1, <3>3 DEF Advanced
    <3>. QED
      BY <3>2, <3>3
  <2>. QED
    BY <2>1, <2>2, <2>4, WorkerKeeps DEF Goto, Section, Stages
<1>9. ASSUME Adopt(p) \/ PostAccepted(p) PROVE CurrentInv'
  <2>1. /\ pc[p] \in {"adopt", "post"} /\ UNCHANGED <<jrow, seen, rowVars>>
        /\ \E s \in {"ack", "link", "transport", "error"} : Goto(p, s)
        /\ Advanced(p) => lstatus'[work'[p]] = <<Appt(p), seen[p].ver>>
    BY <1>1, <1>9 DEF Adopt, PostAccepted, Live, jobVars, memVars, rowVars, TypeInv, TypeOK
  <2>2. PICK s \in {"ack", "link", "transport", "error"} : Goto(p, s)
    BY <2>1
  <2>3. Advanced(p) => Advanced(p)'
    BY <1>1, <1>3, <1>4, <2>1, <2>2 DEF Advanced, Knows, Mine, rowVars
  <2>. QED
    BY <2>1, <2>2, <2>3, WorkerKeeps DEF Goto, Section, Stages
<1>10. ASSUME Acknowledge(p) PROVE CurrentInv'
  <2>1. /\ pc[p] = "ack" /\ UNCHANGED <<jrow, seen, work, rowVars, lstatus>> /\ Goto(p, "link")
    BY <1>10 DEF Acknowledge, jobVars, memVars, remoteVars
  <2>2. Advanced(p) => Advanced(p)'
    BY <1>3, <1>4, <2>1 DEF Advanced, Knows, Mine, rowVars
  <2>. QED
    BY <2>1, <2>2, WorkerKeeps DEF Goto, Section, Stages
<1>11. ASSUME Link(p) PROVE CurrentInv'
  <2>1. /\ pc[p] = "link" /\ UNCHANGED <<jrow, seen, work, ver, gone, lstatus>>
        /\ \E s \in {"note", "transport", "error"} : Goto(p, s)
        /\ leadId'[Row(p)] = IF work[p] = seen[p].lead THEN leadId[Row(p)] ELSE work[p]
    BY <1>1, <1>11 DEF Link, jobVars, memVars, remoteVars, TypeInv, TypeOK
  <2>2. PICK s \in {"note", "transport", "error"} : Goto(p, s)
    BY <2>1
  <2>3. Advanced(p) => Advanced(p)'
    BY <1>3, <1>4, <2>1, <2>2 DEF Advanced, Knows, Mine
  <2>. QED
    BY <2>1, <2>2, <2>3, WorkerKeeps DEF Goto, Section, Stages
<1>12. ASSUME NoteClaim(p) \/ NotePost(p) PROVE CurrentInv'
  <2>1. /\ pc[p] \in {"note", "notepost"} /\ UNCHANGED <<jrow, work, rowVars, remoteVars>>
        /\ \E s \in {"notepost", "entities", "transport", "error"} : Goto(p, s)
    BY <1>12 DEF NoteClaim, NotePost, jobVars, memVars
  <2>2. PICK s \in {"notepost", "entities", "transport", "error"} : Goto(p, s)
    BY <2>1
  <2>3. ASSUME Advanced(p) PROVE Advanced(p)'
    <3>1. leadId[Row(p)] = work[p] /\ lstatus[work[p]] = Mine(Row(p)) /\ work[p] # None
      BY <2>1, <2>3, ConstantsAssumption DEF Advanced, TypeInv, WorkIsALead, HasLead, Procs
    <3>2. /\ leadId'[Row(p)'] = work'[p] /\ lstatus'[work'[p]] = Mine(Row(p))'
          /\ Placed(Row(p))'
      BY <1>4, <2>1, <3>1 DEF Mine, Placed, Shown, rowVars, remoteVars
    <3>. QED
      BY <1>3, <2>2, <3>2 DEF Advanced
  <2>. QED
    BY <2>1, <2>2, <2>3, WorkerKeeps DEF Goto, Section, Stages
<1>13. ASSUME Entities(p) PROVE CurrentInv'
  <2>1. /\ pc[p] = "entities" /\ UNCHANGED <<jrow, rowVars, remoteVars>>
        /\ seen'[p] = [ver |-> ver[Row(p)], gone |-> gone[Row(p)], lead |-> leadId[Row(p)]]
        /\ Goto(p, IF leadId[Row(p)] = None THEN "finish" ELSE "fields")
    BY <1>1, <1>2, <1>13 DEF Entities, jobVars, TypeInv, TypeOK
  <2>2. PICK s \in {"finish", "fields"} : s = IF leadId[Row(p)] = None THEN "finish" ELSE "fields"
    OBVIOUS
  <2>3. ASSUME Advanced(p) PROVE Advanced(p)'
    <3>1. Placed(Row(p))'
      BY <1>4, <2>1, <2>3 DEF Advanced, Placed, Shown, Mine, Live, rowVars, remoteVars
    <3>2. Knows(p)' /\ UNCHANGED leadId
      BY <1>4, <2>1 DEF Knows, rowVars
    <3>. QED
      BY <1>3, <1>4, <2>1, <2>2, <3>1, <3>2 DEF Advanced, Shown
  <2>. QED
    BY <2>1, <2>2, <2>3, WorkerKeeps DEF Goto, Section, Stages
<1>14. ASSUME Fields(p) PROVE CurrentInv'
  <2>1. /\ pc[p] = "fields" /\ UNCHANGED <<jrow, seen, rowVars, lstate, lstatus>>
        /\ \E s \in {"finish", "transport", "error"} : Goto(p, s)
        /\ Live(seen[p].lead) /\ seen[p].lead \in Leads =>
             lfields'[seen[p].lead] = <<Appt(p), seen[p].ver>>
    BY <1>14 DEF Fields, jobVars, memVars, TypeInv, TypeOK
  <2>2. PICK s \in {"finish", "transport", "error"} : Goto(p, s)
    BY <2>1
  <2>3. ASSUME Advanced(p) PROVE Advanced(p)'
    <3>1. Placed(Row(p)) /\ Knows(p) /\ leadId[Row(p)] \in Leads
      BY <1>1, <2>1, <2>3 DEF Advanced
    <3>2. Placed(Row(p))'
      BY <1>4, <2>1, <3>1 DEF Placed, Shown, Mine, Live, rowVars
    <3>3. Live(leadId[Row(p)]) => lfields'[leadId[Row(p)]] = Mine(Row(p))
      BY <1>1, <2>1, <3>1 DEF Knows, Mine
    <3>4. Shown(Row(p), lfields)'
      BY <1>4, <2>1, <3>3 DEF Shown, Mine, Live, rowVars
    <3>. QED
      BY <1>3, <2>2, <3>2, <3>4 DEF Advanced
  <2>. QED
    BY <2>1, <2>2, <2>3, WorkerKeeps DEF Goto, Section, Stages
<1>15. ASSUME Finish(p) PROVE CurrentInv'
  <2>1. /\ pc[p] = "finish" /\ UNCHANGED <<jrow, ver, gone, leadId, remoteVars>> /\ Goto(p, "done")
    BY <1>15 DEF Finish, jobVars
  <2>2. Advanced(p) => Placed(Row(p))' /\ Shown(Row(p), lfields)'
    BY <1>4, <2>1 DEF Advanced, Placed, Shown, Mine, Live, remoteVars
  <2>. QED
    BY <2>1, <2>2, WorkerKeeps DEF Goto, Section, Stages, Ended
<1>16. ASSUME TransportFailure(p) \/ OtherFailure(p) PROVE CurrentInv'
  <2>1. /\ pc[p] \in Section /\ UNCHANGED jrow
        /\ Goto(p, "queued") \/ (Goto(p, "failed") /\ status'[Row(p)] = "failed")
    BY <1>1, <1>16 DEF TransportFailure, OtherFailure, jobVars, Section, TypeInv, TypeOK
  <2>2. CASE Goto(p, "queued")
    BY <2>1, <2>2, WorkerKeeps DEF Goto, Awaiting, Stages
  <2>3. CASE Goto(p, "failed") /\ status'[Row(p)] = "failed"
    BY <1>4, <2>1, <2>3, WorkerKeeps DEF Goto, Section, Stages, Ended
  <2>. QED
    BY <2>1, <2>2, <2>3
<1>. QED
  BY <1>5, <1>6, <1>7, <1>8, <1>9, <1>10, <1>11, <1>12, <1>13, <1>14, <1>15, <1>16 DEF Work

\* What arrives, the queue and the surroundings make deliveries owed, begin one
\* with nothing advanced yet, or leave the row alone.
LEMMA QueueCurrent ==
  ASSUME TypeInv, LockHeld, Alone, CurrentInv, [Next]_vars,
         ~\E p \in Jobs : Work(p) \/ Crash(p)
  PROVE  CurrentInv'
<1> SUFFICES ASSUME NEW r \in Rows PROVE Owed(r)' \/ UpToDate(r)'
  BY DEF CurrentInv
<1>1. \A j \in Jobs : jrow[j] = r /\ jrow'[j] \in Rows => jrow'[j] = r
  BY DEF Alone
<1>2. \A j \in Jobs : j \in Procs /\ pc[j] \in Stages /\ jrow[j] = r
  BY DEF TypeInv, TypeOK, Procs, Alone
<1>3. ASSUME NEW j \in Jobs, NEW s \in Awaiting, Goto(j, s), jrow'[j] = r PROVE Owed(r)'
  BY <1>2, <1>3 DEF Owed, Goto, TypeInv, TypeOK
<1>4. ASSUME NEW q \in Rows, NEW j \in Jobs, WebhookSave(q, j) \/ Reexport(q, j) \/ Redispatch(q, j)
      PROVE  Owed(r)'
  <2>1. q = r
    BY DEF Alone
  <2>2. jrow'[j] = r /\ \E s \in {"dispatch", "queued"} : Goto(j, s)
    BY <1>2, <1>4, <2>1 DEF WebhookSave, Reexport, Redispatch, Assign, TypeInv, TypeOK
  <2>. QED
    BY <1>3, <2>2 DEF Awaiting
<1>5. ASSUME NEW j \in Jobs, Dispatch(j) \/ WebDies(j) \/ Redeliver(j) \/ Exhaust(j) PROVE Owed(r)'
  <2>1. jrow'[j] = r /\ \E s \in Awaiting : Goto(j, s)
    BY <1>2, <1>5 DEF Dispatch, WebDies, Redeliver, Exhaust, jobVars, Awaiting
  <2>. QED
    BY <1>3, <2>1
<1>6. ASSUME NEW j \in Jobs, Defer(j) PROVE Owed(r)'
  BY <1>2, <1>6 DEF Defer, Popped, Owed, Awaiting, jobVars
<1>7. ASSUME NEW j \in Jobs, Acquire(j) PROVE UpToDate(r)'
  <2>1. /\ pc[j] = "queued" /\ Row(j) = r /\ lock[r] \in {None, j} /\ UNCHANGED jrow
        /\ status'[r] = "pending" /\ pc' = [pc EXCEPT ![j] = "send"]
    BY <1>2, <1>7 DEF Acquire, Popped, LockFreeFor, Row, Goto, jobVars, TypeInv, TypeOK
  <2>2. \A p \in Jobs : pc[p] \notin Section
    BY <1>2, <2>1, ConstantsAssumption DEF LockHeld, Procs, Section
  <2>3. \A p \in Jobs : pc'[p] \in Section => pc'[p] = "send"
    BY <1>2, <2>1, <2>2 DEF TypeInv, TypeOK
  <2>. QED
    BY <2>1, <2>3 DEF UpToDate, Advanced
<1>8. ASSUME /\ UNCHANGED <<pc, jrow, rowVars, seen, work, lstatus, lfields>>
             /\ \A l \in Leads : lstate'[l] = "live" => lstate[l] = "live"
      PROVE  Owed(r)' \/ UpToDate(r)'
  <2>1. CASE Owed(r)
    BY <1>8, <2>1 DEF Owed
  <2>2. CASE UpToDate(r)
    <3>1. leadId[r] \in Leads \cup {None}
      BY DEF TypeInv, TypeOK
    <3>2. /\ Placed(r) => Placed(r)'
          /\ Shown(r, lfields) => Shown(r, lfields)'
      BY <1>8, <3>1 DEF Placed, Shown, Mine, Live, rowVars
    <3>3. ASSUME NEW p \in Jobs, Advanced(p) PROVE Advanced(p)'
      <4>1. Row(p) = r /\ Row(p)' = r
        BY <1>2, <1>8 DEF Row
      <4>2. Knows(p) => Knows(p)'
        BY <1>8, <4>1 DEF Knows, rowVars
      <4>3. Mine(r)' = Mine(r) /\ UNCHANGED <<pc, work, leadId, lstatus>>
        BY <1>8 DEF Mine, rowVars
      <4>. QED
        BY <3>2, <3>3, <4>1, <4>2, <4>3 DEF Advanced, Mine
    <3>4. Worked(r) => Worked(r)'
      BY <1>8 DEF Worked
    <3>. QED
      BY <1>8, <2>2, <3>2, <3>3, <3>4 DEF UpToDate, rowVars
  <2>. QED
    BY <2>1, <2>2 DEF CurrentInv
<1>9. ASSUME \/ \E q \in Rows : LockExpires(q)
             \/ \E l \in Leads : ManagerDeletes(l)
             \/ Migrate \/ UNCHANGED vars
      PROVE  Owed(r)' \/ UpToDate(r)'
  <2>1. UNCHANGED <<pc, jrow, rowVars, seen, work, lstatus, lfields>>
    BY <1>9 DEF LockExpires, ManagerDeletes, Migrate, vars, jobVars, memVars, remoteVars
  <2>2. \A l \in Leads : lstate'[l] = "live" => lstate[l] = "live"
    BY <1>9 DEF LockExpires, ManagerDeletes, Migrate, vars, remoteVars, TypeInv, TypeOK
  <2>. QED
    BY <1>8, <2>1, <2>2
<1>. QED
  BY <1>4, <1>5, <1>6, <1>7, <1>9 DEF Next, Arrive, Queue, Procs, Alone

\* Once the deliveries of a row are over, "success" means that the lead shows the
\* last webhook, however many deliveries there are, and whichever of them die,
\* wait, or write their outcome over a newer webhook's "pending" (SuccessIsCurrent).
THEOREM SuccessMeansCurrent ==
  ASSUME Alone
  PROVE  Spec => []SuccessIsCurrent
<1>1. Init => LockHeld /\ CurrentInv
  BY DEF Init, LockHeld, CurrentInv, UpToDate, Section, Procs
<1>2. TypeInv /\ TypeInv' /\ LockHeld /\ CurrentInv /\ [Next]_vars => CurrentInv'
  BY WorkCurrent, QueueCurrent
<1>3. ASSUME TypeInv, CurrentInv PROVE SuccessIsCurrent
  <2> SUFFICES ASSUME NEW r \in Rows, status[r] = "success", Settled(r)
               PROVE  Placed(r) /\ Shown(r, lfields)
    BY DEF SuccessIsCurrent, Placed, Shown, Mine
  <2>1. ~Owed(r) /\ ~Worked(r)
    BY DEF Settled, Owed, Worked, Awaiting, Section, Procs
  <2>. QED
    BY <1>3, <2>1 DEF CurrentInv, UpToDate
<1>. QED
  BY <1>1, <1>2, <1>3, InitTypeInv, StepTypeInv, StepLockHeld, PTL DEF Spec
=============================================================================
