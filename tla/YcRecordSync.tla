---------------------------- MODULE YcRecordSync ----------------------------
(***************************************************************************)
(* Export of YClients appointments to amoCRM leads.  A webhook saves the   *)
(* appointment in a local row and dispatches a RecordSend job.  The job    *)
(* takes the row's lease lock, runs yc:send-record (find, update or create *)
(* the lead, post a note) and yc:update-entities (write the mapped fields) *)
(* and records the outcome in the row.  Workers die, responses get lost,   *)
(* leases expire, several local rows stand for one appointment, and only a *)
(* durable receipt (EntityCreateGuard) stands between a retry and a second *)
(* lead.                                                                   *)
(*                                                                         *)
(* Abstractions: an appointment's attributes are a version number; amoCRM  *)
(* leads are the members of Leads; the contact is always resolved (its     *)
(* failures are failures of Load); AmoTransportRetry's repeats of reads    *)
(* and updates are one step whose outcome is the last attempt's.           *)
(***************************************************************************)
EXTENDS Naturals, FiniteSets

CONSTANTS
  Rows,          \* primary keys of yclients_records
  Appts,         \* appointments: (account, company, record_id), the receipt's key
  ApptOf,        \* the appointment a row stands for; nothing makes it unique
  Jobs,          \* queued RecordSend deliveries, one uuid each
  Clis,          \* inline runs of yc:reexport-failed --sync: no job, no timeout
  Leads,         \* amoCRM leads, the ones not created yet included
  FreeLeads,     \* open leads of the contact that managers made by hand
  MaxTries,      \* RecordSend::$tries (50 in the code)
  MaxTransport,  \* transport attempts before a failure is final (4 in the code)
  RecordIdMapped, \* the setting maps the YClients record id to a lead field
  WebMayDie,     \* the web worker may die between saving the row and dispatch
  None           \* SQL NULL / no owner

Procs == Jobs \cup Clis

ASSUME ConstantsAssumption ==
  /\ Rows \subseteq Nat /\ Rows # {}
  /\ ApptOf \in [Rows -> Appts]
  /\ Jobs \cap Clis = {}
  /\ FreeLeads \subseteq Leads
  /\ MaxTries \in Nat \ {0}
  /\ MaxTransport \in Nat \ {0}
  /\ RecordIdMapped \in BOOLEAN
  /\ WebMayDie \in BOOLEAN
  /\ None \notin Leads \cup Procs \cup Appts \cup Rows

VARIABLES
  migrated,   \* the receipts table exists (EntityCreateGuard::ready)
  ver,        \* [Rows]  version of the attributes the last webhook saved, 0: no row
  gone,       \* [Rows]  attendance = 3: the appointment was deleted in YClients
  status,     \* [Rows]  yclients_records.status
  leadId,     \* [Rows]  yclients_records.lead_id
  lock,       \* [Rows]  owner of the row's RecordSyncLock
  rstate,     \* [Appts] the lead receipt: absent, open or rejected
  rlead,      \* [Appts] the lead receipt's remote_id
  noteClaims, \* events whose note receipt exists
  notes,      \* note POSTs: <<event, sender, attempt>>
  lstate,     \* [Leads] absent, live or deleted in amoCRM
  lappt,      \* [Leads] the appointment a created lead is named after
  lstatus,    \* [Leads] <<appointment, version>> whose status the lead shows
  lfields,    \* [Leads] <<appointment, version>> whose mapped fields it shows
  pc,         \* [Procs] where the delivery stands
  jrow,       \* [Procs] the row it exports
  wantsNote,  \* [Procs] the createNote argument
  seen,       \* [Procs] the record as the running command read it
  work,       \* [Procs] the lead it works on
  tries,      \* [Procs] deliveries so far
  fails       \* [Procs] transport failures so far (the shared cache counter)

rowVars    == <<ver, gone, status, leadId>>
recptVars  == <<rstate, rlead>>
noteVars   == <<noteClaims, notes>>
remoteVars == <<lstate, lappt, lstatus, lfields>>
jobVars    == <<jrow, wantsNote>>
memVars    == <<seen, work>>
cntVars    == <<tries, fails>>
vars == <<migrated, rowVars, lock, recptVars, noteVars, remoteVars, pc,
          jobVars, memVars, cntVars>>

Status == {"pending", "success", "failed"}

\* Stages of a delivery that runs under the lock, in the order of the code.
Section == {"send", "resolve", "adopt", "create", "post", "ack", "reject",
            "link", "note", "notepost", "entities", "fields", "finish",
            "transport", "error"}
\* Stages after which a delivery is over.
Ended == {"done", "failed", "exhausted", "undispatched"}
Stages == {"idle", "dispatch", "queued", "crashed"} \cup Section \cup Ended

Snapshot == [ver : Nat, gone : BOOLEAN, lead : Leads \cup {None}]
Event    == Appts \X Leads \X Nat
Mark     == (Appts \X Nat) \cup {None}

Row(p)  == jrow[p]
Appt(p) == ApptOf[jrow[p]]
Holds(p) == lock[Row(p)] = p
Live(l)  == l # None /\ lstate[l] = "live"

\* Record::isLeadOwnedByAnotherYClientsRecord: the linked row with the lowest
\* id owns the lead.
OwnedByAnother(l, a) ==
  \E r \in Rows : /\ leadId[r] = l
                  /\ ApptOf[r] # a
                  /\ \A s \in Rows : leadId[s] = l => r <= s

\* Some row of another appointment is linked to the lead.
LinkedElsewhere(l, a) == \E r \in Rows : leadId[r] = l /\ ApptOf[r] # a

\* The appointment whose id stands in the lead's mapped record-id field.
RecordIdOn(l) == IF RecordIdMapped /\ lfields[l] # None THEN lfields[l][1] ELSE None

\* What a process knows before it reads anything, and after it is gone.
NothingSeen == [ver |-> 0, gone |-> FALSE, lead |-> None]

\* A row may be there already, its last export failed before it had a lead.
Init ==
  /\ migrated \in BOOLEAN
  /\ ver \in [Rows -> {0, 1}]
  /\ gone = [r \in Rows |-> FALSE]
  /\ status = [r \in Rows |-> "failed"]
  /\ leadId = [r \in Rows |-> None]
  /\ lock = [r \in Rows |-> None]
  /\ rstate = [a \in Appts |-> "absent"]
  /\ rlead = [a \in Appts |-> None]
  /\ noteClaims = {}
  /\ notes = {}
  /\ lstate = [l \in Leads |-> IF l \in FreeLeads THEN "live" ELSE "absent"]
  /\ lappt = [l \in Leads |-> None]
  /\ lstatus = [l \in Leads |-> None]
  /\ lfields = [l \in Leads |-> None]
  /\ pc = [p \in Procs |-> "idle"]
  /\ jrow = [p \in Procs |-> CHOOSE r \in Rows : TRUE]
  /\ wantsNote = [p \in Procs |-> FALSE]
  /\ seen = [p \in Procs |-> NothingSeen]
  /\ work = [p \in Procs |-> None]
  /\ tries = [p \in Procs |-> 0]
  /\ fails = [p \in Procs |-> 0]

Goto(p, stage) == pc' = [pc EXCEPT ![p] = stage]

\* Its memory is gone.
Forget(p) == /\ seen' = [seen EXCEPT ![p] = NothingSeen]
             /\ work' = [work EXCEPT ![p] = None]

-----------------------------------------------------------------------------
(* Where deliveries come from                                              *)

\* Hand the idle delivery j the row r.
Assign(j, r, note, stage) ==
  /\ pc[j] = "idle"
  /\ jrow' = [jrow EXCEPT ![j] = r]
  /\ wantsNote' = [wantsNote EXCEPT ![j] = note]
  /\ Goto(j, stage)
  /\ UNCHANGED <<migrated, leadId, recptVars, noteVars, remoteVars, memVars, cntVars>>

\* YClientsController::record saves the new attributes ...
WebhookSave(r, j) ==
  /\ Assign(j, r, ver[r] = 0, "dispatch")
  /\ ver' = [ver EXCEPT ![r] = @ + 1]
  /\ \E deleted \in BOOLEAN : gone' = [gone EXCEPT ![r] = deleted]
  /\ status' = [status EXCEPT ![r] = "pending"]
  /\ UNCHANGED lock

\* yc:reexport-failed and the page's re-export mark the row pending ...
Reexport(r, j) ==
  /\ ver[r] > 0 /\ status[r] # "success"
  /\ \E note \in BOOLEAN : Assign(j, r, note, "dispatch")
  /\ status' = [status EXCEPT ![r] = "pending"]
  /\ UNCHANGED <<ver, gone, lock>>

\* ... and both then dispatch the job, unless their process dies first.
Dispatch(j) ==
  /\ pc[j] = "dispatch"
  /\ Goto(j, "queued")
  /\ UNCHANGED <<migrated, rowVars, lock, recptVars, noteVars, remoteVars, jobVars, memVars, cntVars>>

WebDies(j) ==
  /\ WebMayDie
  /\ pc[j] = "dispatch"
  /\ Goto(j, "undispatched")
  /\ UNCHANGED <<migrated, rowVars, lock, recptVars, noteVars, remoteVars, jobVars, memVars, cntVars>>

\* The list page's bulk action dispatches whatever the status is.
Redispatch(r, j) ==
  /\ ver[r] > 0
  /\ Assign(j, r, FALSE, "queued")
  /\ UNCHANGED <<ver, gone, status, lock>>

\* yc:reexport-failed --sync runs the job's handle() inline: it takes the
\* lock, skips a busy row, or fails before the receipts table exists.
CliStart(r, c) ==
  /\ ver[r] > 0 /\ status[r] # "success"
  /\ \E note \in BOOLEAN :
       IF ~migrated THEN
         /\ Assign(c, r, note, "failed")
         /\ status' = [status EXCEPT ![r] = "failed"]
         /\ UNCHANGED lock
       ELSE IF lock[r] # None THEN
         /\ Assign(c, r, note, "done")
         /\ UNCHANGED <<status, lock>>
       ELSE
         /\ Assign(c, r, note, "send")
         /\ status' = [status EXCEPT ![r] = "pending"]
         /\ lock' = [lock EXCEPT ![r] = c]
  /\ UNCHANGED <<ver, gone>>

-----------------------------------------------------------------------------
(* The queue and the lock                                                  *)

\* A worker pops a queued delivery that has tries left.
Popped(j) == /\ pc[j] = "queued"
             /\ tries[j] < MaxTries
             /\ tries' = [tries EXCEPT ![j] = @ + 1]

LockFreeFor(j) == lock[Row(j)] \in {None, j}

\* Fault: a busy row ends the delivery instead of releasing it.
DeferDrops(j) ==
  /\ Popped(j)
  /\ ~migrated \/ ~LockFreeFor(j)
  /\ Goto(j, "done")
  /\ UNCHANGED <<migrated, rowVars, lock, recptVars, noteVars, remoteVars, jobVars, memVars, fails>>

\* The receipts table does not exist, or another owner holds the lock:
\* release(60), release(30).
Defer(j) ==
  /\ Popped(j)
  /\ ~migrated \/ ~LockFreeFor(j)
  /\ UNCHANGED <<migrated, rowVars, lock, recptVars, noteVars, remoteVars, pc, jobVars, memVars, fails>>

\* The lock is free, or still owned by this delivery's uuid.
Acquire(j) ==
  /\ Popped(j)
  /\ migrated /\ LockFreeFor(j)
  /\ lock' = [lock EXCEPT ![Row(j)] = j]
  /\ status' = [status EXCEPT ![Row(j)] = "pending"]
  /\ Goto(j, "send")
  /\ UNCHANGED <<migrated, ver, gone, leadId, recptVars, noteVars, remoteVars, jobVars, memVars, fails>>

Release(p) == lock' = [lock EXCEPT ![Row(p)] = IF @ = p THEN None ELSE @]

\* The worker is killed: its row, its receipts and its lock stay as they are.
Crash(p) ==
  /\ pc[p] \in Section
  /\ Goto(p, "crashed")
  /\ Forget(p)
  /\ UNCHANGED <<migrated, rowVars, lock, recptVars, noteVars, remoteVars, jobVars, cntVars>>

\* retry_after hands the reserved delivery of a dead worker out again.
Redeliver(j) ==
  /\ pc[j] = "crashed"
  /\ tries[j] < MaxTries
  /\ Goto(j, "queued")
  /\ UNCHANGED <<migrated, rowVars, lock, recptVars, noteVars, remoteVars, jobVars, memVars, cntVars>>

\* Fault: failed() does not ask who owns the row.
ExhaustAnyway(j) ==
  /\ pc[j] \in {"queued", "crashed"}
  /\ tries[j] >= MaxTries
  /\ Goto(j, "exhausted")
  /\ Release(j)
  /\ status' = [status EXCEPT ![Row(j)] = IF @ = "pending" THEN "failed" ELSE @]
  /\ UNCHANGED <<migrated, ver, gone, leadId, recptVars, noteVars, remoteVars, jobVars, memVars, cntVars>>

\* Fault: the job has no failed() at all.
ExhaustSilently(j) ==
  /\ pc[j] \in {"queued", "crashed"}
  /\ tries[j] >= MaxTries
  /\ Goto(j, "exhausted")
  /\ UNCHANGED <<migrated, rowVars, lock, recptVars, noteVars, remoteVars, jobVars, memVars, cntVars>>

\* No tries left: RecordSend::failed runs, unless another owner has the row.
Exhaust(j) ==
  /\ pc[j] \in {"queued", "crashed"}
  /\ tries[j] >= MaxTries
  /\ Goto(j, "exhausted")
  /\ IF LockFreeFor(j) THEN
       /\ Release(j)
       /\ status' = [status EXCEPT ![Row(j)] = IF @ = "pending" THEN "failed" ELSE @]
     ELSE UNCHANGED <<status, lock>>
  /\ UNCHANGED <<migrated, ver, gone, leadId, recptVars, noteVars, remoteVars, jobVars, memVars, cntVars>>

\* Fault: the lease is shorter than the worker's timeout.
LockExpiresEarly(r) ==
  /\ lock[r] \in Procs
  /\ lock' = [lock EXCEPT ![r] = None]
  /\ UNCHANGED <<migrated, rowVars, recptVars, noteVars, remoteVars, pc, jobVars, memVars, cntVars>>

\* The 900 s lease ends.  A worker's timeout (300 s) kills it before that, so
\* the owner is dead or an inline run, which nothing limits.
LockExpires(r) ==
  /\ lock[r] \in Procs
  /\ lock[r] \in Clis \/ pc[lock[r]] \notin Section
  /\ lock' = [lock EXCEPT ![r] = None]
  /\ UNCHANGED <<migrated, rowVars, recptVars, noteVars, remoteVars, pc, jobVars, memVars, cntVars>>

\* A command finds that the lock is not its caller's any more.
LostLock(p) ==
  /\ pc[p] \in {"send", "entities"}
  /\ ~Holds(p)
  /\ IF p \in Jobs THEN Goto(p, "queued") /\ UNCHANGED status
     ELSE /\ Goto(p, "failed")
          /\ status' = [status EXCEPT ![Row(p)] = "failed"]
  /\ Forget(p)
  /\ UNCHANGED <<migrated, ver, gone, leadId, lock, recptVars, noteVars, remoteVars, jobVars, cntVars>>

-----------------------------------------------------------------------------
(* yc:send-record                                                          *)

\* The record is read under the lock and its contact resolved.
Load(p) ==
  /\ pc[p] = "send" /\ Holds(p)
  /\ seen' = [seen EXCEPT ![p] = [ver |-> ver[Row(p)], gone |-> gone[Row(p)], lead |-> leadId[Row(p)]]]
  /\ Goto(p, "resolve")
  /\ UNCHANGED <<migrated, rowVars, lock, recptVars, noteVars, remoteVars, jobVars, work, cntVars>>

\* A remote call or a check of the stage fails before it has any effect.
Fails(p) ==
  /\ pc[p] \in {"send", "resolve", "adopt", "link", "note", "notepost", "entities", "fields"}
  /\ pc[p] \in {"send", "entities"} => Holds(p)
  /\ pc[p] = "note" => wantsNote[p]
  /\ \E outcome \in {"transport", "error"} : Goto(p, outcome)
  /\ UNCHANGED <<migrated, rowVars, lock, recptVars, noteVars, remoteVars, jobVars, memVars, cntVars>>

\* Go on with the existing lead l.
AdoptLead(p, l) ==
  /\ work' = [work EXCEPT ![p] = l]
  /\ Goto(p, "adopt")

\* The row's own lead is still there and is not another appointment's.
OwnLeadUsable(p) ==
  LET l == seen[p].lead IN l # None /\ ~OwnedByAnother(l, Appt(p)) /\ Live(l)

ResolveOwn(p) ==
  /\ pc[p] = "resolve" /\ OwnLeadUsable(p)
  /\ AdoptLead(p, seen[p].lead)
  /\ UNCHANGED <<migrated, rowVars, lock, recptVars, noteVars, remoteVars, jobVars, seen, cntVars>>

\* Fault: the name is not compared, any lead of the contact created then counts.
ReconciledUnnamed(a) == {l \in Leads : Live(l) /\ lappt[l] # None /\ ~LinkedElsewhere(l, a)}

\* Leads::recoverCreated: leads named after the appointment that no other
\* appointment is linked to.
Reconciled(a) == {l \in Leads : Live(l) /\ lappt[l] = a /\ ~LinkedElsewhere(l, a)}

\* EntityCreateGuard::recover: a receipt that was not rejected forbids a new
\* lead, so find the one it stands for or leave the creation unconfirmed.
ResolveReceipt(p) ==
  /\ pc[p] = "resolve" /\ ~OwnLeadUsable(p) /\ rstate[Appt(p)] = "open"
  /\ \/ /\ Live(rlead[Appt(p)])
        /\ AdoptLead(p, rlead[Appt(p)])
        /\ UNCHANGED recptVars
     \/ /\ rlead[Appt(p)] = None
        /\ \E l \in Reconciled(Appt(p)) :
             /\ Reconciled(Appt(p)) = {l}
             /\ rlead' = [rlead EXCEPT ![Appt(p)] = l]
             /\ AdoptLead(p, l)
        /\ UNCHANGED rstate
     \/ /\ ~Live(rlead[Appt(p)])
        /\ Goto(p, "transport")
        /\ UNCHANGED <<recptVars, work>>
  /\ UNCHANGED <<migrated, rowVars, lock, noteVars, remoteVars, jobVars, seen, cntVars>>

\* Leads linked to other rows of the same appointment, usable or not.
Doubles(p) == {leadId[r] : r \in {q \in Rows : q # Row(p) /\ ApptOf[q] = Appt(p)}} \ {None}
DoubleUsable(p, l) == Live(l) /\ ~OwnedByAnother(l, Appt(p))

\* Leads whose mapped field carries the appointment's id, closed ones included.
ExactMatches(p) == {l \in Leads : Live(l) /\ RecordIdOn(l) = Appt(p)}

\* Open leads of the contact that carry no record id and no other link.
FreeMatches(p) ==
  {l \in Leads : Live(l) /\ RecordIdOn(l) = None /\ ~LinkedElsewhere(l, Appt(p))}

\* Without a receipt look for a lead: another row's, the exact match, a free
\* one (whether it is open is amoCRM's choice); else create one, unless the
\* appointment is deleted.
ResolveSearch(p) ==
  /\ pc[p] = "resolve" /\ ~OwnLeadUsable(p) /\ rstate[Appt(p)] # "open"
  /\ \/ \E l \in Doubles(p) : DoubleUsable(p, l) /\ AdoptLead(p, l)
     \/ /\ Doubles(p) = {} \/ \E l \in Doubles(p) : ~DoubleUsable(p, l)
        /\ \/ \E l \in ExactMatches(p) :
                /\ ExactMatches(p) = {l} /\ ~LinkedElsewhere(l, Appt(p))
                /\ AdoptLead(p, l)
           \/ /\ Cardinality(ExactMatches(p)) > 1
                 \/ \E l \in ExactMatches(p) : LinkedElsewhere(l, Appt(p))
              /\ Goto(p, "error")
              /\ UNCHANGED work
           \/ /\ ExactMatches(p) = {}
              /\ \E l \in FreeMatches(p) : AdoptLead(p, l)
           \/ /\ ExactMatches(p) = {}
              /\ Goto(p, IF seen[p].gone THEN "entities" ELSE "create")
              /\ work' = [work EXCEPT ![p] = None]
  /\ UNCHANGED <<migrated, rowVars, lock, recptVars, noteVars, remoteVars, jobVars, seen, cntVars>>

\* Leads::update: the lead takes the appointment's status; the response may
\* still be lost.
Adopt(p) ==
  /\ pc[p] = "adopt" /\ Live(work[p])
  /\ lstatus' = [lstatus EXCEPT ![work[p]] = <<Appt(p), seen[p].ver>>]
  /\ \E outcome \in {"link", "transport", "error"} : Goto(p, outcome)
  /\ UNCHANGED <<migrated, rowVars, lock, recptVars, noteVars, lstate, lappt, lfields, jobVars, memVars, cntVars>>

\* Fault: a receipt that was never acknowledged is claimed again.
ClaimableBlindly(a) == rstate[a] # "open" \/ rlead[a] = None

\* EntityCreateGuard::claim: insert the receipt, or reopen a rejected one.
Claimable(a) == rstate[a] = "absent" \/ (rstate[a] = "rejected" /\ rlead[a] = None)

Claim(p) ==
  /\ pc[p] = "create"
  /\ IF Claimable(Appt(p))
     THEN rstate' = [rstate EXCEPT ![Appt(p)] = "open"] /\ Goto(p, "post")
     ELSE UNCHANGED rstate /\ Goto(p, "transport")
  /\ UNCHANGED <<migrated, rowVars, lock, rlead, noteVars, remoteVars, jobVars, memVars, cntVars>>

\* Fault: a lost response is taken for a rejection.
PostAcceptedRejected(p) ==
  /\ pc[p] = "post"
  /\ \E l \in Leads :
       /\ lstate[l] = "absent"
       /\ lstate' = [lstate EXCEPT ![l] = "live"]
       /\ lappt' = [lappt EXCEPT ![l] = Appt(p)]
       /\ lstatus' = [lstatus EXCEPT ![l] = <<Appt(p), seen[p].ver>>]
       /\ work' = [work EXCEPT ![p] = l]
  /\ \E outcome \in {"ack", "reject"} : Goto(p, outcome)
  /\ UNCHANGED <<migrated, rowVars, lock, recptVars, noteVars, lfields, jobVars, seen, cntVars>>

\* amoCRM creates the lead; the response arrives or is lost.
PostAccepted(p) ==
  /\ pc[p] = "post"
  /\ \E l \in Leads :
       /\ lstate[l] = "absent"
       /\ lstate' = [lstate EXCEPT ![l] = "live"]
       /\ lappt' = [lappt EXCEPT ![l] = Appt(p)]
       /\ lstatus' = [lstatus EXCEPT ![l] = <<Appt(p), seen[p].ver>>]
       /\ work' = [work EXCEPT ![p] = l]
  /\ \E outcome \in {"ack", "transport", "error"} : Goto(p, outcome)
  /\ UNCHANGED <<migrated, rowVars, lock, recptVars, noteVars, lfields, jobVars, seen, cntVars>>

\* amoCRM does not create it: an explicit rejection, or nobody knows.
PostRefused(p) ==
  /\ pc[p] = "post"
  /\ \E outcome \in {"reject", "transport", "error"} : Goto(p, outcome)
  /\ UNCHANGED <<migrated, rowVars, lock, recptVars, noteVars, remoteVars, jobVars, memVars, cntVars>>

Acknowledge(p) ==
  /\ pc[p] = "ack"
  /\ rlead' = [rlead EXCEPT ![Appt(p)] = work[p]]
  /\ Goto(p, "link")
  /\ UNCHANGED <<migrated, rowVars, lock, rstate, noteVars, remoteVars, jobVars, memVars, cntVars>>

Reject(p) ==
  /\ pc[p] = "reject"
  /\ rstate' = [rstate EXCEPT ![Appt(p)] = IF rlead[Appt(p)] = None THEN "rejected" ELSE @]
  /\ Goto(p, "error")
  /\ UNCHANGED <<migrated, rowVars, lock, rlead, noteVars, remoteVars, jobVars, memVars, cntVars>>

\* The lead's id is saved (if it differs from the one the record was read
\* with) before the contact link can fail.
Link(p) ==
  /\ pc[p] = "link"
  /\ leadId' = [leadId EXCEPT ![Row(p)] = IF work[p] = seen[p].lead THEN @ ELSE work[p]]
  /\ \E outcome \in {"note", "transport", "error"} : Goto(p, outcome)
  /\ UNCHANGED <<migrated, ver, gone, status, lock, recptVars, noteVars, remoteVars, jobVars, memVars, cntVars>>

NoteEvent(p) == <<Appt(p), work[p], seen[p].ver>>

\* Fault: the note's receipt is not consulted.
NoteClaimAlways(p) ==
  /\ pc[p] = "note"
  /\ IF wantsNote[p]
     THEN noteClaims' = noteClaims \cup {NoteEvent(p)} /\ Goto(p, "notepost")
     ELSE UNCHANGED noteClaims /\ Goto(p, "entities")
  /\ UNCHANGED <<migrated, rowVars, lock, recptVars, notes, remoteVars, jobVars, memVars, cntVars>>

\* The note's receipt is claimed once per event and never given back.
NoteClaim(p) ==
  /\ pc[p] = "note"
  /\ IF wantsNote[p] /\ NoteEvent(p) \notin noteClaims
     THEN noteClaims' = noteClaims \cup {NoteEvent(p)} /\ Goto(p, "notepost")
     ELSE UNCHANGED noteClaims /\ Goto(p, "entities")
  /\ UNCHANGED <<migrated, rowVars, lock, recptVars, notes, remoteVars, jobVars, memVars, cntVars>>

NotePost(p) ==
  /\ pc[p] = "notepost"
  /\ notes' = notes \cup {<<NoteEvent(p), p, tries[p]>>}
  /\ \E outcome \in {"entities", "transport", "error"} : Goto(p, outcome)
  /\ UNCHANGED <<migrated, rowVars, lock, recptVars, noteClaims, remoteVars, jobVars, memVars, cntVars>>

-----------------------------------------------------------------------------
(* yc:update-entities and the end of the job                               *)

\* The record is read again; a lead another appointment owns is left alone.
Entities(p) ==
  /\ pc[p] = "entities" /\ Holds(p)
  /\ LET l == leadId[Row(p)] IN
       /\ seen' = [seen EXCEPT ![p] = [ver |-> ver[Row(p)], gone |-> gone[Row(p)], lead |-> l]]
       /\ Goto(p, IF l = None \/ OwnedByAnother(l, Appt(p)) THEN "finish" ELSE "fields")
  /\ UNCHANGED <<migrated, rowVars, lock, recptVars, noteVars, remoteVars, jobVars, work, cntVars>>

\* The mapped fields are written to the lead if it can still be found.
Fields(p) ==
  /\ pc[p] = "fields"
  /\ LET l == seen[p].lead IN
       IF Live(l)
       THEN /\ lfields' = [lfields EXCEPT ![l] = <<Appt(p), seen[p].ver>>]
            /\ \E outcome \in {"finish", "transport", "error"} : Goto(p, outcome)
       ELSE UNCHANGED lfields /\ Goto(p, "finish")
  /\ UNCHANGED <<migrated, rowVars, lock, recptVars, noteVars, lstate, lappt, lstatus, jobVars, memVars, cntVars>>

\* Fault: the outcome is not one of the record's statuses.
FinishMisnamed(p) ==
  /\ pc[p] = "finish"
  /\ status' = [status EXCEPT ![Row(p)] = "done"]
  /\ fails' = [fails EXCEPT ![p] = 0]
  /\ Release(p)
  /\ Goto(p, "done")
  /\ Forget(p)
  /\ UNCHANGED <<migrated, ver, gone, leadId, recptVars, noteVars, remoteVars, jobVars, tries>>

Finish(p) ==
  /\ pc[p] = "finish"
  /\ status' = [status EXCEPT ![Row(p)] = "success"]
  /\ fails' = [fails EXCEPT ![p] = 0]
  /\ Release(p)
  /\ Goto(p, "done")
  /\ Forget(p)
  /\ UNCHANGED <<migrated, ver, gone, leadId, recptVars, noteVars, remoteVars, jobVars, tries>>

\* A transport failure or an unconfirmed creation: release() for another
\* attempt while the shared counter allows it, else the failure is final.
TransportFailure(p) ==
  /\ pc[p] = "transport"
  /\ fails' = [fails EXCEPT ![p] = @ + 1]
  /\ IF p \in Jobs /\ fails[p] + 1 < MaxTransport
     THEN /\ Goto(p, "queued")
          /\ status' = [status EXCEPT ![Row(p)] = "pending"]
     ELSE /\ Goto(p, "failed")
          /\ status' = [status EXCEPT ![Row(p)] = "failed"]
  /\ Release(p)
  /\ Forget(p)
  /\ UNCHANGED <<migrated, ver, gone, leadId, recptVars, noteVars, remoteVars, jobVars, tries>>

\* Any other exception, or a command that exits with an error, is final.
OtherFailure(p) ==
  /\ pc[p] = "error"
  /\ Goto(p, "failed")
  /\ status' = [status EXCEPT ![Row(p)] = "failed"]
  /\ Release(p)
  /\ Forget(p)
  /\ UNCHANGED <<migrated, ver, gone, leadId, recptVars, noteVars, remoteVars, jobVars, cntVars>>

-----------------------------------------------------------------------------
(* The surroundings                                                        *)

Migrate ==
  /\ ~migrated
  /\ migrated' = TRUE
  /\ UNCHANGED <<rowVars, lock, recptVars, noteVars, remoteVars, pc, jobVars, memVars, cntVars>>

\* A manager deletes a lead in amoCRM.
ManagerDeletes(l) ==
  /\ lstate[l] = "live"
  /\ lstate' = [lstate EXCEPT ![l] = "deleted"]
  /\ UNCHANGED <<migrated, rowVars, lock, recptVars, noteVars, lappt, lstatus, lfields, pc, jobVars, memVars, cntVars>>

\* A step of a delivery that its worker takes under the lock.
Work(p) ==
  \/ Load(p) \/ Fails(p) \/ LostLock(p)
  \/ ResolveOwn(p) \/ ResolveReceipt(p) \/ ResolveSearch(p)
  \/ Adopt(p) \/ Claim(p) \/ PostAccepted(p) \/ PostRefused(p)
  \/ Acknowledge(p) \/ Reject(p) \/ Link(p) \/ NoteClaim(p) \/ NotePost(p)
  \/ Entities(p) \/ Fields(p) \/ Finish(p)
  \/ TransportFailure(p) \/ OtherFailure(p)

\* A step of the queue for the delivery.
Queue(j) == Defer(j) \/ Acquire(j) \/ Redeliver(j) \/ Exhaust(j)

Arrive(r) ==
  \/ \E j \in Jobs : WebhookSave(r, j) \/ Reexport(r, j) \/ Redispatch(r, j)
  \/ \E c \in Clis : CliStart(r, c)

Next ==
  \/ \E r \in Rows : Arrive(r) \/ LockExpires(r)
  \/ \E j \in Jobs : Dispatch(j) \/ WebDies(j) \/ Queue(j)
  \/ \E p \in Procs : Work(p) \/ Crash(p)
  \/ \E l \in Leads : ManagerDeletes(l)
  \/ Migrate

Spec == Init /\ [][Next]_vars

\* Workers, the queue and the clock keep going; webhooks, crashes, managers
\* and deployments owe nothing.
Fairness ==
  /\ \A j \in Jobs : WF_vars(Dispatch(j)) /\ WF_vars(Queue(j))
  /\ \A p \in Procs : WF_vars(Work(p))
  /\ \A r \in Rows : WF_vars(LockExpires(r))

FairSpec == Spec /\ Fairness

-----------------------------------------------------------------------------
(* Properties                                                              *)

TypeOK ==
  /\ migrated \in BOOLEAN
  /\ ver \in [Rows -> Nat] /\ gone \in [Rows -> BOOLEAN]
  /\ status \in [Rows -> Status] /\ leadId \in [Rows -> Leads \cup {None}]
  /\ lock \in [Rows -> Procs \cup {None}]
  /\ rstate \in [Appts -> {"absent", "open", "rejected"}]
  /\ rlead \in [Appts -> Leads \cup {None}]
  /\ noteClaims \subseteq Event /\ notes \subseteq Event \X Procs \X Nat
  /\ lstate \in [Leads -> {"absent", "live", "deleted"}]
  /\ lappt \in [Leads -> Appts \cup {None}]
  /\ lstatus \in [Leads -> Mark] /\ lfields \in [Leads -> Mark]
  /\ pc \in [Procs -> Stages] /\ jrow \in [Procs -> Rows]
  /\ wantsNote \in [Procs -> BOOLEAN] /\ seen \in [Procs -> Snapshot]
  /\ work \in [Procs -> Leads \cup {None}]
  /\ tries \in [Procs -> Nat] /\ fails \in [Procs -> Nat]

\* "A lost POST response must never be replayed blindly": whatever is lost,
\* retried, re-exported or run twice, amoCRM creates at most one lead for an
\* appointment (EntityCreateGuard).
OneLeadPerAppointment ==
  \A l, m \in Leads : lappt[l] # None /\ lappt[l] = lappt[m] => l = m

\* A receipt is never acknowledged with a lead that was not created for its
\* appointment, even when the lead had to be found by a search (recover).
ReceiptNamesItsLead ==
  \A a \in Appts : rlead[a] # None => lappt[rlead[a]] = a

\* Two queued deliveries never work on one row at a time, although leases
\* expire, workers die and a delivery takes back its own lock (RecordSyncLock).
WorkersExclusive ==
  \A i, j \in Jobs : pc[i] \in Section /\ pc[j] \in Section /\ jrow[i] = jrow[j] => i = j

\* The outcome of a row is not written under a delivery that is still working
\* on it: "Another job still owns the record. Do not overwrite its result."
OutcomeFromItsWorker ==
  [][\A r \in Rows :
       status'[r] # status[r] /\ status'[r] # "pending" =>
         \A j \in Jobs : ~(jrow[j] = r /\ pc[j] \in Section /\ pc'[j] \in Section)]_vars

\* The deliveries of the row have come to their own end: none is under way,
\* gave up waiting, or was lost with the web worker that saved the row.
Settled(r) == \A p \in Procs : jrow[p] = r => pc[p] \in {"idle", "done", "failed"}

\* No lost update: once the deliveries of a row are over, "success" means that
\* the lead shows the status and the fields of the last webhook, although an
\* older delivery may write "success" over a newer webhook's "pending".
SuccessIsCurrent ==
  \A r \in Rows :
    ver[r] > 0 /\ status[r] = "success" /\ Settled(r) =>
      LET l == leadId[r] IN
        IF l = None THEN gone[r]
        ELSE Live(l) => /\ lstatus[l] = <<ApptOf[r], ver[r]>>
                        /\ lfields[l] = <<ApptOf[r], ver[r]>>

\* One event of an appointment is noted on its lead at most once, whatever is
\* retried (EntityCreateGuard::forNote).
NoteOncePerEvent == \A n, m \in notes : n[1] = m[1] => n = m

\* The job of a webhook for r was never dispatched: the web worker died first.
Undispatched(r) == \E p \in Procs : jrow[p] = r /\ pc[p] = "undispatched"

\* A pending row does not stay pending, crashes and exhausted tries included:
\* some delivery ends with an outcome, unless a web worker died between saving
\* the row and dispatching its job (YClientsController::record).
PendingSettles ==
  \A r \in Rows : status[r] = "pending" /\ ~Undispatched(r)
                      ~> status[r] # "pending" \/ Undispatched(r)

\* The receipts of leads implement CreateOnce: under an appointment's key one
\* lead is created, and the receipt never learns another one.
Receipt == INSTANCE CreateOnce WITH
  Keys <- Appts, Ids <- Leads, None <- None,
  made <- {<<lappt[l], l>> : l \in {m \in Leads : lappt[m] # None}}, known <- rlead

LeadsCreatedOnce == Receipt!Spec

\* A lead linked to an appointment is not given to another one ("already
\* linked to another record" is what the searches exclude).
LeadServesOneAppointment ==
  \A r, s \in Rows : leadId[r] # None /\ leadId[r] = leadId[s] => ApptOf[r] = ApptOf[s]
=============================================================================
