------------------------ MODULE FinderMonitor_proofs ------------------------
(***************************************************************************)
(* Proofs about response control, for any chats, messages, executors,      *)
(* deadlines and bounds.  The invariant has four parts, proved one after   *)
(* the other: types; what the executors hold; when overdue actions are     *)
(* recorded; where a wait begins.                                          *)
(***************************************************************************)
EXTENDS FinderMonitor, TLAPS, WellFoundedInduction

-----------------------------------------------------------------------------
(* Helpers                                                                  *)

LEMMA Limits ==
  /\ MaxTime \in Nat /\ Interval \in Nat /\ Interval > 0
  /\ MaxAttempts \in Nat /\ MaxAttempts > 0 /\ None \notin Nat
BY ConstantsAssumption

LEMMA Deadlines ==
  ASSUME NEW t \in 0..MaxTime, NEW n \in {0, Interval}
  PROVE  Deadline(t, n) \in Nat /\ Deadline(t, n) >= t + n
BY DeadlineAssumption

\* A non-empty set of times has an earliest one.
LEMMA EarliestIs ==
  ASSUME NEW S \in SUBSET Nat, S # {}
  PROVE  Earliest(S) \in S /\ \A u \in S : Earliest(S) <= u
<1> DEFINE R == {p \in Nat \X Nat : p[1] < p[2]}
<1>1. IsWellFoundedOn(R, Nat)
  <2>1. R = OpToRel(<, Nat)
    BY DEF OpToRel
  <2> QED BY <2>1, NatLessThanWellFounded
<1>2. PICK x \in S : \A y \in S : <<y, x>> \notin R
  <2> HIDE DEF R
  <2> QED BY <1>1, WFMin
<1>3. ASSUME NEW y \in S PROVE x <= y
  <2>1. CASE y < x
    <3>1. <<y, x>> \in Nat \X Nat /\ <<y, x>>[1] = y /\ <<y, x>>[2] = x
      OBVIOUS
    <3>2. <<y, x>> \in R
      BY <2>1, <3>1
    <3> QED BY <1>2, <3>2
  <2> QED BY <2>1
<1> QED BY <1>3 DEF Earliest

-----------------------------------------------------------------------------
(* What the parts of a step do to the recorded actions and to the wait      *)

Times  == (0..MaxTime) \cup {None}
Action == [status : Status, at : 0..MaxTime, since : Times]

Typed(acts) == DOMAIN acts \subseteq Key /\ \A k \in DOMAIN acts : acts[k] \in Action

LEMMA WithStatusGives ==
  ASSUME Typed(actions), NEW keys, NEW status \in Status
  PROVE  /\ DOMAIN WithStatus(keys, status) = DOMAIN actions /\ Typed(WithStatus(keys, status))
         /\ \A k \in DOMAIN actions :
              /\ WithStatus(keys, status)[k].at = actions[k].at
              /\ WithStatus(keys, status)[k].since = actions[k].since
              /\ WithStatus(keys, status)[k].status = IF k \in keys THEN status ELSE actions[k].status
<1> DEFINE w == WithStatus(keys, status)
<1>1. DOMAIN w = DOMAIN actions
  BY DEF WithStatus
<1>2. ASSUME NEW k \in DOMAIN actions
      PROVE  /\ w[k] \in Action /\ w[k].at = actions[k].at /\ w[k].since = actions[k].since
             /\ w[k].status = IF k \in keys THEN status ELSE actions[k].status
  <2>1. actions[k] \in Action
    BY DEF Typed
  <2>2. w[k] = IF k \in keys THEN [actions[k] EXCEPT !.status = status] ELSE actions[k]
    BY DEF WithStatus
  <2> QED BY <2>1, <2>2 DEF Action
<1> QED BY <1>1, <1>2 DEF Typed

LEMMA RecordedGives ==
  ASSUME NEW acts, Typed(acts), NEW keys \in SUBSET Key, now \in 0..MaxTime,
         \A k \in keys : pendingSince[k.chat] \in Times
  PROVE  /\ DOMAIN Recorded(acts, keys) = DOMAIN acts \cup keys /\ Typed(Recorded(acts, keys))
         /\ \A k \in DOMAIN acts : Recorded(acts, keys)[k] = acts[k]
         /\ \A k \in keys \ DOMAIN acts :
              Recorded(acts, keys)[k] = [status |-> "pending", at |-> now,
                                         since |-> pendingSince[k.chat]]
<1> DEFINE r == Recorded(acts, keys)
<1>1. DOMAIN r = DOMAIN acts \cup keys
  BY DEF Recorded
<1>2. \A k \in DOMAIN acts : r[k] = acts[k]
  BY DEF Recorded
<1>3. \A k \in keys \ DOMAIN acts :
        r[k] = [status |-> "pending", at |-> now, since |-> pendingSince[k.chat]]
  BY DEF Recorded
<1>4. \A k \in DOMAIN r : r[k] \in Action
  <2> SUFFICES ASSUME NEW k \in DOMAIN r PROVE r[k] \in Action
    OBVIOUS
  <2>1. CASE k \in DOMAIN acts
    BY <1>2, <2>1 DEF Typed
  <2>2. CASE k \notin DOMAIN acts
    <3>1. r[k] = [status |-> "pending", at |-> now, since |-> pendingSince[k.chat]]
      BY <1>1, <1>3, <2>2
    <3> QED BY <1>1, <2>2, <3>1 DEF Action, Status
  <2> QED BY <2>1, <2>2
<1> QED BY <1>1, <1>2, <1>3, <1>4 DEF Typed

LEMMA TypedActions == TypeOK => Typed(actions)
BY DEF TypeOK, Typed, Action, Times

LEMMA ActionKeyIs ==
  ASSUME TypeOK, NEW c \in Chats, NEW n \in Nat, NEW event \in {"overdue", "replied"},
         NEW kind \in {"task", "workflow"}
  PROVE  LET k == ActionKey(c, n, event, kind)
         IN k \in Key /\ k.chat = c /\ k.cycle = cycle[c] /\ k.attempt = n /\ k.event = event
BY DEF TypeOK, Key, ActionKey

\* What a reply does: pending overdue actions of the wait are cancelled, at most
\* a reply workflow is added.
RepliesFor(c) ==
  IF RunReply /\ Current(c, "overdue", {"processing", "succeeded"}) # {}
  THEN {ActionKey(c, attempts[c], "replied", "workflow")} ELSE {}

LEMMA RepliedActions ==
  ASSUME TypeOK, NEW c \in Chats, NEW at, Replied(c, at)
  PROVE  /\ Typed(actions') /\ DOMAIN actions' = DOMAIN actions \cup RepliesFor(c)
         /\ \A k \in DOMAIN actions :
              /\ actions'[k].at = actions[k].at /\ actions'[k].since = actions[k].since
              /\ actions'[k].status = IF k \in Current(c, "overdue", {"pending"})
                                      THEN "cancelled" ELSE actions[k].status
         /\ \A k \in RepliesFor(c) \ DOMAIN actions : actions'[k].status = "pending"
         /\ RepliesFor(c) \subseteq Key
<1> DEFINE w == WithStatus(Current(c, "overdue", {"pending"}), "cancelled")
<1>1. attempts[c] \in Nat /\ pendingSince[c] \in Times /\ now \in 0..MaxTime
  BY Limits DEF TypeOK, Times
<1>2. RepliesFor(c) \subseteq Key /\ \A k \in RepliesFor(c) : pendingSince[k.chat] \in Times
  <2>1. LET k == ActionKey(c, attempts[c], "replied", "workflow") IN k \in Key /\ k.chat = c
    BY <1>1, ActionKeyIs
  <2> QED BY <1>1, <2>1 DEF RepliesFor
<1>3. actions' = Recorded(w, RepliesFor(c))
  BY DEF Replied, RepliesFor
<1>4. /\ Typed(w) /\ DOMAIN w = DOMAIN actions
      /\ \A k \in DOMAIN actions :
           /\ w[k].at = actions[k].at /\ w[k].since = actions[k].since
           /\ w[k].status = IF k \in Current(c, "overdue", {"pending"})
                            THEN "cancelled" ELSE actions[k].status
  <2>1. "cancelled" \in Status
    BY DEF Status
  <2> QED BY <2>1, TypedActions, WithStatusGives
<1> HIDE DEF w
<1>5. /\ DOMAIN actions' = DOMAIN w \cup RepliesFor(c) /\ Typed(actions')
      /\ \A k \in DOMAIN w : actions'[k] = w[k]
      /\ \A k \in RepliesFor(c) \ DOMAIN w :
           actions'[k] = [status |-> "pending", at |-> now, since |-> pendingSince[k.chat]]
  <2>1. RepliesFor(c) \in SUBSET Key
    BY <1>2
  <2>2. /\ DOMAIN Recorded(w, RepliesFor(c)) = DOMAIN w \cup RepliesFor(c)
        /\ Typed(Recorded(w, RepliesFor(c)))
        /\ \A k \in DOMAIN w : Recorded(w, RepliesFor(c))[k] = w[k]
        /\ \A k \in RepliesFor(c) \ DOMAIN w :
             Recorded(w, RepliesFor(c))[k] = [status |-> "pending", at |-> now,
                                              since |-> pendingSince[k.chat]]
    BY <1>1, <1>2, <1>4, <2>1, RecordedGives
  <2> QED BY <1>3, <2>2
<1> QED BY <1>2, <1>4, <1>5

\* What a recorded check does to the actions.
Overdues(c) == {ActionKey(c, attempts[c] + 1, "overdue", kind) : kind \in Kinds}

LEMMA CheckedActions ==
  ASSUME TypeOK, NEW c \in Chats, CheckRecords(c)
  PROVE  /\ Typed(actions') /\ DOMAIN actions' = DOMAIN actions \cup Overdues(c)
         /\ \A k \in DOMAIN actions : actions'[k] = actions[k]
         /\ \A k \in Overdues(c) \ DOMAIN actions :
              actions'[k] = [status |-> "pending", at |-> now, since |-> pendingSince[c]]
         /\ \A k \in Overdues(c) : /\ k \in Key /\ k.chat = c /\ k.cycle = cycle[c]
                                   /\ k.event = "overdue" /\ k.attempt = attempts[c] + 1
<1>1. attempts[c] + 1 \in Nat /\ pendingSince[c] \in Times /\ now \in 0..MaxTime
  BY Limits DEF TypeOK, Times
<1>2. attempts'[c] = attempts[c] + 1
  BY DEF CheckRecords, TypeOK
<1>3. actions' = Recorded(actions, Overdues(c))
  BY <1>2 DEF CheckRecords, Overdues
<1>4. \A k \in Overdues(c) : /\ k \in Key /\ k.chat = c /\ k.cycle = cycle[c]
                             /\ k.event = "overdue" /\ k.attempt = attempts[c] + 1
  <2>1. ASSUME NEW kind \in Kinds
        PROVE  LET k == ActionKey(c, attempts[c] + 1, "overdue", kind)
               IN /\ k \in Key /\ k.chat = c /\ k.cycle = cycle[c]
                  /\ k.event = "overdue" /\ k.attempt = attempts[c] + 1
    <3>1. kind \in {"task", "workflow"}
      BY ConstantsAssumption
    <3> QED BY <1>1, <3>1, ActionKeyIs
  <2> QED BY <2>1 DEF Overdues
<1>5. /\ DOMAIN actions' = DOMAIN actions \cup Overdues(c) /\ Typed(actions')
      /\ \A k \in DOMAIN actions : actions'[k] = actions[k]
      /\ \A k \in Overdues(c) \ DOMAIN actions :
           actions'[k] = [status |-> "pending", at |-> now, since |-> pendingSince[k.chat]]
  BY <1>1, <1>3, <1>4, TypedActions, RecordedGives
<1> QED BY <1>4, <1>5

\* After a reply the client waits since the first message that followed it, if any.
LEMMA RepliedWait ==
  ASSUME TypeOK, NEW c \in Chats, NEW at \in 0..MaxTime, Replied(c, at)
  PROVE  \/ \E t \in IncomingAfter(c, at) :
              /\ t \in 0..MaxTime /\ StartWaiting(c, t)
              /\ \A u \in IncomingAfter(c, at) : t <= u
         \/ IncomingAfter(c, at) = {} /\ StopWaiting(c)
<1>1. IncomingAfter(c, at) \subseteq 0..MaxTime
  BY DEF TypeOK, IncomingAfter, Message
<1>2. CASE IncomingAfter(c, at) = {}
  BY <1>2 DEF Replied
<1>3. CASE IncomingAfter(c, at) # {}
  <2>1. StartWaiting(c, Earliest(IncomingAfter(c, at)))
    BY <1>3 DEF Replied
  <2>2. IncomingAfter(c, at) \in SUBSET Nat
    BY <1>1, Limits
  <2>3. /\ Earliest(IncomingAfter(c, at)) \in IncomingAfter(c, at)
        /\ \A u \in IncomingAfter(c, at) : Earliest(IncomingAfter(c, at)) <= u
    BY <1>3, <2>2, EarliestIs
  <2> QED BY <1>1, <2>1, <2>3
<1> QED BY <1>2, <1>3

WaitTyped ==
  /\ pendingSince \in [Chats -> Times] /\ nextCheck \in [Chats -> Nat \cup {None}]
  /\ cycle \in [Chats -> Nat] /\ attempts \in [Chats -> 0..MaxAttempts]

LEMMA StartTyped ==
  ASSUME TypeOK, NEW c \in Chats, NEW t \in 0..MaxTime, StartWaiting(c, t)
  PROVE  WaitTyped'
<1>1. Deadline(t, Interval) \in Nat
  BY Deadlines
<1> QED BY <1>1, Limits DEF StartWaiting, TypeOK, WaitTyped, Times

LEMMA StopTyped ==
  ASSUME TypeOK, NEW c \in Chats, StopWaiting(c)
  PROVE  WaitTyped'
BY DEF StopWaiting, TypeOK, WaitTyped, Times

-----------------------------------------------------------------------------
(* Types                                                                    *)

ChatTyped ==
  /\ now \in 0..MaxTime /\ enabled \in BOOLEAN /\ access \in BOOLEAN
  /\ sent \subseteq Message /\ heard \subseteq Message /\ stored \subseteq heard
  /\ lastOutgoing \in [Chats -> Times]

ExecTyped ==
  /\ stage \in [Executors -> {"idle", "perform", "succeed", "fail"}]
  /\ task \in [Executors -> Key \cup {None}]
  /\ posts \in Seq(Key)

LEMMA TypeParts == TypeOK <=> ChatTyped /\ WaitTyped /\ Typed(actions) /\ ExecTyped
BY DEF TypeOK, ChatTyped, WaitTyped, Typed, ExecTyped, Times, Action

LEMMA TypePartsNext == ChatTyped' /\ WaitTyped' /\ Typed(actions') /\ ExecTyped' => TypeOK'
BY DEF TypeOK, ChatTyped, WaitTyped, Typed, ExecTyped, Times, Action

LEMMA HearTyped ==
  ASSUME TypeOK, NEW m \in sent, Webhook(m)
  PROVE  TypeOK'
<1>1. /\ m \in Message /\ m.chat \in Chats /\ m.at \in 0..MaxTime
      /\ ChatTyped /\ WaitTyped /\ Typed(actions) /\ ExecTyped
  BY TypeParts DEF TypeOK, Message
<1>2. CASE Ignore(m)
  <2>1. ChatTyped'
    BY <1>1, <1>2 DEF Ignore, ChatTyped
  <2>2. WaitTyped' /\ Typed(actions') /\ ExecTyped'
    BY <1>1, <1>2 DEF Ignore, waitVars, execVars, WaitTyped, ExecTyped
  <2> QED BY <2>1, <2>2, TypePartsNext
<1>3. CASE HearIncoming(m)
  <2>1. WaitTyped'
    <3>1. CASE StartWaiting(m.chat, m.at)
      BY <1>1, <3>1, StartTyped
    <3>2. CASE UNCHANGED waitVars
      BY <1>1, <3>2 DEF waitVars, WaitTyped
    <3>3. CASE /\ pendingSince' = [pendingSince EXCEPT ![m.chat] = m.at]
               /\ nextCheck' = [nextCheck EXCEPT ![m.chat] =
                                  IF attempts[m.chat] = 0 THEN Deadline(m.at, Interval) ELSE @]
               /\ UNCHANGED <<cycle, attempts>>
      <4>1. Deadline(m.at, Interval) \in Nat
        BY <1>1, Deadlines
      <4> QED BY <1>1, <3>3, <4>1 DEF WaitTyped, Times
    <3> QED BY <1>3, <3>1, <3>2, <3>3 DEF HearIncoming
  <2>2. ChatTyped'
    BY <1>1, <1>3 DEF HearIncoming, Hear, ChatTyped
  <2>3. Typed(actions') /\ ExecTyped'
    BY <1>1, <1>3 DEF HearIncoming, Hear, execVars, ExecTyped
  <2> QED BY <2>1, <2>2, <2>3, TypePartsNext
<1>4. CASE HearOutgoing(m)
  <2>1. ChatTyped'
    BY <1>1, <1>4 DEF HearOutgoing, Hear, ChatTyped, Times
  <2>2. ExecTyped'
    BY <1>1, <1>4 DEF HearOutgoing, Hear, execVars, ExecTyped
  <2>3. WaitTyped' /\ Typed(actions')
    <3>1. CASE Replied(m.chat, m.at)
      <4>1. Typed(actions')
        BY <1>1, <3>1, RepliedActions
      <4>2. WaitTyped'
        BY <1>1, <3>1, RepliedWait, StartTyped, StopTyped
      <4> QED BY <4>1, <4>2
    <3>2. CASE UNCHANGED <<waitVars, actions>>
      BY <1>1, <3>2 DEF waitVars, WaitTyped, Typed
    <3> QED BY <1>4, <3>1, <3>2 DEF HearOutgoing
  <2> QED BY <2>1, <2>2, <2>3, TypePartsNext
<1> QED BY <1>2, <1>3, <1>4 DEF Webhook

\* The steps that leave messages, waits and executors as they are.
LEMMA CheckTyped ==
  ASSUME TypeOK, NEW c \in Chats, Check(c)
  PROVE  TypeOK'
<1>1. ChatTyped /\ WaitTyped /\ Typed(actions) /\ ExecTyped
  BY TypeParts
<1>2. ChatTyped' /\ ExecTyped'
  BY <1>1 DEF Check, CheckForgets, CheckPostpones, CheckRecords, chatVars, execVars,
              ChatTyped, ExecTyped
<1>3. now \in 0..MaxTime /\ Deadline(now, 0) \in Nat /\ Deadline(now, Interval) \in Nat
  BY Deadlines DEF TypeOK
<1>4. WaitTyped' /\ Typed(actions')
  <2>1. CASE CheckForgets(c)
    BY <1>1, <2>1 DEF CheckForgets, WaitTyped, Times
  <2>2. CASE CheckPostpones(c)
    BY <1>1, <1>3, <2>2 DEF CheckPostpones, Opening, WaitTyped
  <2>3. CASE CheckRecords(c)
    <3>1. attempts[c] + 1 \in 0..MaxAttempts
      BY <1>1, <2>3, Limits DEF CheckRecords, WaitTyped
    <3>2. WaitTyped'
      BY <1>1, <1>3, <2>3, <3>1 DEF CheckRecords, WaitTyped
    <3> QED BY <2>3, <3>2, CheckedActions
  <2> QED BY <2>1, <2>2, <2>3 DEF Check
<1> QED BY <1>2, <1>4, TypePartsNext

\* An executor's step, or finder:check's on an interrupted action.
ExecStep ==
  \/ \E e \in Executors : Carry(e) \/ Die(e) \/ \E k \in DOMAIN actions : Deliver(e, k)
  \/ \E k \in DOMAIN actions : GiveUp(k)

\* It leaves all but actions and executors alone, and changes one action at most.
LEMMA ExecChanges ==
  ASSUME ExecStep
  PROVE  /\ UNCHANGED <<now, enabled, access, chatVars, lastOutgoing, waitVars>>
         /\ \/ actions' = actions
            \/ \E keys : \E status \in Status : actions' = WithStatus(keys, status)
<1> USE DEF Status
<1>1. ASSUME NEW e \in Executors, Carry(e)
      PROVE  /\ UNCHANGED <<now, enabled, access, chatVars, lastOutgoing, waitVars>>
             /\ \/ actions' = actions
                \/ \E keys : \E status \in Status : actions' = WithStatus(keys, status)
  BY <1>1 DEF Carry, Perform, PerformFails, Finish
<1>2. ASSUME NEW e \in Executors, Die(e)
      PROVE  UNCHANGED <<now, enabled, access, chatVars, lastOutgoing, waitVars, actions>>
  BY <1>2 DEF Die
<1>3. ASSUME NEW e \in Executors, NEW k \in DOMAIN actions, Deliver(e, k)
      PROVE  /\ UNCHANGED <<now, enabled, access, chatVars, lastOutgoing, waitVars>>
             /\ \E keys : \E status \in Status : actions' = WithStatus(keys, status)
  BY <1>3 DEF Deliver, Cancel, Begin
<1>4. ASSUME NEW k \in DOMAIN actions, GiveUp(k)
      PROVE  /\ UNCHANGED <<now, enabled, access, chatVars, lastOutgoing, waitVars>>
             /\ \E keys : \E status \in Status : actions' = WithStatus(keys, status)
  BY <1>4 DEF GiveUp
<1> QED BY <1>1, <1>2, <1>3, <1>4 DEF ExecStep

\* An executor at work has an action that is being processed.
Working ==
  \A e \in Executors : stage[e] # "idle" =>
    task[e] \in DOMAIN actions /\ actions[task[e]].status = "processing"

LEMMA ExecStepTyped ==
  ASSUME TypeOK, Working, ExecStep
  PROVE  TypeOK'
<1>1. ChatTyped /\ WaitTyped /\ Typed(actions) /\ ExecTyped
  BY TypeParts
<1>2. ChatTyped' /\ WaitTyped'
  BY <1>1, ExecChanges DEF chatVars, waitVars, ChatTyped, WaitTyped
<1>3. Typed(actions')
  BY <1>1, ExecChanges, WithStatusGives
<1>4. ExecTyped'
  <2>1. ASSUME NEW e \in Executors, Carry(e) PROVE ExecTyped'
    <3>1. CASE Perform(e)
      <4>1. task[e] \in Key
        BY <1>1, <3>1 DEF Perform, Working, Typed
      <4> QED BY <1>1, <3>1, <4>1 DEF Perform, ExecTyped
    <3>2. CASE PerformFails(e)
      BY <1>1, <3>2 DEF PerformFails, ExecTyped
    <3>3. CASE Finish(e)
      BY <1>1, <3>3 DEF Finish, ExecTyped
    <3> QED BY <2>1, <3>1, <3>2, <3>3 DEF Carry
  <2>2. ASSUME NEW e \in Executors, Die(e) PROVE ExecTyped'
    BY <1>1, <2>2 DEF Die, ExecTyped
  <2>3. ASSUME NEW e \in Executors, NEW k \in DOMAIN actions, Deliver(e, k) PROVE ExecTyped'
    <3>1. k \in Key
      BY <1>1 DEF Typed
    <3> QED BY <1>1, <2>3, <3>1 DEF Deliver, Cancel, Begin, execVars, ExecTyped
  <2>4. ASSUME NEW k \in DOMAIN actions, GiveUp(k) PROVE ExecTyped'
    BY <1>1, <2>4 DEF GiveUp, execVars, ExecTyped
  <2> QED BY <2>1, <2>2, <2>3, <2>4 DEF ExecStep
<1> QED BY <1>2, <1>3, <1>4, TypePartsNext

\* The clock, the clients and the switches.
Around == Tick \/ (\E c \in Chats : Write(c)) \/ Disable \/ Enable \/ AccessChanges

LEMMA AroundTyped ==
  ASSUME TypeOK, Around
  PROVE  TypeOK'
<1>1. ChatTyped /\ WaitTyped /\ Typed(actions) /\ ExecTyped
  BY TypeParts
<1>2. ExecTyped'
  BY <1>1 DEF Around, Tick, Write, Disable, Enable, AccessChanges, execVars, ExecTyped
<1>3. ChatTyped'
  <2>1. CASE Tick
    BY <1>1, <2>1, Limits DEF Tick, chatVars, ChatTyped
  <2>2. ASSUME NEW c \in Chats, Write(c) PROVE ChatTyped'
    <3>1. \A dir \in {"incoming", "outgoing"} : [chat |-> c, dir |-> dir, at |-> now] \in Message
      BY <1>1 DEF ChatTyped, Message
    <3> QED BY <1>1, <2>2, <3>1 DEF Write, ChatTyped
  <2>3. CASE Disable \/ Enable \/ AccessChanges
    BY <1>1, <2>3 DEF Disable, Enable, AccessChanges, chatVars, ChatTyped
  <2> QED BY <2>1, <2>2, <2>3 DEF Around
<1>4. WaitTyped' /\ Typed(actions')
  <2>1. CASE Disable
    <3>1. "cancelled" \in Status
      BY DEF Status
    <3>2. Typed(actions')
      BY <1>1, <2>1, <3>1, WithStatusGives DEF Disable
    <3>3. WaitTyped'
      BY <1>1, <2>1 DEF Disable, WaitTyped, Times
    <3> QED BY <3>2, <3>3
  <2>2. CASE UNCHANGED <<waitVars, actions>>
    BY <1>1, <2>2 DEF waitVars, WaitTyped
  <2> QED BY <2>1, <2>2 DEF Around, Tick, Write, Enable, AccessChanges
<1> QED BY <1>2, <1>3, <1>4, TypePartsNext

\* The parts of Next.
LEMMA NextParts ==
  ASSUME [Next]_vars
  PROVE  \/ \E m \in sent : Webhook(m)
         \/ \E c \in Chats : Check(c)
         \/ ExecStep \/ Around \/ UNCHANGED vars
BY DEF Next, ExecStep, Around

LEMMA NextTyped ==
  ASSUME TypeOK, Working, [Next]_vars
  PROVE  TypeOK'
<1>1. CASE UNCHANGED vars
  BY <1>1 DEF vars, chatVars, waitVars, execVars, TypeOK
<1> QED BY <1>1, NextParts, HearTyped, CheckTyped, ExecStepTyped, AroundTyped

-----------------------------------------------------------------------------
(* What the executors hold, and what becomes of an action                   *)

Quiet == (\E m \in sent : Webhook(m)) \/ (\E c \in Chats : Check(c)) \/ Around \/ UNCHANGED vars

\* Whatever is recorded stays; an action changes by becoming what may follow.
Follows(old, new) ==
  \/ new = old
  \/ old = "pending" /\ new \in {"processing", "cancelled"}
  \/ old = "processing" /\ new \in {"succeeded", "failed"}

Advances ==
  /\ DOMAIN actions \subseteq DOMAIN actions'
  /\ \A k \in DOMAIN actions :
       /\ actions'[k].at = actions[k].at /\ actions'[k].since = actions[k].since
       /\ Follows(actions[k].status, actions'[k].status)
  /\ \A k \in DOMAIN actions' \ DOMAIN actions : actions'[k].status = "pending"

LEMMA HearActions ==
  ASSUME NEW m \in sent, Webhook(m)
  PROVE  UNCHANGED actions \/ Replied(m.chat, m.at)
<1>1. CASE Ignore(m)  BY <1>1 DEF Ignore
<1>2. CASE HearIncoming(m)  BY <1>2 DEF HearIncoming
<1>3. CASE HearOutgoing(m)  BY <1>3 DEF HearOutgoing
<1> QED BY <1>1, <1>2, <1>3 DEF Webhook

\* Without the executors no action begins or ends, but pending ones are cancelled.
LEMMA QuietChanges ==
  ASSUME TypeOK, Quiet
  PROVE  /\ Advances /\ UNCHANGED execVars
         /\ \A k \in DOMAIN actions : actions'[k].status \in {actions[k].status, "cancelled"}
<1> USE DEF Follows
<1>1. ASSUME NEW m \in sent, Webhook(m)
      PROVE  /\ Advances /\ UNCHANGED execVars
             /\ \A k \in DOMAIN actions : actions'[k].status \in {actions[k].status, "cancelled"}
  <2>1. m.chat \in Chats /\ m.at \in 0..MaxTime
    BY DEF TypeOK, Message
  <2>2. UNCHANGED execVars
    BY <1>1 DEF Webhook, Ignore, HearIncoming, HearOutgoing, Hear
  <2>3. CASE UNCHANGED actions
    BY <2>2, <2>3 DEF Advances
  <2>4. CASE Replied(m.chat, m.at)
    <3>1. /\ DOMAIN actions' = DOMAIN actions \cup RepliesFor(m.chat)
          /\ \A k \in DOMAIN actions :
              /\ actions'[k].at = actions[k].at /\ actions'[k].since = actions[k].since
              /\ actions'[k].status = IF k \in Current(m.chat, "overdue", {"pending"})
                                      THEN "cancelled" ELSE actions[k].status
          /\ \A k \in RepliesFor(m.chat) \ DOMAIN actions : actions'[k].status = "pending"
      BY <2>1, <2>4, RepliedActions
    <3>2. \A k \in Current(m.chat, "overdue", {"pending"}) : actions[k].status = "pending"
      BY DEF Current
    <3> QED BY <2>2, <3>1, <3>2 DEF Advances
  <2>5. UNCHANGED actions \/ Replied(m.chat, m.at)
    BY <1>1, HearActions
  <2> QED BY <2>3, <2>4, <2>5
<1>2. ASSUME NEW c \in Chats, Check(c)
      PROVE  /\ Advances /\ UNCHANGED execVars
             /\ \A k \in DOMAIN actions : actions'[k].status \in {actions[k].status, "cancelled"}
  <2>1. UNCHANGED execVars
    BY <1>2 DEF Check, CheckForgets, CheckPostpones, CheckRecords
  <2>2. CASE UNCHANGED actions
    BY <2>1, <2>2 DEF Advances
  <2>3. CASE CheckRecords(c)
    <3>1. /\ DOMAIN actions' = DOMAIN actions \cup Overdues(c)
          /\ \A k \in DOMAIN actions : actions'[k] = actions[k]
          /\ \A k \in Overdues(c) \ DOMAIN actions :
              actions'[k] = [status |-> "pending", at |-> now, since |-> pendingSince[c]]
      BY <2>3, CheckedActions
    <3> QED BY <2>1, <3>1 DEF Advances
  <2> QED BY <1>2, <2>2, <2>3 DEF Check, CheckForgets, CheckPostpones
<1>3. CASE Around
  <2>1. UNCHANGED execVars
    BY <1>3 DEF Around, Tick, Write, Disable, Enable, AccessChanges
  <2>2. CASE UNCHANGED actions
    BY <2>1, <2>2 DEF Advances
  <2>3. CASE Disable
    <3> DEFINE P == {k \in DOMAIN actions : actions[k].status = "pending"}
    <3>1. "cancelled" \in Status /\ actions' = WithStatus(P, "cancelled")
      BY <2>3 DEF Disable, Status
    <3>2. /\ DOMAIN actions' = DOMAIN actions
          /\ \A k \in DOMAIN actions :
               /\ actions'[k].at = actions[k].at /\ actions'[k].since = actions[k].since
               /\ actions'[k].status = IF k \in P THEN "cancelled" ELSE actions[k].status
      BY <3>1, TypedActions, WithStatusGives
    <3> QED BY <2>1, <3>2 DEF Advances
  <2> QED BY <1>3, <2>2, <2>3 DEF Around, Tick, Write, Enable, AccessChanges
<1>4. CASE UNCHANGED vars
  BY <1>4 DEF vars, Advances
<1> QED BY <1>1, <1>2, <1>3, <1>4 DEF Quiet

\* No two executors have the same action; what was carried out had begun; what
\* is about to be carried out was not carried out before.
ExecInv ==
  /\ Working
  /\ \A e, f \in Executors :
       stage[e] # "idle" /\ stage[f] # "idle" /\ task[e] = task[f] => e = f
  /\ \A i \in 1..Len(posts) :
       posts[i] \in DOMAIN actions /\ actions[posts[i]].status # "pending"
  /\ \A e \in Executors : stage[e] = "perform" => \A i \in 1..Len(posts) : posts[i] # task[e]
  /\ AtMostOnePost

LEMMA QuietExec ==
  ASSUME TypeOK, ExecInv, Quiet
  PROVE  ExecInv'
<1>1. /\ Advances /\ UNCHANGED execVars
      /\ \A k \in DOMAIN actions : actions'[k].status \in {actions[k].status, "cancelled"}
  BY QuietChanges
<1>2. stage' = stage /\ task' = task /\ posts' = posts
  BY <1>1 DEF execVars
<1>3. Working'
  BY <1>1, <1>2 DEF ExecInv, Working, Advances, Follows
<1>4. \A i \in 1..Len(posts) : posts[i] \in DOMAIN actions' /\ actions'[posts[i]].status # "pending"
  BY <1>1 DEF ExecInv, Advances
<1> QED BY <1>2, <1>3, <1>4 DEF ExecInv, AtMostOnePost

\* One action is given another status that may follow its own.
LEMMA OneChanges ==
  ASSUME TypeOK, NEW k \in DOMAIN actions, NEW status \in Status,
         Follows(actions[k].status, status), actions' = WithStatus({k}, status)
  PROVE  /\ Advances /\ DOMAIN actions' = DOMAIN actions
         /\ actions'[k].status = status
         /\ \A l \in DOMAIN actions : l # k => actions'[l].status = actions[l].status
<1>1. /\ DOMAIN actions' = DOMAIN actions
      /\ \A l \in DOMAIN actions :
           /\ actions'[l].at = actions[l].at /\ actions'[l].since = actions[l].since
           /\ actions'[l].status = IF l \in {k} THEN status ELSE actions[l].status
  BY TypedActions, WithStatusGives
<1> QED BY <1>1 DEF Advances, Follows

\* Nothing changes but an action that nobody has and that was not carried out.
LEMMA IdleExec ==
  ASSUME TypeOK, ExecInv, UNCHANGED execVars, NEW k \in DOMAIN actions, NEW status \in Status,
         Follows(actions[k].status, status), status # "pending",
         actions' = WithStatus({k}, status), \A e \in Executors : stage[e] # "idle" => task[e] # k
  PROVE  ExecInv' /\ Advances
<1>1. /\ Advances /\ DOMAIN actions' = DOMAIN actions
      /\ actions'[k].status = status
      /\ \A l \in DOMAIN actions : l # k => actions'[l].status = actions[l].status
  BY OneChanges
<1>2. stage' = stage /\ task' = task /\ posts' = posts
  BY DEF execVars
<1> QED BY <1>1, <1>2 DEF ExecInv, Working, AtMostOnePost

LEMMA BeginExec ==
  ASSUME TypeOK, ExecInv, NEW e \in Executors, NEW k \in DOMAIN actions, Begin(e, k)
  PROVE  ExecInv' /\ Advances
<1>1. /\ stage[e] = "idle" /\ actions[k].status = "pending" /\ posts' = posts
      /\ actions' = WithStatus({k}, "processing")
      /\ stage' = [stage EXCEPT ![e] = "perform"] /\ task' = [task EXCEPT ![e] = k]
  BY DEF Begin, Pending
<1>2. /\ Advances /\ DOMAIN actions' = DOMAIN actions
      /\ actions'[k].status = "processing"
      /\ \A l \in DOMAIN actions : l # k => actions'[l].status = actions[l].status
  BY <1>1, OneChanges DEF Follows, Status
<1>3. /\ \A f \in Executors : stage'[f] = (IF f = e THEN "perform" ELSE stage[f])
      /\ \A f \in Executors : task'[f] = (IF f = e THEN k ELSE task[f])
  BY <1>1 DEF TypeOK
<1>4. \A f \in Executors : stage[f] # "idle" => task[f] # k /\ task[f] \in DOMAIN actions
                                               /\ actions[task[f]].status = "processing"
  BY <1>1 DEF ExecInv, Working
<1>5. Working'
  BY <1>2, <1>3, <1>4 DEF Working
<1>6. \A f, g \in Executors :
        stage'[f] # "idle" /\ stage'[g] # "idle" /\ task'[f] = task'[g] => f = g
  BY <1>1, <1>3, <1>4 DEF ExecInv
<1>7. \A i \in 1..Len(posts) :
        posts[i] # k /\ posts[i] \in DOMAIN actions' /\ actions'[posts[i]].status # "pending"
  BY <1>1, <1>2 DEF ExecInv
<1>8. \A f \in Executors : stage'[f] = "perform" => \A i \in 1..Len(posts) : posts[i] # task'[f]
  BY <1>3, <1>7 DEF ExecInv
<1> QED BY <1>1, <1>2, <1>5, <1>6, <1>7, <1>8 DEF ExecInv, AtMostOnePost

LEMMA PerformExec ==
  ASSUME TypeOK, ExecInv, NEW e \in Executors, Perform(e)
  PROVE  ExecInv' /\ Advances
<1>1. /\ stage[e] = "perform" /\ posts' = Append(posts, task[e])
      /\ actions' = actions /\ task' = task
  BY DEF Perform
<1>2. PICK outcome \in {"succeed", "fail"} : stage' = [stage EXCEPT ![e] = outcome]
  BY DEF Perform
<1>3. \A f \in Executors : stage'[f] = (IF f = e THEN outcome ELSE stage[f])
  BY <1>2 DEF TypeOK
<1>4. task[e] \in Key /\ task[e] \in DOMAIN actions /\ actions[task[e]].status = "processing"
  BY <1>1 DEF ExecInv, Working, TypeOK
<1>5. /\ Len(posts') = Len(posts) + 1 /\ Len(posts) \in Nat
      /\ \A i \in 1..Len(posts') : posts'[i] = IF i = Len(posts) + 1 THEN task[e] ELSE posts[i]
  BY <1>1, <1>4 DEF TypeOK
<1>6. Working'
  BY <1>1, <1>3 DEF ExecInv, Working
<1>7. \A f, g \in Executors :
        stage'[f] # "idle" /\ stage'[g] # "idle" /\ task'[f] = task'[g] => f = g
  BY <1>1, <1>3 DEF ExecInv
<1>8. \A i \in 1..Len(posts') : i # Len(posts) + 1 => i \in 1..Len(posts)
  BY <1>5
<1>9. \A i \in 1..Len(posts) : posts[i] # task[e]
  BY <1>1 DEF ExecInv
<1>10. \A i \in 1..Len(posts') :
         posts'[i] \in DOMAIN actions' /\ actions'[posts'[i]].status # "pending"
  BY <1>1, <1>4, <1>5, <1>8 DEF ExecInv
<1>11. \A f \in Executors : stage'[f] = "perform" => \A i \in 1..Len(posts') : posts'[i] # task'[f]
  <2> SUFFICES ASSUME NEW f \in Executors, stage'[f] = "perform", NEW i \in 1..Len(posts')
               PROVE  posts'[i] # task'[f]
    OBVIOUS
  <2>1. f # e /\ stage[f] = "perform"
    BY <1>3
  <2>2. task[f] # task[e]
    BY <1>1, <2>1 DEF ExecInv
  <2> QED BY <1>1, <1>5, <1>8, <2>1, <2>2 DEF ExecInv
<1>12. AtMostOnePost'
  BY <1>5, <1>8, <1>9 DEF ExecInv, AtMostOnePost
<1>13. Advances
  BY <1>1 DEF Advances, Follows
<1> QED BY <1>6, <1>7, <1>10, <1>11, <1>12, <1>13 DEF ExecInv

LEMMA EndExec ==
  ASSUME TypeOK, ExecInv, NEW e \in Executors, PerformFails(e) \/ Finish(e) \/ Die(e)
  PROVE  ExecInv' /\ Advances
<1>1. stage[e] # "idle" /\ posts' = posts
  BY DEF PerformFails, Finish, Die
<1>2. task[e] \in DOMAIN actions /\ actions[task[e]].status = "processing"
  BY <1>1 DEF ExecInv, Working
<1>3. CASE PerformFails(e)
  <2>1. task' = task /\ actions' = actions
        /\ \A f \in Executors : stage'[f] = (IF f = e THEN "fail" ELSE stage[f])
    BY <1>3 DEF PerformFails, TypeOK
  <2>2. Advances
    BY <2>1 DEF Advances, Follows
  <2> QED BY <1>1, <2>1, <2>2 DEF ExecInv, Working, AtMostOnePost
<1>4. CASE Die(e)
  <2>1. /\ actions' = actions
        /\ \A f \in Executors : stage'[f] = (IF f = e THEN "idle" ELSE stage[f])
        /\ \A f \in Executors : f # e => task'[f] = task[f]
    BY <1>4 DEF Die, TypeOK
  <2>2. Advances
    BY <2>1 DEF Advances, Follows
  <2> QED BY <1>1, <2>1, <2>2 DEF ExecInv, Working, AtMostOnePost
<1>5. CASE Finish(e)
  <2> DEFINE status == IF stage[e] = "succeed" THEN "succeeded" ELSE "failed"
  <2>1. /\ actions' = WithStatus({task[e]}, status)
        /\ \A f \in Executors : stage'[f] = (IF f = e THEN "idle" ELSE stage[f])
        /\ \A f \in Executors : f # e => task'[f] = task[f]
    BY <1>5 DEF Finish, TypeOK
  <2>2. status \in {"succeeded", "failed"}
    OBVIOUS
  <2> HIDE DEF status
  <2>3. /\ Advances /\ DOMAIN actions' = DOMAIN actions
        /\ actions'[task[e]].status = status
        /\ \A l \in DOMAIN actions : l # task[e] => actions'[l].status = actions[l].status
    BY <1>2, <2>1, <2>2, OneChanges DEF Follows, Status
  <2>4. \A f \in Executors : stage'[f] # "idle" =>
           /\ f # e /\ stage'[f] = stage[f] /\ task'[f] = task[f] /\ task[f] # task[e]
           /\ task[f] \in DOMAIN actions /\ actions[task[f]].status = "processing"
    BY <1>1, <2>1 DEF ExecInv, Working
  <2>5. Working'
    BY <2>3, <2>4 DEF Working
  <2>6. \A i \in 1..Len(posts) : posts[i] \in DOMAIN actions' /\ actions'[posts[i]].status # "pending"
    BY <2>2, <2>3 DEF ExecInv
  <2>7. \A f, g \in Executors :
          stage'[f] # "idle" /\ stage'[g] # "idle" /\ task'[f] = task'[g] => f = g
    BY <2>4 DEF ExecInv
  <2>8. \A f \in Executors : stage'[f] = "perform" => \A i \in 1..Len(posts) : posts[i] # task'[f]
    BY <2>4 DEF ExecInv
  <2> QED BY <1>1, <2>3, <2>5, <2>6, <2>7, <2>8 DEF ExecInv, AtMostOnePost
<1> QED BY <1>3, <1>4, <1>5

LEMMA ExecStepExec ==
  ASSUME TypeOK, ExecInv, ExecStep
  PROVE  ExecInv' /\ Advances
<1>1. ASSUME NEW e \in Executors, Carry(e) \/ Die(e) PROVE ExecInv' /\ Advances
  BY <1>1, PerformExec, EndExec DEF Carry
<1>2. ASSUME NEW e \in Executors, NEW k \in DOMAIN actions, Cancel(e, k) PROVE ExecInv' /\ Advances
  <2>1. actions[k].status = "pending" /\ actions' = WithStatus({k}, "cancelled") /\ UNCHANGED execVars
    BY <1>2 DEF Cancel, Pending
  <2>2. \A f \in Executors : stage[f] # "idle" => task[f] # k
    BY <2>1 DEF ExecInv, Working
  <2> QED BY <2>1, <2>2, IdleExec DEF Follows, Status
<1>3. ASSUME NEW e \in Executors, NEW k \in DOMAIN actions, Deliver(e, k) PROVE ExecInv' /\ Advances
  BY <1>2, <1>3, BeginExec DEF Deliver
<1>4. ASSUME NEW k \in DOMAIN actions, GiveUp(k) PROVE ExecInv' /\ Advances
  <2>1. /\ actions[k].status = "processing" /\ actions' = WithStatus({k}, "failed")
        /\ UNCHANGED execVars /\ \A f \in Executors : task[f] # k
    BY <1>4 DEF GiveUp
  <2> QED BY <2>1, IdleExec DEF Follows, Status
<1> QED BY <1>1, <1>3, <1>4 DEF ExecStep

-----------------------------------------------------------------------------
(* When overdue actions are recorded                                        *)

\* Actions belong to the waits so far, and overdue ones to the attempts so far.
KeysFit ==
  \A k \in DOMAIN actions :
    /\ k.cycle <= cycle[k.chat]
    /\ k.event = "overdue" =>
         /\ k.attempt >= 1 /\ actions[k].since \in 0..MaxTime
         /\ k.cycle = cycle[k.chat] => k.attempt <= attempts[k.chat]

\* The next check of a wait is due as late as the attempt that it makes.
NextIsDue ==
  \A c \in Chats : Waiting(c) /\ nextCheck[c] # None =>
    nextCheck[c] >= pendingSince[c] + attempts[c] * Interval + Interval

\* And an interval after each attempt that was made.
NextIsSpaced ==
  \A k \in DOMAIN actions :
    k.event = "overdue" /\ k.cycle = cycle[k.chat] /\ nextCheck[k.chat] # None =>
      nextCheck[k.chat] >= actions[k].at + Interval

WaitInv == KeysFit /\ NextIsDue /\ NextIsSpaced /\ OverdueIsDue /\ AttemptsSpaced

\* A step without a recorded check starts a new wait, or leaves the attempts and
\* puts the next check off, unless none was made.
WaitKeeps(c) ==
  /\ cycle'[c] >= cycle[c]
  /\ cycle'[c] = cycle[c] => attempts'[c] = attempts[c]
  /\ nextCheck'[c] # None =>
       /\ pendingSince'[c] # None =>
            nextCheck'[c] >= pendingSince'[c] + attempts'[c] * Interval + Interval
       /\ \/ cycle'[c] > cycle[c] \/ attempts[c] = 0
          \/ nextCheck[c] # None /\ nextCheck'[c] >= nextCheck[c]

LEMMA WaitKept ==
  ASSUME TypeOK, TypeOK', WaitInv, Advances, \A c \in Chats : WaitKeeps(c),
         \A k \in DOMAIN actions' \ DOMAIN actions :
           k.event = "replied" /\ k.cycle <= cycle[k.chat]
  PROVE  WaitInv'
<1>1. \A k \in DOMAIN actions' :
        /\ k \in Key /\ k.chat \in Chats /\ k.cycle \in Nat /\ k.attempt \in Nat
        /\ cycle[k.chat] \in Nat /\ cycle'[k.chat] \in Nat
        /\ attempts[k.chat] \in Nat /\ attempts'[k.chat] \in Nat
        /\ nextCheck[k.chat] \in Nat \cup {None} /\ nextCheck'[k.chat] \in Nat \cup {None}
        /\ actions'[k].at \in Nat
  BY Limits DEF TypeOK, Key
<1>2. \A k \in DOMAIN actions' : k.event = "overdue" => k \in DOMAIN actions
  BY Zenon
<1>3. \A k \in DOMAIN actions :
        k \in DOMAIN actions' /\ actions'[k].at = actions[k].at /\ actions'[k].since = actions[k].since
  BY DEF Advances
<1>4. KeysFit'
  <2> SUFFICES ASSUME NEW k \in DOMAIN actions'
               PROVE  /\ k.cycle <= cycle'[k.chat]
                      /\ k.event = "overdue" =>
                           /\ k.attempt >= 1 /\ actions'[k].since \in 0..MaxTime
                           /\ k.cycle = cycle'[k.chat] => k.attempt <= attempts'[k.chat]
    BY DEF KeysFit
  <2>1. WaitKeeps(k.chat)
    BY <1>1
  <2>2. k.cycle <= cycle[k.chat]
    BY DEF WaitInv, KeysFit
  <2>3. k.cycle <= cycle'[k.chat] /\ (k.cycle = cycle'[k.chat] => cycle'[k.chat] = cycle[k.chat])
    BY <1>1, <2>1, <2>2 DEF WaitKeeps
  <2>4. ASSUME k.event = "overdue"
        PROVE  /\ k.attempt >= 1 /\ actions'[k].since \in 0..MaxTime
               /\ k.cycle = cycle'[k.chat] => k.attempt <= attempts'[k.chat]
    <3>1. k \in DOMAIN actions /\ actions'[k].since = actions[k].since
      BY <1>2, <1>3, <2>4
    <3>2. /\ k.attempt >= 1 /\ actions[k].since \in 0..MaxTime
          /\ k.cycle = cycle[k.chat] => k.attempt <= attempts[k.chat]
      BY <2>4, <3>1 DEF WaitInv, KeysFit
    <3> QED BY <2>1, <2>3, <3>1, <3>2 DEF WaitKeeps
  <2> QED BY <2>3, <2>4
<1>5. NextIsDue'
  BY DEF NextIsDue, WaitKeeps, Waiting
<1>6. NextIsSpaced'
  <2> SUFFICES ASSUME NEW k \in DOMAIN actions', k.event = "overdue",
                      k.cycle = cycle'[k.chat], nextCheck'[k.chat] # None
               PROVE  nextCheck'[k.chat] >= actions'[k].at + Interval
    BY DEF NextIsSpaced
  <2>1. k \in DOMAIN actions /\ actions'[k].at = actions[k].at
    BY <1>2, <1>3
  <2>2. WaitKeeps(k.chat)
    BY <1>1
  <2>3. k.cycle <= cycle[k.chat] /\ k.attempt >= 1
    BY <2>1 DEF WaitInv, KeysFit
  <2>4. cycle'[k.chat] = cycle[k.chat] /\ k.cycle = cycle[k.chat]
    BY <1>1, <2>2, <2>3 DEF WaitKeeps
  <2>5. k.attempt <= attempts[k.chat]
    BY <2>1, <2>4 DEF WaitInv, KeysFit
  <2>6. nextCheck[k.chat] # None /\ nextCheck'[k.chat] >= nextCheck[k.chat]
    BY <1>1, <2>2, <2>3, <2>4, <2>5 DEF WaitKeeps
  <2>7. nextCheck[k.chat] >= actions[k].at + Interval
    BY <2>1, <2>4, <2>6 DEF WaitInv, NextIsSpaced
  <2> QED BY <1>1, <2>1, <2>6, <2>7, Limits
<1>7. OverdueIsDue' /\ AttemptsSpaced'
  BY <1>2, <1>3 DEF WaitInv, OverdueIsDue, AttemptsSpaced
<1> QED BY <1>4, <1>5, <1>6, <1>7 DEF WaitInv

LEMMA SameKeeps ==
  ASSUME TypeOK, WaitInv, NEW c \in Chats, pendingSince'[c] = pendingSince[c],
         nextCheck'[c] = nextCheck[c], cycle'[c] = cycle[c], attempts'[c] = attempts[c]
  PROVE  WaitKeeps(c)
<1>1. cycle[c] \in Nat /\ (nextCheck[c] # None => nextCheck[c] \in Nat)
  BY DEF TypeOK
<1> QED BY <1>1 DEF WaitInv, NextIsDue, Waiting, WaitKeeps

LEMMA StartKeeps ==
  ASSUME TypeOK, WaitInv, NEW d \in Chats, NEW t \in 0..MaxTime, StartWaiting(d, t)
  PROVE  \A c \in Chats : WaitKeeps(c)
<1> SUFFICES ASSUME NEW c \in Chats PROVE WaitKeeps(c)
  OBVIOUS
<1>1. CASE c # d
  BY <1>1, SameKeeps DEF StartWaiting, TypeOK
<1>2. CASE c = d
  <2>1. /\ cycle'[c] = cycle[c] + 1 /\ attempts'[c] = 0 /\ pendingSince'[c] = t
        /\ nextCheck'[c] = Deadline(t, Interval) /\ cycle[c] \in Nat
    BY <1>2 DEF StartWaiting, TypeOK
  <2>2. Deadline(t, Interval) \in Nat /\ Deadline(t, Interval) >= t + Interval
    BY Deadlines
  <2>3. 0 * Interval = 0
    BY Limits
  <2> QED BY <2>1, <2>2, <2>3, Limits DEF WaitKeeps
<1> QED BY <1>1, <1>2

LEMMA StopKeeps ==
  ASSUME TypeOK, WaitInv, NEW d \in Chats, StopWaiting(d)
  PROVE  \A c \in Chats : WaitKeeps(c)
<1> SUFFICES ASSUME NEW c \in Chats PROVE WaitKeeps(c)
  OBVIOUS
<1>1. CASE c # d
  BY <1>1, SameKeeps DEF StopWaiting, TypeOK
<1>2. CASE c = d
  <2>1. cycle'[c] = cycle[c] /\ attempts'[c] = attempts[c] /\ nextCheck'[c] = None /\ cycle[c] \in Nat
    BY <1>2 DEF StopWaiting, TypeOK
  <2> QED BY <2>1 DEF WaitKeeps
<1> QED BY <1>1, <1>2

\* A late message shows that the wait began earlier.
LEMMA EarlierKeeps ==
  ASSUME TypeOK, WaitInv, NEW d \in Chats, NEW t \in 0..MaxTime,
         pendingSince[d] # None, t < pendingSince[d],
         pendingSince' = [pendingSince EXCEPT ![d] = t],
         nextCheck' = [nextCheck EXCEPT ![d] = IF attempts[d] = 0 THEN Deadline(t, Interval) ELSE @],
         UNCHANGED <<cycle, attempts>>
  PROVE  \A c \in Chats : WaitKeeps(c)
<1> SUFFICES ASSUME NEW c \in Chats PROVE WaitKeeps(c)
  OBVIOUS
<1>1. CASE c # d
  BY <1>1, SameKeeps DEF TypeOK
<1>2. CASE c = d
  <2>1. /\ cycle'[c] = cycle[c] /\ attempts'[c] = attempts[c] /\ pendingSince'[c] = t
        /\ nextCheck'[c] = (IF attempts[c] = 0 THEN Deadline(t, Interval) ELSE nextCheck[c])
        /\ cycle[c] \in Nat /\ attempts[c] \in Nat /\ t \in Nat /\ pendingSince[c] \in Nat
        /\ nextCheck[c] \in Nat \cup {None}
    BY <1>2, Limits DEF TypeOK
  <2>2. Deadline(t, Interval) \in Nat /\ Deadline(t, Interval) >= t + Interval
    BY Deadlines
  <2>3. CASE attempts[c] = 0
    <3>1. attempts[c] * Interval = 0
      BY <2>3, Limits
    <3> QED BY <2>1, <2>2, <2>3, <3>1, Limits DEF WaitKeeps
  <2>4. CASE attempts[c] # 0
    <3> DEFINE spent == attempts[c] * Interval
    <3>1. nextCheck[c] # None => nextCheck[c] >= pendingSince[c] + spent + Interval
      BY <1>2 DEF WaitInv, NextIsDue, Waiting
    <3>2. spent \in Nat
      BY <2>1, Limits
    <3>3. nextCheck[c] # None => nextCheck[c] >= t + spent + Interval
      <4> HIDE DEF spent
      <4>1. t < pendingSince[c]
        BY <1>2
      <4> QED BY <2>1, <3>1, <3>2, <4>1, Limits
    <3> QED BY <2>1, <2>4, <3>3 DEF WaitKeeps
  <2> QED BY <2>3, <2>4
<1> QED BY <1>1, <1>2

LEMMA HearWait ==
  ASSUME TypeOK, TypeOK', WaitInv, Advances, NEW m \in sent, Webhook(m)
  PROVE  WaitInv'
<1>1. m.chat \in Chats /\ m.at \in 0..MaxTime
  BY DEF TypeOK, Message
<1>2. \/ \E t \in 0..MaxTime : StartWaiting(m.chat, t)
      \/ StopWaiting(m.chat)
      \/ UNCHANGED waitVars
      \/ /\ pendingSince[m.chat] # None /\ m.at < pendingSince[m.chat]
         /\ pendingSince' = [pendingSince EXCEPT ![m.chat] = m.at]
         /\ nextCheck' = [nextCheck EXCEPT ![m.chat] =
                            IF attempts[m.chat] = 0 THEN Deadline(m.at, Interval) ELSE @]
         /\ UNCHANGED <<cycle, attempts>>
  <2>1. CASE Ignore(m)
    BY <2>1 DEF Ignore
  <2>2. CASE HearIncoming(m)
    BY <1>1, <2>2 DEF HearIncoming, Waiting
  <2>3. CASE HearOutgoing(m)
    <3>1. CASE Replied(m.chat, m.at)
      BY <1>1, <3>1, RepliedWait
    <3>2. CASE UNCHANGED waitVars
      BY <3>2
    <3> QED BY <2>3, <3>1, <3>2 DEF HearOutgoing
  <2> QED BY <2>1, <2>2, <2>3 DEF Webhook
<1>3. \A c \in Chats : WaitKeeps(c)
  BY <1>1, <1>2, StartKeeps, StopKeeps, EarlierKeeps, SameKeeps DEF waitVars
<1>4. \A k \in DOMAIN actions' \ DOMAIN actions : k.event = "replied" /\ k.cycle <= cycle[k.chat]
  <2>1. UNCHANGED actions \/ Replied(m.chat, m.at)
    BY HearActions
  <2>2. CASE Replied(m.chat, m.at)
    <3>1. DOMAIN actions' = DOMAIN actions \cup RepliesFor(m.chat)
      BY <1>1, <2>2, RepliedActions
    <3>2. attempts[m.chat] \in Nat /\ cycle[m.chat] \in Nat
      BY <1>1, Limits DEF TypeOK
    <3>3. LET k == ActionKey(m.chat, attempts[m.chat], "replied", "workflow")
          IN k.event = "replied" /\ k.chat = m.chat /\ k.cycle = cycle[m.chat]
      BY <1>1, <3>2, ActionKeyIs
    <3>4. \A k \in RepliesFor(m.chat) :
            k.event = "replied" /\ k.chat = m.chat /\ k.cycle = cycle[m.chat]
      BY <3>3 DEF RepliesFor
    <3> QED BY <3>1, <3>2, <3>4
  <2> QED BY <2>1, <2>2
<1> QED BY <1>3, <1>4, WaitKept

LEMMA RecordWait ==
  ASSUME TypeOK, TypeOK', WaitInv, NEW d \in Chats, CheckRecords(d)
  PROVE  WaitInv'
<1>1. /\ pendingSince[d] # None /\ nextCheck[d] # None /\ nextCheck[d] <= now
      /\ pendingSince' = pendingSince /\ cycle' = cycle
      /\ \A c \in Chats : c # d => nextCheck'[c] = nextCheck[c] /\ attempts'[c] = attempts[c]
      /\ attempts'[d] = attempts[d] + 1
      /\ nextCheck'[d] \in {Deadline(now, Interval), None}
  BY DEF CheckRecords, Due, Waiting, TypeOK
<1>2. /\ DOMAIN actions' = DOMAIN actions \cup Overdues(d)
      /\ \A k \in DOMAIN actions : actions'[k] = actions[k]
      /\ \A k \in Overdues(d) \ DOMAIN actions :
           actions'[k] = [status |-> "pending", at |-> now, since |-> pendingSince[d]]
      /\ \A k \in Overdues(d) : /\ k \in Key /\ k.chat = d /\ k.cycle = cycle[d]
                                /\ k.event = "overdue" /\ k.attempt = attempts[d] + 1
  BY CheckedActions
<1>3. /\ now \in 0..MaxTime /\ now \in Nat /\ Deadline(now, Interval) \in Nat
      /\ Deadline(now, Interval) >= now + Interval
  BY Deadlines, Limits DEF TypeOK
<1>4. /\ pendingSince[d] \in 0..MaxTime /\ pendingSince[d] \in Nat /\ nextCheck[d] \in Nat
      /\ attempts[d] \in Nat /\ attempts[d] * Interval \in Nat
      /\ (attempts[d] + 1) * Interval = attempts[d] * Interval + Interval
  <2>1. /\ pendingSince[d] \in 0..MaxTime /\ nextCheck[d] \in Nat /\ attempts[d] \in 0..MaxAttempts
    BY <1>1 DEF TypeOK
  <2>2. \A n \in Nat : n * Interval \in Nat /\ (n + 1) * Interval = n * Interval + Interval
    BY Limits
  <2>3. attempts[d] \in Nat /\ pendingSince[d] \in Nat
    BY <2>1, Limits
  <2>4. /\ attempts[d] * Interval \in Nat
        /\ (attempts[d] + 1) * Interval = attempts[d] * Interval + Interval
    BY <2>2, <2>3, Zenon
  <2> QED BY <2>1, <2>3, <2>4, Zenon
<1>5. nextCheck[d] >= pendingSince[d] + attempts[d] * Interval + Interval
  BY <1>1 DEF WaitInv, NextIsDue, Waiting
<1>6. now >= pendingSince[d] + (attempts[d] + 1) * Interval
  BY <1>1, <1>3, <1>4, <1>5, Limits
<1>7. \A k \in DOMAIN actions' :
        /\ k \in Key /\ k.chat \in Chats /\ k.cycle \in Nat /\ k.attempt \in Nat
        /\ cycle[k.chat] \in Nat /\ attempts[k.chat] \in Nat
        /\ nextCheck[k.chat] \in Nat \cup {None} /\ actions'[k].at \in Nat
  BY Limits DEF TypeOK, Key
\* The new actions are those of the next attempt.
<1>8. \A k \in Overdues(d) : k \notin DOMAIN actions
  BY <1>2, <1>4 DEF WaitInv, KeysFit
<1>9. \A k \in Overdues(d) : actions'[k].at = now /\ actions'[k].since = pendingSince[d]
  BY <1>2, <1>8
\* The earlier attempts of this wait lie an interval back.
<1>10. \A k \in DOMAIN actions :
         k.event = "overdue" /\ k.chat = d /\ k.cycle = cycle[d] => now >= actions[k].at + Interval
  <2> SUFFICES ASSUME NEW k \in DOMAIN actions, k.event = "overdue", k.chat = d, k.cycle = cycle[d]
               PROVE  now >= actions[k].at + Interval
    OBVIOUS
  <2>1. nextCheck[d] >= actions[k].at + Interval
    BY <1>1 DEF WaitInv, NextIsSpaced
  <2>2. actions[k].at \in Nat
    BY <1>2, <1>7
  <2> QED BY <1>1, <1>3, <1>4, <2>1, <2>2, Limits
<1>11. KeysFit'
  BY <1>1, <1>2, <1>4, <1>7, <1>9 DEF WaitInv, KeysFit
<1>12. NextIsDue'
  <2> SUFFICES ASSUME NEW c \in Chats, pendingSince'[c] # None, nextCheck'[c] # None
               PROVE  nextCheck'[c] >= pendingSince'[c] + attempts'[c] * Interval + Interval
    BY DEF NextIsDue, Waiting
  <2>1. CASE c # d
    BY <1>1, <2>1 DEF WaitInv, NextIsDue, Waiting
  <2>2. CASE c = d
    <3>1. nextCheck'[d] >= now + Interval
      BY <1>1, <1>3, <2>2
    <3>2. pendingSince[d] + (attempts[d] + 1) * Interval \in Nat /\ nextCheck'[d] \in Nat
      BY <1>1, <1>3, <1>4, <2>2, Limits
    <3>3. nextCheck'[d] >= pendingSince[d] + (attempts[d] + 1) * Interval + Interval
      BY <1>3, <1>6, <3>1, <3>2, Limits
    <3> QED BY <1>1, <2>2, <3>3
  <2> QED BY <2>1, <2>2
<1>13. NextIsSpaced'
  <2> SUFFICES ASSUME NEW k \in DOMAIN actions', k.event = "overdue",
                      k.cycle = cycle[k.chat], nextCheck'[k.chat] # None
               PROVE  nextCheck'[k.chat] >= actions'[k].at + Interval
    BY <1>1 DEF NextIsSpaced
  <2>1. CASE k.chat # d
    BY <1>1, <1>2, <1>7, <2>1 DEF WaitInv, NextIsSpaced
  <2>2. CASE k.chat = d
    <3>1. nextCheck'[d] = Deadline(now, Interval)
      BY <1>1, <2>2
    <3>2. actions'[k].at <= now
      BY <1>2, <1>3, <1>7, <1>9, <1>10, <2>2, Limits
    <3> QED BY <1>3, <1>7, <2>2, <3>1, <3>2, Limits
  <2> QED BY <2>1, <2>2
<1>14. OverdueIsDue'
  <2> SUFFICES ASSUME NEW k \in DOMAIN actions', k.event = "overdue"
               PROVE  actions'[k].at >= actions'[k].since + k.attempt * Interval
    BY DEF OverdueIsDue
  <2>1. CASE k \in DOMAIN actions
    BY <1>2, <2>1 DEF WaitInv, OverdueIsDue
  <2>2. CASE k \in Overdues(d)
    BY <1>2, <1>6, <1>9, <2>2
  <2> QED BY <1>2, <2>1, <2>2
<1>15. AttemptsSpaced'
  <2> SUFFICES ASSUME NEW k \in DOMAIN actions', NEW l \in DOMAIN actions',
                      k.event = "overdue", l.event = "overdue", k.chat = l.chat,
                      k.cycle = l.cycle, k.attempt < l.attempt
               PROVE  actions'[l].at >= actions'[k].at + Interval
    BY DEF AttemptsSpaced
  <2>1. CASE k \in DOMAIN actions /\ l \in DOMAIN actions
    BY <1>2, <2>1 DEF WaitInv, AttemptsSpaced
  <2>2. CASE k \in DOMAIN actions /\ l \in Overdues(d)
    BY <1>2, <1>9, <1>10, <2>2
  <2>3. CASE k \in Overdues(d)
    <3>1. l \notin Overdues(d)
      BY <1>2, <1>4, <2>3
    <3>2. l.attempt <= attempts[d]
      BY <1>2, <2>3, <3>1 DEF WaitInv, KeysFit
    <3> QED BY <1>2, <1>4, <1>7, <2>3, <3>2
  <2> QED BY <1>2, <2>1, <2>2, <2>3
<1> QED BY <1>11, <1>12, <1>13, <1>14, <1>15 DEF WaitInv

LEMMA CheckWait ==
  ASSUME TypeOK, TypeOK', WaitInv, Advances, NEW d \in Chats, Check(d)
  PROVE  WaitInv'
<1>1. CASE CheckForgets(d)
  <2>1. StopWaiting(d) /\ actions' = actions
    BY <1>1 DEF CheckForgets, StopWaiting
  <2> QED BY <2>1, StopKeeps, WaitKept
<1>2. CASE CheckPostpones(d)
  <2>1. /\ nextCheck[d] # None /\ nextCheck[d] <= now /\ nextCheck'[d] = Deadline(now, 0)
        /\ Deadline(now, 0) > now /\ actions' = actions
        /\ UNCHANGED <<pendingSince, cycle, attempts>>
        /\ \A c \in Chats : c # d => nextCheck'[c] = nextCheck[c]
    BY <1>2 DEF CheckPostpones, Due, Opening, TypeOK
  <2>2. now \in Nat /\ Deadline(now, 0) \in Nat /\ nextCheck[d] \in Nat /\ cycle[d] \in Nat
    BY <2>1, Deadlines, Limits DEF TypeOK
  <2>3. WaitKeeps(d)
    <3>1. nextCheck'[d] >= nextCheck[d]
      BY <2>1, <2>2
    <3>2. ASSUME pendingSince'[d] # None
          PROVE  nextCheck'[d] >= pendingSince'[d] + attempts'[d] * Interval + Interval
      <4>1. nextCheck[d] >= pendingSince[d] + attempts[d] * Interval + Interval
        BY <2>1, <3>2 DEF WaitInv, NextIsDue, Waiting
      <4>2. pendingSince[d] + attempts[d] * Interval + Interval \in Nat
        <5>1. pendingSince[d] \in Nat /\ attempts[d] \in Nat
          BY <2>1, <3>2, Limits DEF TypeOK
        <5>2. attempts[d] * Interval \in Nat
          BY <5>1, Limits
        <5> QED BY <5>1, <5>2, Limits
      <4> DEFINE due == pendingSince[d] + attempts[d] * Interval + Interval
      <4>3. due \in Nat /\ nextCheck[d] >= due /\ nextCheck'[d] >= nextCheck[d]
        BY <3>1, <4>1, <4>2
      <4>4. nextCheck'[d] >= due
        <5> HIDE DEF due
        <5> QED BY <2>1, <2>2, <4>3
      <4> QED BY <2>1, <4>4
    <3> QED BY <2>1, <2>2, <3>1, <3>2 DEF WaitKeeps
  <2>4. \A c \in Chats : WaitKeeps(c)
    BY <2>1, <2>3, SameKeeps
  <2> QED BY <2>1, <2>4, WaitKept
<1>3. CASE CheckRecords(d)
  BY <1>3, RecordWait
<1> QED BY <1>1, <1>2, <1>3 DEF Check

LEMMA NextWait ==
  ASSUME TypeOK, TypeOK', ExecInv, WaitInv, [Next]_vars
  PROVE  WaitInv'
<1>1. Advances
  BY NextParts, QuietChanges, ExecStepExec DEF Quiet
<1>2. CASE UNCHANGED waitVars /\ DOMAIN actions' = DOMAIN actions
  <2>1. \A c \in Chats : WaitKeeps(c)
    BY <1>2, SameKeeps DEF waitVars
  <2> QED BY <1>1, <1>2, <2>1, WaitKept
<1>3. CASE ExecStep
  <2>1. DOMAIN actions' = DOMAIN actions /\ UNCHANGED waitVars
    BY <1>3, ExecChanges, TypedActions, WithStatusGives
  <2> QED BY <1>2, <2>1
<1>4. CASE Around
  <2>1. CASE Disable
    <3>1. \A c \in Chats : /\ nextCheck'[c] = None /\ cycle'[c] = cycle[c]
                           /\ attempts'[c] = attempts[c] /\ cycle[c] \in Nat
      BY <2>1 DEF Disable, TypeOK
    <3>2. \A c \in Chats : WaitKeeps(c)
      BY <3>1 DEF WaitKeeps
    <3>3. DOMAIN actions' = DOMAIN actions
      BY <2>1 DEF Disable, WithStatus
    <3> QED BY <1>1, <3>2, <3>3, WaitKept
  <2>2. CASE ~Disable
    <3>1. UNCHANGED waitVars /\ DOMAIN actions' = DOMAIN actions
      BY <1>4, <2>2 DEF Around, Tick, Write, Enable, AccessChanges
    <3> QED BY <1>2, <3>1
  <2> QED BY <2>1, <2>2
<1>5. CASE UNCHANGED vars
  BY <1>2, <1>5 DEF vars
<1> QED BY <1>1, <1>3, <1>4, <1>5, NextParts, HearWait, CheckWait

-----------------------------------------------------------------------------
(* The reply workflow                                                       *)

\* The actions that a step adds are overdue ones, or the reply workflow of a
\* wait in which an overdue action began and has not failed.
LEMMA AddedActions ==
  ASSUME TypeOK, [Next]_vars, NEW k \in DOMAIN actions' \ DOMAIN actions, k.event = "replied"
  PROVE  \E o \in DOMAIN actions :
           /\ o.event = "overdue" /\ o.chat = k.chat /\ o.cycle = k.cycle
           /\ actions[o].status \in {"processing", "succeeded"}
<1>1. ASSUME NEW m \in sent, Webhook(m)
      PROVE  \E o \in DOMAIN actions :
               /\ o.event = "overdue" /\ o.chat = k.chat /\ o.cycle = k.cycle
               /\ actions[o].status \in {"processing", "succeeded"}
  <2>1. m.chat \in Chats /\ m.at \in 0..MaxTime
    BY DEF TypeOK, Message
  <2>2. Replied(m.chat, m.at)
    BY <1>1, HearActions
  <2>3. k \in RepliesFor(m.chat)
    BY <2>1, <2>2, RepliedActions
  <2>4. /\ Current(m.chat, "overdue", {"processing", "succeeded"}) # {}
        /\ k = ActionKey(m.chat, attempts[m.chat], "replied", "workflow")
    BY <2>3 DEF RepliesFor
  <2>5. k.chat = m.chat /\ k.cycle = cycle[m.chat]
    BY <2>4 DEF ActionKey
  <2> QED BY <2>4, <2>5 DEF Current
<1>2. ASSUME NEW c \in Chats, Check(c) PROVE FALSE
  <2>1. CASE CheckRecords(c)
    <3>1. k \in Overdues(c)
      BY <2>1, CheckedActions
    <3> QED BY <2>1, <3>1, CheckedActions
  <2>2. CASE UNCHANGED actions
    BY <2>2
  <2> QED BY <1>2, <2>1, <2>2 DEF Check, CheckForgets, CheckPostpones
<1>3. CASE ExecStep
  BY <1>3, ExecChanges, TypedActions, WithStatusGives
<1>4. CASE Around
  BY <1>4 DEF Around, Tick, Write, Disable, Enable, AccessChanges, WithStatus
<1>5. CASE UNCHANGED vars
  BY <1>5 DEF vars
<1> QED BY <1>1, <1>2, <1>3, <1>4, <1>5, NextParts

LEMMA NextReply ==
  ASSUME TypeOK, ExecInv, ReplyFollowsOverdue, [Next]_vars
  PROVE  ReplyFollowsOverdue'
<1>1. Advances
  BY NextParts, QuietChanges, ExecStepExec DEF Quiet
<1>2. \A o \in DOMAIN actions :
        /\ o \in DOMAIN actions'
        /\ actions[o].status \in {"processing", "succeeded", "failed"}
             => actions'[o].status \in {"processing", "succeeded", "failed"}
  BY <1>1 DEF Advances, Follows
<1> SUFFICES ASSUME NEW k \in DOMAIN actions', k.event = "replied"
             PROVE  \E o \in DOMAIN actions' :
                      /\ o.event = "overdue" /\ o.chat = k.chat /\ o.cycle = k.cycle
                      /\ actions'[o].status \in {"processing", "succeeded", "failed"}
  BY DEF ReplyFollowsOverdue
<1>3. \E o \in DOMAIN actions :
        /\ o.event = "overdue" /\ o.chat = k.chat /\ o.cycle = k.cycle
        /\ actions[o].status \in {"processing", "succeeded", "failed"}
  <2>1. CASE k \in DOMAIN actions
    BY <2>1 DEF ReplyFollowsOverdue
  <2>2. CASE k \notin DOMAIN actions
    BY <2>2, AddedActions
  <2> QED BY <2>1, <2>2
<1> QED BY <1>2, <1>3

-----------------------------------------------------------------------------
(* Where a wait begins                                                      *)

Incoming(c) == {m \in stored : m.chat = c /\ m.dir = "incoming"}
Outgoing(c) == {m \in stored : m.chat = c /\ m.dir = "outgoing"}

\* The last message of the manager is no earlier than any that is stored.
LastKnown ==
  \A c \in Chats : \A o \in Outgoing(c) : lastOutgoing[c] # None /\ o.at <= lastOutgoing[c]

\* A client waits since a message that is stored and that came after it.
WaitFollows ==
  \A c \in Chats : Waiting(c) =>
    /\ \E i \in Incoming(c) : i.at = pendingSince[c]
    /\ lastOutgoing[c] # None => pendingSince[c] > lastOutgoing[c]

MsgInv == LastKnown /\ WaitFollows

\* Steps that hear of nothing may only end waits.
LEMMA ElsewhereKept ==
  ASSUME TypeOK, [Next]_vars, ~\E m \in sent : Webhook(m)
  PROVE  /\ UNCHANGED <<stored, lastOutgoing>>
         /\ \A c \in Chats : pendingSince'[c] \in {pendingSince[c], None}
<1>1. ASSUME NEW c \in Chats, Check(c)
      PROVE  /\ UNCHANGED <<stored, lastOutgoing>>
             /\ \A d \in Chats : pendingSince'[d] \in {pendingSince[d], None}
  BY <1>1 DEF Check, CheckForgets, CheckPostpones, CheckRecords, chatVars, TypeOK
<1>2. CASE ExecStep
  BY <1>2, ExecChanges DEF chatVars, waitVars
<1>3. CASE Around
  BY <1>3 DEF Around, Tick, Write, Disable, Enable, AccessChanges, chatVars, waitVars
<1>4. CASE UNCHANGED vars
  BY <1>4 DEF vars, chatVars, waitVars
<1> QED BY <1>1, <1>2, <1>3, <1>4, NextParts

\* How hearing of a message changes where its chat's wait begins.
LEMMA HearBegins ==
  ASSUME TypeOK, NEW m \in sent, Webhook(m)
  PROVE  /\ m.chat \in Chats /\ m.at \in 0..MaxTime
         /\ \A c \in Chats : c # m.chat =>
              pendingSince'[c] = pendingSince[c] /\ lastOutgoing'[c] = lastOutgoing[c]
         /\ \/ UNCHANGED <<stored, lastOutgoing, pendingSince>> /\ (~CanRun \/ m \in stored)
            \/ /\ m \notin stored /\ stored' = stored \cup {m} /\ m.dir = "incoming"
               /\ UNCHANGED lastOutgoing
               /\ pendingSince'[m.chat] =
                    (IF Newer(m) /\ (Waiting(m.chat) => m.at < pendingSince[m.chat])
                     THEN m.at ELSE pendingSince[m.chat])
            \/ /\ m \notin stored /\ stored' = stored \cup {m} /\ m.dir = "outgoing"
               /\ ~Newer(m) /\ UNCHANGED <<lastOutgoing, pendingSince>>
            \/ /\ m \notin stored /\ stored' = stored \cup {m} /\ m.dir = "outgoing"
               /\ Newer(m) /\ lastOutgoing'[m.chat] = m.at
               /\ IF Waiting(m.chat) /\ m.at >= pendingSince[m.chat]
                  THEN \/ /\ pendingSince'[m.chat] \in IncomingAfter(m.chat, m.at)
                          /\ \A u \in IncomingAfter(m.chat, m.at) : pendingSince'[m.chat] <= u
                       \/ IncomingAfter(m.chat, m.at) = {} /\ pendingSince'[m.chat] = None
                  ELSE UNCHANGED pendingSince
<1>1. m.chat \in Chats /\ m.at \in 0..MaxTime /\ m.at \in Nat
  BY Limits DEF TypeOK, Message
<1>2. pendingSince \in [Chats -> Times] /\ lastOutgoing \in [Chats -> Times]
  BY DEF TypeOK, Times
<1>3. CASE Ignore(m)
  BY <1>1, <1>3 DEF Ignore, waitVars
<1>4. CASE HearIncoming(m)
  <2>1. /\ m \notin stored /\ stored' = stored \cup {m} /\ m.dir = "incoming"
        /\ UNCHANGED lastOutgoing
    BY <1>4 DEF HearIncoming, Hear
  <2>2. \/ /\ Newer(m) /\ (Waiting(m.chat) => m.at < pendingSince[m.chat])
           /\ pendingSince' = [pendingSince EXCEPT ![m.chat] = m.at]
        \/ /\ ~Newer(m) \/ (Waiting(m.chat) /\ m.at >= pendingSince[m.chat])
           /\ pendingSince' = pendingSince
    BY <1>4 DEF HearIncoming, StartWaiting, waitVars
  <2>3. Waiting(m.chat) => pendingSince[m.chat] \in Nat
    BY <1>1, <1>2, Limits DEF Waiting, Times
  <2>4. CASE /\ Newer(m) /\ (Waiting(m.chat) => m.at < pendingSince[m.chat])
             /\ pendingSince' = [pendingSince EXCEPT ![m.chat] = m.at]
    BY <1>1, <1>2, <2>1, <2>4
  <2>5. CASE /\ ~Newer(m) \/ (Waiting(m.chat) /\ m.at >= pendingSince[m.chat])
             /\ pendingSince' = pendingSince
    <3>1. ~(Newer(m) /\ (Waiting(m.chat) => m.at < pendingSince[m.chat]))
      BY <1>1, <2>3, <2>5
    <3> QED BY <1>1, <2>1, <2>5, <3>1
  <2> QED BY <2>2, <2>4, <2>5
<1>5. CASE HearOutgoing(m)
  <2>1. m \notin stored /\ stored' = stored \cup {m} /\ m.dir = "outgoing"
    BY <1>5 DEF HearOutgoing, Hear
  <2>2. CASE ~Newer(m) /\ UNCHANGED <<lastOutgoing, waitVars, actions>>
    BY <1>1, <2>1, <2>2 DEF waitVars
  <2>3. CASE /\ Newer(m) /\ lastOutgoing' = [lastOutgoing EXCEPT ![m.chat] = m.at]
             /\ IF Waiting(m.chat) /\ m.at >= pendingSince[m.chat]
                THEN Replied(m.chat, m.at)
                ELSE UNCHANGED <<waitVars, actions>>
    <3>1. lastOutgoing'[m.chat] = m.at /\ \A c \in Chats : c # m.chat => lastOutgoing'[c] = lastOutgoing[c]
      BY <1>1, <1>2, <2>3
    <3>2. CASE Waiting(m.chat) /\ m.at >= pendingSince[m.chat]
      <4>1. CASE \E t \in IncomingAfter(m.chat, m.at) :
                   /\ t \in 0..MaxTime /\ StartWaiting(m.chat, t)
                   /\ \A u \in IncomingAfter(m.chat, m.at) : t <= u
        <5>1. /\ pendingSince'[m.chat] \in IncomingAfter(m.chat, m.at)
              /\ \A u \in IncomingAfter(m.chat, m.at) : pendingSince'[m.chat] <= u
              /\ \A c \in Chats : c # m.chat => pendingSince'[c] = pendingSince[c]
          BY <1>1, <1>2, <4>1 DEF StartWaiting
        <5> QED BY <1>1, <2>1, <2>3, <3>1, <3>2, <5>1
      <4>2. CASE IncomingAfter(m.chat, m.at) = {} /\ StopWaiting(m.chat)
        <5>1. /\ pendingSince'[m.chat] = None
              /\ \A c \in Chats : c # m.chat => pendingSince'[c] = pendingSince[c]
          BY <1>1, <1>2, <4>2 DEF StopWaiting
        <5> QED BY <1>1, <2>1, <2>3, <3>1, <3>2, <4>2, <5>1
      <4> QED BY <1>1, <2>3, <3>2, <4>1, <4>2, RepliedWait
    <3>3. CASE ~(Waiting(m.chat) /\ m.at >= pendingSince[m.chat])
      BY <1>1, <2>1, <2>3, <3>1, <3>3 DEF waitVars
    <3> QED BY <3>2, <3>3
  <2> QED BY <1>5, <2>2, <2>3 DEF HearOutgoing
<1> QED BY <1>3, <1>4, <1>5 DEF Webhook

LEMMA NextMsg ==
  ASSUME TypeOK, TypeOK', MsgInv, [Next]_vars
  PROVE  MsgInv'
<1>1. CASE ~\E m \in sent : Webhook(m)
  <2>1. /\ stored' = stored /\ lastOutgoing' = lastOutgoing
        /\ \A c \in Chats : pendingSince'[c] \in {pendingSince[c], None}
    BY <1>1, ElsewhereKept
  <2> QED BY <2>1 DEF MsgInv, LastKnown, WaitFollows, Incoming, Outgoing, Waiting
<1>2. ASSUME NEW m \in sent, Webhook(m) PROVE MsgInv'
  <2> DEFINE d == m.chat
  <2>1. /\ d \in Chats /\ m.at \in Nat
        /\ \A c \in Chats : c # d =>
             pendingSince'[c] = pendingSince[c] /\ lastOutgoing'[c] = lastOutgoing[c]
    BY <1>2, HearBegins, Limits
  <2>2. /\ \A c \in Chats : lastOutgoing[c] # None => lastOutgoing[c] \in Nat
        /\ \A c \in Chats : pendingSince[c] # None => pendingSince[c] \in Nat
        /\ \A n \in stored : n.at \in Nat
    BY Limits DEF TypeOK, Message
  <2>3. ASSUME stored' = stored \cup {m}, NEW c \in Chats, c # d
        PROVE  Incoming(c)' = Incoming(c) /\ Outgoing(c)' = Outgoing(c)
    BY <2>3 DEF Incoming, Outgoing
  <2>4. CASE UNCHANGED <<stored, lastOutgoing, pendingSince>>
    BY <2>4 DEF MsgInv, LastKnown, WaitFollows, Incoming, Outgoing, Waiting
  <2>5. ASSUME stored' = stored \cup {m},
               \A o \in Outgoing(d)' : lastOutgoing'[d] # None /\ o.at <= lastOutgoing'[d],
               pendingSince'[d] # None =>
                 /\ \E i \in Incoming(d)' : i.at = pendingSince'[d]
                 /\ lastOutgoing'[d] # None => pendingSince'[d] > lastOutgoing'[d]
        PROVE  MsgInv'
    <3>1. LastKnown'
      BY <2>1, <2>3, <2>5 DEF MsgInv, LastKnown
    <3>2. WaitFollows'
      BY <2>1, <2>3, <2>5 DEF MsgInv, WaitFollows, Waiting
    <3> QED BY <3>1, <3>2 DEF MsgInv
  <2>6. /\ \A o \in Outgoing(d) : lastOutgoing[d] # None /\ o.at <= lastOutgoing[d]
        /\ pendingSince[d] # None =>
             /\ \E i \in Incoming(d) : i.at = pendingSince[d]
             /\ lastOutgoing[d] # None => pendingSince[d] > lastOutgoing[d]
    BY <2>1 DEF MsgInv, LastKnown, WaitFollows, Waiting
  <2>7. CASE /\ stored' = stored \cup {m} /\ m.dir = "incoming" /\ lastOutgoing' = lastOutgoing
             /\ pendingSince'[d] =
                  (IF Newer(m) /\ (Waiting(d) => m.at < pendingSince[d])
                   THEN m.at ELSE pendingSince[d])
    <3>1. Incoming(d)' = Incoming(d) \cup {m} /\ Outgoing(d)' = Outgoing(d)
      BY <2>7 DEF Incoming, Outgoing
    <3>2. Newer(m) /\ lastOutgoing[d] # None => m.at > lastOutgoing[d]
      BY DEF Newer
    <3> QED BY <2>5, <2>6, <2>7, <3>1, <3>2
  <2>8. ASSUME stored' = stored \cup {m}, m.dir = "outgoing"
        PROVE  Incoming(d)' = Incoming(d) /\ Outgoing(d)' = Outgoing(d) \cup {m}
    BY <2>8 DEF Incoming, Outgoing
  <2>9. CASE /\ stored' = stored \cup {m} /\ m.dir = "outgoing"
             /\ ~Newer(m) /\ UNCHANGED <<lastOutgoing, pendingSince>>
    <3>1. lastOutgoing[d] # None /\ m.at <= lastOutgoing[d]
      BY <2>1, <2>2, <2>9 DEF Newer
    <3> QED BY <2>5, <2>6, <2>8, <2>9, <3>1
  <2>10. CASE /\ stored' = stored \cup {m} /\ m.dir = "outgoing"
              /\ Newer(m) /\ lastOutgoing'[d] = m.at
              /\ IF Waiting(d) /\ m.at >= pendingSince[d]
                 THEN pendingSince'[d] \in IncomingAfter(d, m.at) \cup {None}
                 ELSE UNCHANGED pendingSince
    <3>1. Incoming(d)' = Incoming(d) /\ Outgoing(d)' = Outgoing(d) \cup {m}
      BY <2>8, <2>10
    <3>2. m.at # None
      BY <2>1, Limits
    <3>3. \A o \in Outgoing(d)' : o.at <= m.at
      <4>1. \A o \in Outgoing(d) : o.at \in Nat
        BY <2>2 DEF Outgoing
      <4>2. lastOutgoing[d] # None => m.at > lastOutgoing[d]
        BY <2>10 DEF Newer
      <4> QED BY <2>1, <2>2, <2>6, <3>1, <4>1, <4>2
    <3>4. ASSUME pendingSince'[d] # None
          PROVE  (\E i \in Incoming(d)' : i.at = pendingSince'[d]) /\ pendingSince'[d] > m.at
      <4>1. CASE pendingSince'[d] \in IncomingAfter(d, m.at)
        BY <3>1, <4>1 DEF IncomingAfter, Incoming
      <4>2. CASE pendingSince' = pendingSince /\ ~(Waiting(d) /\ m.at >= pendingSince[d])
        BY <2>1, <2>2, <2>6, <3>1, <3>4, <4>2 DEF Waiting
      <4> QED BY <2>10, <3>4, <4>1, <4>2
    <3> QED BY <2>5, <2>10, <3>2, <3>3, <3>4
  <2> QED BY <1>2, <2>4, <2>7, <2>9, <2>10, HearBegins
<1> QED BY <1>1, <1>2

\* An action begins only by an executor, an overdue one only while its wait lasts.
LEMMA BegunCurrent ==
  ASSUME TypeOK, [Next]_vars, NEW k \in DOMAIN actions, k.event = "overdue", Begun(k)
  PROVE  Waiting(k.chat) /\ cycle[k.chat] = k.cycle /\ UNCHANGED waitVars
<1>1. CASE Quiet
  BY <1>1, QuietChanges DEF Begun
<1>2. CASE ExecStep
  <2>1. ASSUME NEW e \in Executors, NEW l \in DOMAIN actions, Begin(e, l)
        PROVE  Waiting(k.chat) /\ cycle[k.chat] = k.cycle
    <3>1. actions' = WithStatus({l}, "processing") /\ ~Obsolete(l)
      BY <2>1 DEF Begin
    <3>2. k = l
      BY <3>1, TypedActions, WithStatusGives DEF Begun, Status
    <3> QED BY <3>1, <3>2 DEF Obsolete
  <2>2. ASSUME NEW l, NEW status \in {"cancelled", "succeeded", "failed"},
               actions' = WithStatus({l}, status)
        PROVE  FALSE
    BY <2>2, TypedActions, WithStatusGives DEF Begun, Status
  <2>3. ASSUME NEW e \in Executors, Carry(e) PROVE FALSE
    <3>1. UNCHANGED actions \/ \E status \in {"succeeded", "failed"} :
                                 actions' = WithStatus({task[e]}, status)
      BY <2>3 DEF Carry, Perform, PerformFails, Finish
    <3> QED BY <2>2, <3>1 DEF Begun
  <2>4. ASSUME NEW e \in Executors, Die(e) PROVE FALSE
    BY <2>4 DEF Die, Begun
  <2>5. ASSUME NEW e \in Executors, NEW l \in DOMAIN actions, Deliver(e, l)
        PROVE  Waiting(k.chat) /\ cycle[k.chat] = k.cycle
    BY <2>1, <2>2, <2>5 DEF Deliver, Cancel
  <2>6. ASSUME NEW l \in DOMAIN actions, GiveUp(l) PROVE FALSE
    BY <2>2, <2>6 DEF GiveUp
  <2> QED BY <1>2, <2>3, <2>4, <2>5, <2>6, ExecChanges DEF ExecStep
<1> QED BY <1>1, <1>2, NextParts DEF Quiet

\* So it begins unanswered.
LEMMA BegunWaits ==
  ASSUME TypeOK, MsgInv, [Next]_vars, NEW k \in DOMAIN actions, k.event = "overdue", Begun(k)
  PROVE  \E i \in stored : /\ i.chat = k.chat /\ i.dir = "incoming"
                          /\ \A o \in stored : o.chat = k.chat /\ o.dir = "outgoing" => o.at < i.at
<1>1. k.chat \in Chats
  BY DEF TypeOK, Key
<1>2. Waiting(k.chat)
  BY BegunCurrent
<1>3. PICK i \in Incoming(k.chat) : i.at = pendingSince[k.chat]
  BY <1>1, <1>2 DEF MsgInv, WaitFollows
<1>4. ASSUME NEW o \in stored, o.chat = k.chat, o.dir = "outgoing" PROVE o.at < i.at
  <2>1. lastOutgoing[k.chat] # None /\ o.at <= lastOutgoing[k.chat]
    BY <1>1, <1>4 DEF MsgInv, LastKnown, Outgoing
  <2>2. i.at > lastOutgoing[k.chat]
    BY <1>1, <1>2, <1>3, <2>1 DEF MsgInv, WaitFollows
  <2>3. i.at \in Nat /\ o.at \in Nat /\ lastOutgoing[k.chat] \in Nat
    BY <1>1, <2>1, Limits DEF TypeOK, Message, Incoming
  <2> QED BY <2>1, <2>2, <2>3
<1> QED BY <1>3, <1>4 DEF Incoming

-----------------------------------------------------------------------------
(* Without lapses of the monitoring                                         *)

OpenInv == enabled /\ access

\* Incoming messages that came after the last outgoing one.
After(c) == {i.at : i \in {n \in Incoming(c) : lastOutgoing[c] # None => n.at > lastOutgoing[c]}}

\* The last outgoing message is one that is stored, and a wait begins no later
\* than any message that follows it.
LastIs  == \A c \in Chats : lastOutgoing[c] # None => \E o \in Outgoing(c) : o.at = lastOutgoing[c]
FirstIs == \A c \in Chats : \A t \in After(c) : pendingSince[c] # None /\ pendingSince[c] <= t

FirstInv == LastIs /\ FirstIs

LEMMA StaysOpen ==
  ASSUME ~MayLapse, OpenInv, [Next]_vars
  PROVE  OpenInv'
<1>1. ASSUME NEW m \in sent, Webhook(m) PROVE OpenInv'
  <2>1. CASE Ignore(m)  BY <2>1 DEF Ignore, OpenInv
  <2>2. CASE HearIncoming(m)  BY <2>2 DEF HearIncoming, Hear, OpenInv
  <2>3. CASE HearOutgoing(m)  BY <2>3 DEF HearOutgoing, Hear, OpenInv
  <2> QED BY <1>1, <2>1, <2>2, <2>3 DEF Webhook
<1>2. ASSUME NEW c \in Chats, Check(c) PROVE OpenInv'
  BY <1>2 DEF Check, CheckForgets, CheckPostpones, CheckRecords, OpenInv
<1>3. CASE ExecStep
  BY <1>3, ExecChanges DEF OpenInv
<1>4. CASE Around
  BY <1>4 DEF Around, Tick, Write, Disable, Enable, AccessChanges, OpenInv
<1>5. CASE UNCHANGED vars
  BY <1>5 DEF vars, OpenInv
<1> QED BY <1>1, <1>2, <1>3, <1>4, <1>5, NextParts

LEMMA OpenElsewhere ==
  ASSUME TypeOK, ~MayLapse, OpenInv, [Next]_vars, ~\E m \in sent : Webhook(m)
  PROVE  pendingSince' = pendingSince /\ cycle' = cycle
<1>1. ASSUME NEW c \in Chats, Check(c) PROVE pendingSince' = pendingSince /\ cycle' = cycle
  BY <1>1 DEF Check, CheckForgets, CheckPostpones, CheckRecords, OpenInv, CanRun
<1>2. CASE ExecStep
  BY <1>2, ExecChanges DEF waitVars
<1>3. CASE Around
  BY <1>3 DEF Around, Tick, Write, Disable, Enable, AccessChanges, waitVars
<1>4. CASE UNCHANGED vars
  BY <1>4 DEF vars, waitVars
<1> QED BY <1>1, <1>2, <1>3, <1>4, NextParts

LEMMA NextFirst ==
  ASSUME TypeOK, ~MayLapse, OpenInv, MsgInv, FirstInv, [Next]_vars
  PROVE  FirstInv'
<1>1. CASE ~\E m \in sent : Webhook(m)
  <2>1. stored' = stored /\ lastOutgoing' = lastOutgoing /\ pendingSince' = pendingSince
    BY <1>1, ElsewhereKept, OpenElsewhere
  <2> QED BY <2>1 DEF FirstInv, LastIs, FirstIs, After, Incoming, Outgoing
<1>2. ASSUME NEW m \in sent, Webhook(m) PROVE FirstInv'
  <2> DEFINE d == m.chat
  <2>1. /\ d \in Chats /\ m.at \in Nat
        /\ \A c \in Chats : c # d =>
             pendingSince'[c] = pendingSince[c] /\ lastOutgoing'[c] = lastOutgoing[c]
    BY <1>2, HearBegins, Limits
  <2>2. /\ \A c \in Chats : lastOutgoing[c] # None => lastOutgoing[c] \in Nat
        /\ \A c \in Chats : pendingSince[c] # None => pendingSince[c] \in Nat
        /\ \A n \in stored : n.at \in Nat
    BY Limits DEF TypeOK, Message
  <2>3. ASSUME stored' = stored \cup {m}, NEW c \in Chats, c # d
        PROVE  Incoming(c)' = Incoming(c) /\ Outgoing(c)' = Outgoing(c) /\ After(c)' = After(c)
    <3>1. Incoming(c)' = Incoming(c) /\ Outgoing(c)' = Outgoing(c)
      BY <2>3 DEF Incoming, Outgoing
    <3> QED BY <2>1, <2>3, <3>1 DEF After
  <2>4. CASE UNCHANGED <<stored, lastOutgoing, pendingSince>>
    BY <2>4 DEF FirstInv, LastIs, FirstIs, After, Incoming, Outgoing
  <2>5. ASSUME stored' = stored \cup {m},
               lastOutgoing'[d] # None => \E o \in Outgoing(d)' : o.at = lastOutgoing'[d],
               \A t \in After(d)' : pendingSince'[d] # None /\ pendingSince'[d] <= t
        PROVE  FirstInv'
    <3>1. LastIs'
      BY <2>1, <2>3, <2>5 DEF FirstInv, LastIs
    <3>2. FirstIs'
      BY <2>1, <2>3, <2>5 DEF FirstInv, FirstIs
    <3> QED BY <3>1, <3>2 DEF FirstInv
  <2>6. /\ lastOutgoing[d] # None => \E o \in Outgoing(d) : o.at = lastOutgoing[d]
        /\ \A t \in After(d) : t \in Nat /\ pendingSince[d] # None /\ pendingSince[d] <= t
    <3>1. \A t \in After(d) : t \in Nat
      BY <2>2 DEF After, Incoming
    <3> QED BY <2>1, <3>1 DEF FirstInv, LastIs, FirstIs
  <2>7. CASE /\ stored' = stored \cup {m} /\ m.dir = "incoming" /\ lastOutgoing' = lastOutgoing
             /\ pendingSince'[d] =
                  (IF Newer(m) /\ (Waiting(d) => m.at < pendingSince[d])
                   THEN m.at ELSE pendingSince[d])
    <3>1. Incoming(d)' = Incoming(d) \cup {m} /\ Outgoing(d)' = Outgoing(d)
      BY <2>7 DEF Incoming, Outgoing
    <3>2. ASSUME NEW t \in After(d)' PROVE pendingSince'[d] # None /\ pendingSince'[d] <= t
      <4>1. t \in After(d) \/ (t = m.at /\ Newer(m))
        BY <2>7, <3>1, <3>2 DEF After, Newer
      <4>2. m.at # None
        BY <2>1, Limits
      <4> QED BY <2>1, <2>2, <2>6, <2>7, <4>1, <4>2 DEF Waiting
    <3> QED BY <2>5, <2>6, <2>7, <3>1, <3>2
  <2>8. ASSUME stored' = stored \cup {m}, m.dir = "outgoing"
        PROVE  Incoming(d)' = Incoming(d) /\ Outgoing(d)' = Outgoing(d) \cup {m}
    BY <2>8 DEF Incoming, Outgoing
  <2>9. CASE /\ stored' = stored \cup {m} /\ m.dir = "outgoing"
             /\ ~Newer(m) /\ UNCHANGED <<lastOutgoing, pendingSince>>
    <3>1. After(d)' = After(d)
      BY <2>8, <2>9 DEF After
    <3> QED BY <2>5, <2>6, <2>8, <2>9, <3>1
  <2>10. CASE /\ stored' = stored \cup {m} /\ m.dir = "outgoing"
              /\ Newer(m) /\ lastOutgoing'[d] = m.at
              /\ IF Waiting(d) /\ m.at >= pendingSince[d]
                 THEN \/ /\ pendingSince'[d] \in IncomingAfter(d, m.at)
                         /\ \A u \in IncomingAfter(d, m.at) : pendingSince'[d] <= u
                      \/ IncomingAfter(d, m.at) = {} /\ pendingSince'[d] = None
                 ELSE UNCHANGED pendingSince
    <3>1. Incoming(d)' = Incoming(d) /\ m \in Outgoing(d)'
      BY <2>8, <2>10
    <3>2. m.at # None
      BY <2>1, Limits
    <3>3. After(d)' = IncomingAfter(d, m.at)
      BY <2>10, <3>1, <3>2 DEF After, IncomingAfter, Incoming
    <3>4. IncomingAfter(d, m.at) \subseteq After(d)
      <4>1. lastOutgoing[d] # None => m.at > lastOutgoing[d]
        BY <2>10 DEF Newer
      <4> QED BY <2>1, <2>2, <4>1 DEF After, IncomingAfter, Incoming
    <3>5. \A u \in IncomingAfter(d, m.at) : u \in Nat
      BY <2>2 DEF IncomingAfter
    <3>6. ASSUME NEW t \in After(d)' PROVE pendingSince'[d] # None /\ pendingSince'[d] <= t
      <4>1. CASE Waiting(d) /\ m.at >= pendingSince[d]
        BY <2>10, <3>3, <3>5, <3>6, <4>1, Limits
      <4>2. CASE ~(Waiting(d) /\ m.at >= pendingSince[d])
        BY <2>6, <2>10, <3>3, <3>4, <3>6, <4>2
      <4> QED BY <4>1, <4>2
    <3> QED BY <2>5, <2>10, <3>1, <3>6
  <2> QED BY <1>2, <2>4, <2>7, <2>9, <2>10, HearBegins
<1> QED BY <1>1, <1>2

\* Then a wait begins with the first unanswered message.
LEMMA FirstMeans ==
  ASSUME TypeOK, MsgInv, FirstInv
  PROVE  PendingIsFirstUnanswered
<1> SUFFICES ASSUME NEW c \in Chats
             PROVE  pendingSince[c] = IF Unanswered(c) = {} THEN None ELSE Earliest(Unanswered(c))
  BY DEF PendingIsFirstUnanswered
<1>1. /\ lastOutgoing[c] # None => lastOutgoing[c] \in Nat
      /\ \A n \in stored : n.at \in Nat
      /\ pendingSince[c] # None => pendingSince[c] \in Nat
  BY Limits DEF TypeOK, Message
<1>2. Unanswered(c) = After(c)
  <2>1. \A i \in Incoming(c) :
          (\A o \in Outgoing(c) : o.at < i.at) <=> (lastOutgoing[c] # None => i.at > lastOutgoing[c])
    <3> SUFFICES ASSUME NEW i \in Incoming(c)
                 PROVE  (\A o \in Outgoing(c) : o.at < i.at)
                          <=> (lastOutgoing[c] # None => i.at > lastOutgoing[c])
      OBVIOUS
    <3>1. i.at \in Nat /\ \A o \in Outgoing(c) : o.at \in Nat
      BY <1>1 DEF Incoming, Outgoing
    <3>2. \A o \in Outgoing(c) : lastOutgoing[c] # None /\ o.at <= lastOutgoing[c]
      BY DEF MsgInv, LastKnown
    <3>3. lastOutgoing[c] # None => \E o \in Outgoing(c) : o.at = lastOutgoing[c]
      BY DEF FirstInv, LastIs
    <3> QED BY <1>1, <3>1, <3>2, <3>3
  <2> QED BY <2>1 DEF Unanswered, After, Incoming, Outgoing
<1>3. CASE Unanswered(c) = {}
  <2>1. pendingSince[c] # None => pendingSince[c] \in After(c)
    BY DEF MsgInv, WaitFollows, Waiting, After
  <2> QED BY <1>2, <1>3, <2>1
<1>4. CASE Unanswered(c) # {}
  <2>1. Unanswered(c) \in SUBSET Nat
    BY <1>1 DEF Unanswered
  <2>2. /\ Earliest(Unanswered(c)) \in Unanswered(c)
        /\ \A u \in Unanswered(c) : Earliest(Unanswered(c)) <= u
    BY <1>4, <2>1, EarliestIs
  <2>3. pendingSince[c] # None /\ \A t \in Unanswered(c) : pendingSince[c] <= t
    BY <1>2, <1>4 DEF FirstInv, FirstIs
  <2>4. pendingSince[c] \in Unanswered(c)
    BY <1>2, <2>3 DEF MsgInv, WaitFollows, Waiting, After
  <2> HIDE DEF PendingIsFirstUnanswered
  <2> QED BY <1>1, <1>4, <2>1, <2>2, <2>3, <2>4
<1> QED BY <1>3, <1>4

\* A wait that has ended is reported, also while its action is being carried out:
\* the executor may be about to succeed.
Reported ==
  \A o \in DOMAIN actions :
    /\ o.event = "overdue" /\ actions[o].status \in {"processing", "succeeded"}
    /\ o.cycle < cycle[o.chat] \/ ~Waiting(o.chat)
    => \E k \in DOMAIN actions : k.event = "replied" /\ k.chat = o.chat /\ k.cycle = o.cycle

\* A message ends a wait only as a reply to it.
LEMMA HearEnds ==
  ASSUME TypeOK, NEW m \in sent, Webhook(m), NEW c \in Chats, Waiting(c),
         ~Replied(m.chat, m.at) \/ c # m.chat
  PROVE  Waiting(c)' /\ cycle'[c] = cycle[c]
<1>1. m.chat \in Chats /\ m.at \in 0..MaxTime /\ m.at # None
  BY Limits DEF TypeOK, Message
<1>2. pendingSince \in [Chats -> Times] /\ cycle \in [Chats -> Nat]
  BY DEF TypeOK, Times
<1>3. CASE UNCHANGED waitVars
  BY <1>3 DEF waitVars, Waiting
<1>4. CASE HearIncoming(m)
  BY <1>1, <1>2, <1>3, <1>4 DEF HearIncoming, StartWaiting, Waiting
<1>5. CASE Replied(m.chat, m.at)
  <2>1. c # m.chat
    BY <1>5
  <2>2. (\E t \in 0..MaxTime : StartWaiting(m.chat, t)) \/ StopWaiting(m.chat)
    BY <1>1, <1>5, RepliedWait
  <2> QED BY <1>1, <1>2, <2>1, <2>2 DEF StartWaiting, StopWaiting, Waiting
<1>6. Ignore(m) => UNCHANGED waitVars
  BY DEF Ignore
<1>7. HearOutgoing(m) => UNCHANGED waitVars \/ Replied(m.chat, m.at)
  BY DEF HearOutgoing
<1> QED BY <1>3, <1>4, <1>5, <1>6, <1>7 DEF Webhook

LEMMA NextReported ==
  ASSUME TypeOK, TypeOK', ~MayLapse, RunReply, OpenInv, ExecInv, KeysFit, Reported, [Next]_vars
  PROVE  Reported'
<1>1. Advances
  BY NextParts, QuietChanges, ExecStepExec DEF Quiet
<1> SUFFICES ASSUME NEW o \in DOMAIN actions', o.event = "overdue",
                    actions'[o].status \in {"processing", "succeeded"},
                    o.cycle < cycle'[o.chat] \/ ~Waiting(o.chat)'
             PROVE  \E k \in DOMAIN actions' :
                      k.event = "replied" /\ k.chat = o.chat /\ k.cycle = o.cycle
  BY DEF Reported
<1>2. /\ o \in DOMAIN actions /\ o.chat \in Chats /\ o.cycle \in Nat /\ cycle[o.chat] \in Nat
      /\ o.cycle <= cycle[o.chat]
  <2>1. o \in DOMAIN actions
    BY <1>1 DEF Advances
  <2> QED BY <2>1 DEF TypeOK, Key, KeysFit
\* It did not begin in this step: its wait would last.
<1>3. actions[o].status \in {"processing", "succeeded"}
  <2>1. CASE actions[o].status = "pending"
    <3>1. Begun(o)
      BY <1>1, <1>2, <2>1 DEF Advances, Follows, Begun
    <3>2. Waiting(o.chat) /\ cycle[o.chat] = o.cycle /\ cycle' = cycle /\ pendingSince' = pendingSince
      BY <1>2, <3>1, BegunCurrent DEF waitVars
    <3> QED BY <1>2, <3>2 DEF Waiting
  <2>2. CASE actions[o].status # "pending"
    BY <1>1, <1>2, <2>2 DEF Advances, Follows
  <2> QED BY <2>1, <2>2
<1>4. CASE o.cycle < cycle[o.chat] \/ ~Waiting(o.chat)
  <2>1. \E k \in DOMAIN actions : k.event = "replied" /\ k.chat = o.chat /\ k.cycle = o.cycle
    BY <1>2, <1>3, <1>4 DEF Reported
  <2> QED BY <1>1, <2>1 DEF Advances
<1>5. CASE Waiting(o.chat) /\ ~(o.cycle < cycle[o.chat])
  <2>1. o.cycle = cycle[o.chat]
    BY <1>2, <1>5
  <2>2. PICK m \in sent : Webhook(m)
    <3>1. CASE ~\E m \in sent : Webhook(m)
      <4>1. pendingSince' = pendingSince /\ cycle' = cycle
        BY <3>1, OpenElsewhere
      <4> QED BY <1>2, <1>5, <2>1, <4>1 DEF Waiting
    <3> QED BY <3>1
  <2>3. Replied(m.chat, m.at) /\ o.chat = m.chat
    <3>1. CASE ~Replied(m.chat, m.at) \/ o.chat # m.chat
      <4>1. Waiting(o.chat)' /\ cycle'[o.chat] = cycle[o.chat]
        BY <1>2, <1>5, <2>2, <3>1, HearEnds
      <4> QED BY <1>2, <2>1, <4>1
    <3> QED BY <3>1
  <2>4. o \in Current(m.chat, "overdue", {"processing", "succeeded"})
    BY <1>2, <1>3, <2>1, <2>3 DEF Current
  <2>5. m.chat \in Chats /\ m.at \in 0..MaxTime /\ attempts[m.chat] \in Nat
    BY <1>2, <2>2, <2>3, Limits DEF TypeOK, Message
  <2> DEFINE k == ActionKey(m.chat, attempts[m.chat], "replied", "workflow")
  <2>6. k.event = "replied" /\ k.chat = m.chat /\ k.cycle = cycle[m.chat]
    BY <2>5, ActionKeyIs
  <2>7. k \in RepliesFor(m.chat)
    BY <2>4 DEF RepliesFor
  <2>8. DOMAIN actions' = DOMAIN actions \cup RepliesFor(m.chat)
    BY <2>3, <2>5, RepliedActions
  <2> HIDE DEF k
  <2> QED BY <2>1, <2>3, <2>6, <2>7, <2>8
<1> QED BY <1>4, <1>5

-----------------------------------------------------------------------------
(* The results                                                              *)

IInv == TypeOK /\ ExecInv /\ WaitInv /\ ReplyFollowsOverdue /\ MsgInv

LEMMA Initially == Init => IInv
<1> SUFFICES ASSUME Init PROVE IInv
  OBVIOUS
<1>1. /\ now = 0 /\ enabled = TRUE /\ access = TRUE /\ sent = {} /\ heard = {} /\ stored = {}
      /\ DOMAIN actions = {} /\ posts = << >>
      /\ \A c \in Chats : pendingSince[c] = None /\ nextCheck[c] = None /\ lastOutgoing[c] = None
      /\ \A e \in Executors : stage[e] = "idle"
  BY DEF Init
<1>2. TypeOK
  <2>1. ChatTyped
    BY Limits DEF Init, ChatTyped, Times
  <2>2. WaitTyped
    BY Limits DEF Init, WaitTyped, Times
  <2>3. ExecTyped
    BY DEF Init, ExecTyped
  <2> QED BY <1>1, <2>1, <2>2, <2>3, TypeParts DEF Typed
<1>3. ExecInv
  BY <1>1 DEF ExecInv, Working, AtMostOnePost
<1>4. WaitInv /\ ReplyFollowsOverdue
  BY <1>1 DEF WaitInv, KeysFit, NextIsDue, NextIsSpaced, OverdueIsDue, AttemptsSpaced,
              ReplyFollowsOverdue, Waiting
<1>5. MsgInv
  BY <1>1 DEF MsgInv, LastKnown, WaitFollows, Outgoing, Waiting
<1> QED BY <1>2, <1>3, <1>4, <1>5 DEF IInv

LEMMA NextInv == IInv /\ [Next]_vars => IInv'
<1> SUFFICES ASSUME IInv, [Next]_vars PROVE IInv'
  OBVIOUS
<1>1. TypeOK'
  BY NextTyped DEF IInv, ExecInv
<1>2. ExecInv'
  BY NextParts, QuietExec, ExecStepExec DEF IInv, Quiet
<1>3. WaitInv'
  BY <1>1, NextWait DEF IInv
<1>4. ReplyFollowsOverdue'
  BY NextReply DEF IInv
<1>5. MsgInv'
  BY <1>1, NextMsg DEF IInv
<1> QED BY <1>1, <1>2, <1>3, <1>4, <1>5 DEF IInv

\* The invariant holds in every reachable state.
THEOREM InvHolds == Spec => []IInv
<1> QED BY Initially, NextInv, PTL DEF Spec

\* Every reachable state of response control is well typed.
THEOREM TypeCorrect == Spec => []TypeOK
<1>1. IInv => TypeOK
  BY DEF IInv
<1> QED BY <1>1, InvHolds, PTL

\* No action is carried out twice, whatever executors are killed, however many
\* of them run and whichever answers are lost (ActionExecutor::deliver).
THEOREM PostedOnce == Spec => []AtMostOnePost
<1>1. IInv => AtMostOnePost
  BY DEF IInv, ExecInv
<1> QED BY <1>1, InvHolds, PTL

\* The n-th overdue action is recorded n intervals after the beginning of its
\* wait at the earliest, and attempts lie an interval apart, for every calendar
\* of working hours (Monitor::check, Monitor::ingest).
THEOREM ActionsAreDue == Spec => []OverdueIsDue
<1>1. IInv => OverdueIsDue
  BY DEF IInv, WaitInv
<1> QED BY <1>1, InvHolds, PTL

\* Two attempts of one wait are an interval apart (Monitor::check).
THEOREM ActionsAreSpaced == Spec => []AttemptsSpaced
<1>1. IInv => AttemptsSpaced
  BY DEF IInv, WaitInv
<1> QED BY <1>1, InvHolds, PTL

\* The reply workflow is recorded only for a wait in which an overdue action
\* began (Monitor::ingest).
THEOREM RepliesFollow == Spec => []ReplyFollowsOverdue
<1>1. IInv => ReplyFollowsOverdue
  BY DEF IInv
<1> QED BY <1>1, InvHolds, PTL

\* No overdue action begins once a reply is stored, in whatever order webhooks
\* and executors come (ActionExecutor::deliver, Monitor::ingest).
THEOREM NothingAfterReply == Spec => NoOverdueOnceAnswered
<1> DEFINE Unanswering ==
      \A k \in DOMAIN actions :
        k.event = "overdue" /\ Begun(k) =>
          \E i \in stored : /\ i.chat = k.chat /\ i.dir = "incoming"
                           /\ \A o \in stored : o.chat = k.chat /\ o.dir = "outgoing" => o.at < i.at
<1>1. IInv /\ [Next]_vars => [Unanswering]_vars
  BY BegunWaits DEF IInv
<1> QED BY <1>1, InvHolds, PTL DEF Spec, NoOverdueOnceAnswered

\* While nothing lapses, a wait begins at the first unanswered message of those
\* that arrived, however late and in whatever order (Monitor::ingest).
THEOREM WaitBeginsFirst ==
  ASSUME ~MayLapse
  PROVE  Spec => []PendingIsFirstUnanswered
<1>1. Init => OpenInv /\ FirstInv
  BY DEF Init, OpenInv, FirstInv, LastIs, FirstIs, After, Incoming
<1>2. IInv /\ OpenInv /\ FirstInv /\ [Next]_vars => OpenInv' /\ FirstInv'
  BY StaysOpen, NextFirst DEF IInv
<1>3. IInv /\ FirstInv => PendingIsFirstUnanswered
  BY FirstMeans DEF IInv
<1> QED BY <1>1, <1>2, <1>3, InvHolds, PTL DEF Spec

\* While nothing lapses, and with the option set, every reply to a wait in which
\* an overdue action succeeded is reported, whichever of the reply and the
\* executor came first (Monitor::ingest, ActionExecutor::deliver).
THEOREM RepliesAreReported ==
  ASSUME ~MayLapse, RunReply
  PROVE  Spec => []ReplyIsReported
<1>1. Init => OpenInv /\ Reported
  BY DEF Init, OpenInv, Reported
<1>2. IInv /\ IInv' /\ OpenInv /\ Reported /\ [Next]_vars => OpenInv' /\ Reported'
  BY StaysOpen, NextReported DEF IInv, WaitInv
<1>3. Reported => ReplyIsReported
  BY DEF Reported, ReplyIsReported
<1> QED BY <1>1, <1>2, <1>3, InvHolds, PTL DEF Spec
=============================================================================
