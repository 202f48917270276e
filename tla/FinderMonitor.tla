---------------------------- MODULE FinderMonitor ----------------------------
(***************************************************************************)
(* Response control ("Finder").  Webhooks report the messages of amoCRM    *)
(* chats, late, twice and in any order; Monitor::ingest keeps for every    *)
(* conversation since when the client waits; finder:check records overdue  *)
(* actions for clients who wait too long and ActionExecutor carries the    *)
(* recorded actions out, once, or not at all when the reply came first.    *)
(*                                                                         *)
(* One setting.  Every transaction below locks its row, so each is one     *)
(* step.  A webhook's events go through ingest's loop one after another in *)
(* one transaction: here one event is one step, in any order.  Messages of *)
(* one chat, direction and second are one message.  One tick is the unit   *)
(* the interval is counted in.                                             *)
(***************************************************************************)
EXTENDS Naturals, Sequences, FiniteSets

CONSTANTS
  Chats,
  Kinds,          \* what an overdue client triggers: "task", "workflow"
  RunReply,       \* the run_reply_workflow option
  MaxAttempts,    \* the max_attempts option
  Interval,       \* Setting::intervalSeconds
  Deadline(_, _), \* WorkingTime::deadline(from, seconds)
  Executors,      \* processes that run finder:check (the schedule's, by hand)
  MayLapse,       \* the widget may be switched off, its access may lapse
  MaxTime,        \* bound of the clock
  MaxMessages,    \* bound of the chats' messages
  None            \* SQL NULL

ASSUME ConstantsAssumption ==
  /\ Kinds \subseteq {"task", "workflow"}
  /\ RunReply \in BOOLEAN /\ MayLapse \in BOOLEAN
  /\ MaxAttempts \in Nat \ {0} /\ Interval \in Nat \ {0}
  /\ MaxTime \in Nat /\ MaxMessages \in Nat
  /\ None \notin Nat

\* Working time passes no faster than the clock.
ASSUME DeadlineAssumption ==
  \A t \in 0..MaxTime, n \in {0, Interval} : Deadline(t, n) \in Nat /\ Deadline(t, n) >= t + n

VARIABLES
  now,          \* the clock
  enabled,      \* the widget's switch
  access,       \* subscription, user and account are in order
  sent,         \* messages of the chats
  heard,        \* messages whose webhook was answered
  stored,       \* finder_messages
  lastOutgoing, \* [Chats] conversations.last_outgoing_at
  pendingSince, \* [Chats] conversations.pending_since
  nextCheck,    \* [Chats] conversations.next_check_at
  cycle,        \* [Chats] conversations.cycle
  attempts,     \* [Chats] conversations.attempts
  actions,      \* finder_actions: its unique key -> status and times
  stage,        \* [Executors] idle, perform, succeed or fail
  task,         \* [Executors] key of the action it carries out
  posts         \* actions carried out in amoCRM, in their order

chatVars == <<sent, heard, stored>>
waitVars == <<pendingSince, nextCheck, cycle, attempts>>
execVars == <<stage, task, posts>>
vars == <<now, enabled, access, chatVars, lastOutgoing, waitVars, actions, execVars>>

Message == [chat : Chats, dir : {"incoming", "outgoing"}, at : 0..MaxTime]
Key == [chat : Chats, cycle : Nat, attempt : Nat,
        event : {"overdue", "replied"}, kind : {"task", "workflow"}]
Status == {"pending", "processing", "succeeded", "failed", "cancelled"}

\* FinderAccess::canRun
CanRun == enabled /\ access

Earliest(S) == CHOOSE t \in S : \A u \in S : t <= u

\* When the stored incoming messages of c after t were sent.
IncomingAfter(c, t) ==
  {m.at : m \in {n \in stored : n.chat = c /\ n.dir = "incoming" /\ n.at > t}}

Init ==
  /\ now = 0 /\ enabled = TRUE /\ access = TRUE
  /\ sent = {} /\ heard = {} /\ stored = {}
  /\ lastOutgoing = [c \in Chats |-> None]
  /\ pendingSince = [c \in Chats |-> None]
  /\ nextCheck = [c \in Chats |-> None]
  /\ cycle = [c \in Chats |-> 0]
  /\ attempts = [c \in Chats |-> 0]
  /\ actions = << >>
  /\ stage = [e \in Executors |-> "idle"]
  /\ task = [e \in Executors |-> None]
  /\ posts = << >>

-----------------------------------------------------------------------------
(* The chats and the clock                                                 *)

Tick ==
  /\ now < MaxTime
  /\ now' = now + 1
  /\ UNCHANGED <<enabled, access, chatVars, lastOutgoing, waitVars, actions, execVars>>

\* The client or the manager writes.
Write(c) ==
  /\ Cardinality(sent) < MaxMessages
  /\ \E dir \in {"incoming", "outgoing"} :
       sent' = sent \cup {[chat |-> c, dir |-> dir, at |-> now]}
  /\ UNCHANGED <<now, enabled, access, heard, stored, lastOutgoing, waitVars, actions, execVars>>

-----------------------------------------------------------------------------
(* Monitor::ingest                                                         *)

\* The event is a repetition, or nothing is monitored now.
Ignore(m) ==
  /\ ~CanRun \/ m \in stored
  /\ heard' = heard \cup {m}
  /\ UNCHANGED <<now, enabled, access, sent, stored, lastOutgoing, waitVars, actions, execVars>>

Hear(m, dir) ==
  /\ CanRun /\ m \notin stored /\ m.dir = dir
  /\ heard' = heard \cup {m}
  /\ stored' = stored \cup {m}
  /\ UNCHANGED <<now, enabled, access, sent, execVars>>

Newer(m) == lastOutgoing[m.chat] # None => m.at > lastOutgoing[m.chat]
Waiting(c) == pendingSince[c] # None

StartWaiting(c, t) ==
  /\ cycle' = [cycle EXCEPT ![c] = @ + 1]
  /\ attempts' = [attempts EXCEPT ![c] = 0]
  /\ pendingSince' = [pendingSince EXCEPT ![c] = t]
  /\ nextCheck' = [nextCheck EXCEPT ![c] = Deadline(t, Interval)]

\* Fault: an earlier beginning resets the next check even after an attempt.
HearIncomingResets(m) ==
  /\ Hear(m, "incoming")
  /\ \/ /\ Newer(m) /\ ~Waiting(m.chat)
        /\ StartWaiting(m.chat, m.at)
     \/ /\ Newer(m) /\ Waiting(m.chat) /\ m.at < pendingSince[m.chat]
        /\ pendingSince' = [pendingSince EXCEPT ![m.chat] = m.at]
        /\ nextCheck' = [nextCheck EXCEPT ![m.chat] = Deadline(m.at, Interval)]
        /\ UNCHANGED <<cycle, attempts>>
     \/ /\ ~Newer(m) \/ (Waiting(m.chat) /\ m.at >= pendingSince[m.chat])
        /\ UNCHANGED waitVars
  /\ UNCHANGED <<lastOutgoing, actions>>

\* An incoming message starts the wait, or shows that it began earlier.
HearIncoming(m) ==
  /\ Hear(m, "incoming")
  /\ \/ /\ Newer(m) /\ ~Waiting(m.chat)
        /\ StartWaiting(m.chat, m.at)
     \/ /\ Newer(m) /\ Waiting(m.chat) /\ m.at < pendingSince[m.chat]
        /\ pendingSince' = [pendingSince EXCEPT ![m.chat] = m.at]
        /\ nextCheck' = [nextCheck EXCEPT ![m.chat] =
                           IF attempts[m.chat] = 0 THEN Deadline(m.at, Interval) ELSE @]
        /\ UNCHANGED <<cycle, attempts>>
     \/ /\ ~Newer(m) \/ (Waiting(m.chat) /\ m.at >= pendingSince[m.chat])
        /\ UNCHANGED waitVars
  /\ UNCHANGED <<lastOutgoing, actions>>

\* Actions of the cycle that c is in.
Current(c, event, statuses) ==
  {k \in DOMAIN actions : /\ k.chat = c /\ k.cycle = cycle[c] /\ k.event = event
                          /\ actions[k].status \in statuses}

WithStatus(keys, status) ==
  [k \in DOMAIN actions |->
     IF k \in keys THEN [actions[k] EXCEPT !.status = status] ELSE actions[k]]

\* Monitor::recordActions (firstOrCreate): keys that are not there are added.
Recorded(acts, keys) ==
  [k \in DOMAIN acts \cup keys |->
     IF k \in DOMAIN acts THEN acts[k]
     ELSE [status |-> "pending", at |-> now, since |-> pendingSince[k.chat]]]

ActionKey(c, attempt, event, kind) ==
  [chat |-> c, cycle |-> cycle[c], attempt |-> attempt, event |-> event, kind |-> kind]

StopWaiting(c) ==
  /\ pendingSince' = [pendingSince EXCEPT ![c] = None]
  /\ nextCheck' = [nextCheck EXCEPT ![c] = None]
  /\ UNCHANGED <<cycle, attempts>>

\* Fault: a later message of the client is not looked for.
RepliedForGood(c, at) ==
  /\ actions' = Recorded(WithStatus(Current(c, "overdue", {"pending"}), "cancelled"),
                  IF RunReply /\ Current(c, "overdue", {"processing", "succeeded"}) # {}
                  THEN {ActionKey(c, attempts[c], "replied", "workflow")} ELSE {})
  /\ StopWaiting(c)

\* Fault: only an action that has come to its end counts as begun.
RepliedToFinished(c, at) ==
  /\ actions' = Recorded(WithStatus(Current(c, "overdue", {"pending"}), "cancelled"),
                  IF RunReply /\ Current(c, "overdue", {"succeeded"}) # {}
                  THEN {ActionKey(c, attempts[c], "replied", "workflow")} ELSE {})
  /\ IF IncomingAfter(c, at) # {}
     THEN StartWaiting(c, Earliest(IncomingAfter(c, at)))
     ELSE StopWaiting(c)

\* Fault: any recorded action counts as begun, a cancelled one too.
RepliedToAny(c, at) ==
  /\ actions' = Recorded(WithStatus(Current(c, "overdue", {"pending"}), "cancelled"),
                  IF RunReply /\ Current(c, "overdue", Status) # {}
                  THEN {ActionKey(c, attempts[c], "replied", "workflow")} ELSE {})
  /\ IF IncomingAfter(c, at) # {}
     THEN StartWaiting(c, Earliest(IncomingAfter(c, at)))
     ELSE StopWaiting(c)

\* A reply ends the wait: what was not begun is cancelled, the reply workflow
\* is recorded if something was begun, and a client who wrote again after the
\* reply waits from then on.
Replied(c, at) ==
  /\ actions' = Recorded(WithStatus(Current(c, "overdue", {"pending"}), "cancelled"),
                  IF RunReply /\ Current(c, "overdue", {"processing", "succeeded"}) # {}
                  THEN {ActionKey(c, attempts[c], "replied", "workflow")} ELSE {})
  /\ IF IncomingAfter(c, at) # {}
     THEN StartWaiting(c, Earliest(IncomingAfter(c, at)))
     ELSE StopWaiting(c)

\* Fault: a reply in the same second is not a reply.
HearOutgoingStrict(m) ==
  /\ Hear(m, "outgoing")
  /\ \/ /\ ~Newer(m)
        /\ UNCHANGED <<lastOutgoing, waitVars, actions>>
     \/ /\ Newer(m)
        /\ lastOutgoing' = [lastOutgoing EXCEPT ![m.chat] = m.at]
        /\ IF Waiting(m.chat) /\ m.at > pendingSince[m.chat]
           THEN Replied(m.chat, m.at)
           ELSE UNCHANGED <<waitVars, actions>>

HearOutgoing(m) ==
  /\ Hear(m, "outgoing")
  /\ \/ /\ ~Newer(m)
        /\ UNCHANGED <<lastOutgoing, waitVars, actions>>
     \/ /\ Newer(m)
        /\ lastOutgoing' = [lastOutgoing EXCEPT ![m.chat] = m.at]
        /\ IF Waiting(m.chat) /\ m.at >= pendingSince[m.chat]
           THEN Replied(m.chat, m.at)
           ELSE UNCHANGED <<waitVars, actions>>

-----------------------------------------------------------------------------
(* Monitor::check                                                          *)

\* Fault: the next check's time is not compared.
DueAnyTime(c) == Waiting(c) /\ nextCheck[c] # None

Due(c) == Waiting(c) /\ nextCheck[c] # None /\ nextCheck[c] <= now
Opening == Deadline(now, 0)

\* Nothing may run: the wait is forgotten.
CheckForgets(c) ==
  /\ Due(c) /\ ~CanRun
  /\ pendingSince' = [pendingSince EXCEPT ![c] = None]
  /\ nextCheck' = [nextCheck EXCEPT ![c] = None]
  /\ UNCHANGED <<now, enabled, access, chatVars, lastOutgoing, cycle, attempts, actions, execVars>>

\* Fault: outside working hours the check is dropped.
CheckPostponesForGood(c) ==
  /\ Due(c) /\ CanRun /\ Opening > now
  /\ nextCheck' = [nextCheck EXCEPT ![c] = None]
  /\ UNCHANGED <<now, enabled, access, chatVars, lastOutgoing, pendingSince, cycle, attempts, actions, execVars>>

\* Outside working hours: check again at the opening.
CheckPostpones(c) ==
  /\ Due(c) /\ CanRun /\ Opening > now
  /\ nextCheck' = [nextCheck EXCEPT ![c] = Opening]
  /\ UNCHANGED <<now, enabled, access, chatVars, lastOutgoing, pendingSince, cycle, attempts, actions, execVars>>

\* Fault: the attempts are not counted against the limit.
CheckUnlimited(c) ==
  /\ Due(c) /\ CanRun /\ Opening <= now
  /\ attempts' = [attempts EXCEPT ![c] = @ + 1]
  /\ actions' = Recorded(actions, {ActionKey(c, attempts'[c], "overdue", kind) : kind \in Kinds})
  /\ nextCheck' = [nextCheck EXCEPT ![c] = Deadline(now, Interval)]
  /\ UNCHANGED <<now, enabled, access, chatVars, lastOutgoing, pendingSince, cycle, execVars>>

\* The client has waited long enough: record the overdue actions.  (At the
\* limit nextCheck is None already, unless the limit were lowered meanwhile.)
CheckRecords(c) ==
  /\ Due(c) /\ CanRun /\ Opening <= now
  /\ attempts[c] < MaxAttempts
  /\ attempts' = [attempts EXCEPT ![c] = @ + 1]
  /\ actions' = Recorded(actions, {ActionKey(c, attempts'[c], "overdue", kind) : kind \in Kinds})
  /\ nextCheck' = [nextCheck EXCEPT ![c] =
                     IF attempts'[c] < MaxAttempts THEN Deadline(now, Interval) ELSE None]
  /\ UNCHANGED <<now, enabled, access, chatVars, lastOutgoing, pendingSince, cycle, execVars>>

-----------------------------------------------------------------------------
(* ActionExecutor::deliver                                                 *)

\* An action nobody may begin any more.
Obsolete(k) ==
  \/ ~CanRun
  \/ k.event = "overdue" /\ (~Waiting(k.chat) \/ cycle[k.chat] # k.cycle)

Pending(k) == k \in DOMAIN actions /\ actions[k].status = "pending"

Cancel(e, k) ==
  /\ stage[e] = "idle" /\ Pending(k) /\ Obsolete(k)
  /\ actions' = WithStatus({k}, "cancelled")
  /\ UNCHANGED <<now, enabled, access, chatVars, lastOutgoing, waitVars, execVars>>

\* Overdue actions wait for working hours.
Begin(e, k) ==
  /\ stage[e] = "idle" /\ Pending(k) /\ ~Obsolete(k)
  /\ k.event = "overdue" => Opening <= now
  /\ actions' = WithStatus({k}, "processing")
  /\ stage' = [stage EXCEPT ![e] = "perform"]
  /\ task' = [task EXCEPT ![e] = k]
  /\ UNCHANGED <<now, enabled, access, chatVars, lastOutgoing, waitVars, posts>>

\* The task is posted or the workflow started, and the answer may be lost ...
Perform(e) ==
  /\ stage[e] = "perform"
  /\ posts' = Append(posts, task[e])
  /\ \E outcome \in {"succeed", "fail"} : stage' = [stage EXCEPT ![e] = outcome]
  /\ UNCHANGED <<now, enabled, access, chatVars, lastOutgoing, waitVars, actions, task>>

\* ... or a request before it fails.
PerformFails(e) ==
  /\ stage[e] = "perform"
  /\ stage' = [stage EXCEPT ![e] = "fail"]
  /\ UNCHANGED <<now, enabled, access, chatVars, lastOutgoing, waitVars, actions, task, posts>>

Finish(e) ==
  /\ stage[e] \in {"succeed", "fail"}
  /\ actions' = WithStatus({task[e]}, IF stage[e] = "succeed" THEN "succeeded" ELSE "failed")
  /\ stage' = [stage EXCEPT ![e] = "idle"]
  /\ task' = [task EXCEPT ![e] = None]
  /\ UNCHANGED <<now, enabled, access, chatVars, lastOutgoing, waitVars, posts>>

\* The process is killed.
Die(e) ==
  /\ stage[e] # "idle"
  /\ stage' = [stage EXCEPT ![e] = "idle"]
  /\ task' = [task EXCEPT ![e] = None]
  /\ UNCHANGED <<now, enabled, access, chatVars, lastOutgoing, waitVars, actions, posts>>

\* Fault: an interrupted action is queued again.
GiveUpRetries(k) ==
  /\ k \in DOMAIN actions /\ actions[k].status = "processing"
  /\ \A e \in Executors : task[e] # k
  /\ actions' = WithStatus({k}, "pending")
  /\ UNCHANGED <<now, enabled, access, chatVars, lastOutgoing, waitVars, execVars>>

\* Fault: the comparison is turned round, the recent ones are given up.
GiveUpRecent(k) ==
  /\ k \in DOMAIN actions /\ actions[k].status = "processing"
  /\ \E e \in Executors : task[e] = k
  /\ actions' = WithStatus({k}, "failed")
  /\ UNCHANGED <<now, enabled, access, chatVars, lastOutgoing, waitVars, execVars>>

\* finder:check gives an action up that has been processing for an hour: far
\* longer than a live executor takes.
GiveUp(k) ==
  /\ k \in DOMAIN actions /\ actions[k].status = "processing"
  /\ \A e \in Executors : task[e] # k
  /\ actions' = WithStatus({k}, "failed")
  /\ UNCHANGED <<now, enabled, access, chatVars, lastOutgoing, waitVars, execVars>>

-----------------------------------------------------------------------------
(* The switch and the access                                               *)

\* MonitoringState::setEnabled(false) forgets every wait and cancels actions.
Disable ==
  /\ MayLapse
  /\ enabled' = FALSE
  /\ pendingSince' = [c \in Chats |-> None]
  /\ nextCheck' = [c \in Chats |-> None]
  /\ actions' = WithStatus({k \in DOMAIN actions : actions[k].status = "pending"}, "cancelled")
  /\ UNCHANGED <<now, access, chatVars, lastOutgoing, cycle, attempts, execVars>>

Enable ==
  /\ ~enabled /\ access
  /\ enabled' = TRUE
  /\ UNCHANGED <<now, access, chatVars, lastOutgoing, waitVars, actions, execVars>>

\* The subscription ends or the account is unlinked, and comes back.
AccessChanges ==
  /\ MayLapse
  /\ access' = ~access
  /\ UNCHANGED <<now, enabled, chatVars, lastOutgoing, waitVars, actions, execVars>>

Webhook(m) == Ignore(m) \/ HearIncoming(m) \/ HearOutgoing(m)
Check(c) == CheckForgets(c) \/ CheckPostpones(c) \/ CheckRecords(c)
Deliver(e, k) == Cancel(e, k) \/ Begin(e, k)
Carry(e) == Perform(e) \/ PerformFails(e) \/ Finish(e)

Next ==
  \/ Tick
  \/ \E c \in Chats : Write(c) \/ Check(c)
  \/ \E m \in sent : Webhook(m)
  \/ \E e \in Executors : Carry(e) \/ Die(e) \/ \E k \in DOMAIN actions : Deliver(e, k)
  \/ \E k \in DOMAIN actions : GiveUp(k)
  \/ Disable \/ Enable \/ AccessChanges

Spec == Init /\ [][Next]_vars

\* The clock and the minute schedule of finder:check go on; chats, webhooks,
\* crashes and switches owe nothing.
Fairness ==
  /\ WF_vars(Tick)
  /\ \A c \in Chats : WF_vars(Check(c))
  /\ \A e \in Executors : WF_vars(Carry(e))
  /\ WF_vars(\E e \in Executors, k \in DOMAIN actions : Deliver(e, k))
  /\ WF_vars(\E k \in DOMAIN actions : GiveUp(k))

FairSpec == Spec /\ Fairness

-----------------------------------------------------------------------------
(* Properties                                                              *)

TypeOK ==
  /\ now \in 0..MaxTime /\ enabled \in BOOLEAN /\ access \in BOOLEAN
  /\ sent \subseteq Message /\ heard \subseteq Message /\ stored \subseteq heard
  /\ lastOutgoing \in [Chats -> (0..MaxTime) \cup {None}]
  /\ pendingSince \in [Chats -> (0..MaxTime) \cup {None}]
  /\ nextCheck \in [Chats -> Nat \cup {None}]
  /\ cycle \in [Chats -> Nat] /\ attempts \in [Chats -> 0..MaxAttempts]
  /\ DOMAIN actions \subseteq Key
  /\ \A k \in DOMAIN actions :
       actions[k] \in [status : Status, at : 0..MaxTime, since : (0..MaxTime) \cup {None}]
  /\ stage \in [Executors -> {"idle", "perform", "succeed", "fail"}]
  /\ task \in [Executors -> Key \cup {None}]
  /\ posts \in Seq(Key)

\* The client's first message that no later or simultaneous message answers.
Unanswered(c) ==
  {t \in {m.at : m \in {n \in stored : n.chat = c /\ n.dir = "incoming"}} :
     \A m \in stored : m.chat = c /\ m.dir = "outgoing" => m.at < t}

\* However late and in whatever order the webhooks come, the wait starts at
\* the first unanswered message of those that arrived ("the first unanswered
\* incoming message starts the timer").  Without lapses of the monitoring.
PendingIsFirstUnanswered ==
  \A c \in Chats : pendingSince[c] = IF Unanswered(c) = {} THEN None ELSE Earliest(Unanswered(c))

\* The n-th overdue action of a wait is not recorded before n intervals of it
\* have passed, although late webhooks move its beginning and the scheduler
\* may skip minutes.
OverdueIsDue ==
  \A k \in DOMAIN actions :
    k.event = "overdue" => actions[k].at >= actions[k].since + k.attempt * Interval

\* Two overdue attempts of one wait are an interval apart, also after an
\* outage of the scheduler ("one check, then the next interval").
AttemptsSpaced ==
  \A k, l \in DOMAIN actions :
    /\ k.event = "overdue" /\ l.event = "overdue" /\ k.chat = l.chat /\ k.cycle = l.cycle
    /\ k.attempt < l.attempt
    => actions[l].at >= actions[k].at + Interval

\* The reply workflow runs only for a wait in which an overdue action began.
ReplyFollowsOverdue ==
  \A k \in DOMAIN actions : k.event = "replied" =>
    \E o \in DOMAIN actions :
      /\ o.event = "overdue" /\ o.chat = k.chat /\ o.cycle = k.cycle
      /\ actions[o].status \in {"processing", "succeeded", "failed"}

\* A wait in which an overdue action succeeded and which a reply has ended has
\* its reply workflow, whichever of reply and executor came first.
ReplyIsReported ==
  \A o \in DOMAIN actions :
    /\ o.event = "overdue" /\ actions[o].status = "succeeded"
    /\ o.cycle < cycle[o.chat] \/ ~Waiting(o.chat)
    => \E k \in DOMAIN actions : k.event = "replied" /\ k.chat = o.chat /\ k.cycle = o.cycle

\* An action is carried out at most once, whatever crashes or is lost.
AtMostOnePost == \A i, j \in 1..Len(posts) : posts[i] = posts[j] => i = j

Begun(k) == /\ k \in DOMAIN actions /\ actions[k].status = "pending"
            /\ actions'[k].status = "processing"

\* An overdue action begins only while some message of the client's lies behind
\* all stored replies ("a reply that has come cancels the overdue actions that
\* have not begun"). Which wait the action was recorded for it does not ask.
NoOverdueOnceAnswered ==
  [][\A k \in DOMAIN actions :
       k.event = "overdue" /\ Begun(k) =>
         \E i \in stored : /\ i.chat = k.chat /\ i.dir = "incoming"
                          /\ \A o \in stored : o.chat = k.chat /\ o.dir = "outgoing" => o.at < i.at]_vars

\* The same for every reply whose webhook was answered, also while the access
\* had lapsed: "a reply in the same chat stops the repetitions".
ReplyStopsRepeats ==
  [][\A k \in DOMAIN actions :
       k.event = "overdue" /\ Begun(k) =>
         \A o \in heard : o.chat = k.chat /\ o.dir = "outgoing" => o.at < pendingSince[k.chat]]_vars

\* A client who waits is noticed: an overdue attempt is made unless a reply,
\* or the clock's bound, comes first.
WaitIsNoticed ==
  \A c \in Chats : \A n \in 0..MaxTime :
    (pendingSince[c] = n /\ attempts[c] = 0 /\ n + Interval < MaxTime)
      ~> (pendingSince[c] # n \/ attempts[c] > 0)

\* Every recorded action comes to an end, executors' crashes included.
ActionsEnd ==
  \A c \in Chats :
    (\E k \in DOMAIN actions : k.chat = c /\ actions[k].status \in {"pending", "processing"})
      ~> (\A k \in DOMAIN actions : k.chat = c => actions[k].status \notin {"pending", "processing"})
=============================================================================
