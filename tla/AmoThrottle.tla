----------------------------- MODULE AmoThrottle -----------------------------
(***************************************************************************)
(* Admission of requests to one amoCRM account.  Every process, web or     *)
(* queue, asks a Redis script for a slot before each request; the script   *)
(* claims the integration's and the account's slot together or tells how   *)
(* long to sleep.  A 429 is recorded as a pause of the whole account.      *)
(*                                                                         *)
(* A script is one step.  Redis' clock and the callers' monotonic clocks   *)
(* are one clock; between a caller's steps any time may pass.  A tick is   *)
(* the unit the intervals are counted in.  The SDK's own delay before      *)
(* acquire is such a passage of time.                                      *)
(***************************************************************************)
EXTENDS Integers

CONSTANTS
  Callers,         \* processes that send requests to the account
  Integrations,    \* client ids, as throttle keys
  IntegrationOf,   \* the integration of a caller's Account row
  KindOf,          \* "http": AmoCrmHttpTransport, "sdk", "token": token exchange
  Interval,        \* integration_interval_ms
  AccountInterval, \* account_interval_ms
  KeyMargin,       \* what a key's PX exceeds its value by
  Fallback,        \* fallback_cooldown_seconds
  RetryAfters,     \* values of the Retry-After header, 0 when it is absent
  MaxWait,         \* max_wait_seconds
  MaxNow           \* bound of the time at which calls start

ASSUME ConstantsAssumption ==
  /\ IntegrationOf \in [Callers -> Integrations]
  /\ KindOf \in [Callers -> {"http", "sdk", "token"}]
  /\ Interval \in Nat /\ AccountInterval \in Nat /\ KeyMargin \in Nat
  /\ Fallback \in Nat \ {0} /\ RetryAfters \subseteq Nat /\ 0 \in RetryAfters
  /\ MaxWait \in Nat \ {0} /\ MaxNow \in Nat

VARIABLES
  now,             \* the clock
  integrationKey,  \* per integration, the time from which a slot is free
  accountKey,      \* the same for the account
  cooldownKey,     \* the end of the account's pause
  pc,              \* where a caller stands
  attempt,         \* requests of the caller's current call, this one included
  deadline,        \* until when it waits for a slot
  timer,           \* told: the wait it was given; sleeping: when it wakes up
  retryAfter,      \* rejected: the Retry-After it was answered
  lastAdmitted,    \* history: when the integration's last request was admitted
  lastAny,         \* history: when the account's was
  pausedUntil,     \* history: the latest end of a pause ever recorded
  executed         \* history: how often amoCRM carried out the current call

keys == <<integrationKey, accountKey, cooldownKey>>
history == <<lastAdmitted, lastAny, pausedUntil>>
vars == <<now, keys, pc, attempt, deadline, timer, retryAfter, history, executed>>

Stages == {"idle", "asking", "told", "sleeping", "sending", "rejected"}

Key == [value : Nat, expires : Nat]

TypeOK ==
  /\ now \in Nat
  /\ integrationKey \in [Integrations -> Key]
  /\ accountKey \in Key /\ cooldownKey \in Key
  /\ pc \in [Callers -> Stages]
  /\ attempt \in [Callers -> 1..3]
  /\ deadline \in [Callers -> Nat] /\ timer \in [Callers -> Nat]
  /\ retryAfter \in [Callers -> Nat]
  /\ lastAdmitted \in [Integrations -> Int] /\ lastAny \in Int
  /\ pausedUntil \in Nat
  /\ executed \in [Callers -> 0..1]
-----------------------------------------------------------------------------
(* The keys.  SET .. PX: a key is gone when its time is over.              *)

NoKey == [value |-> 0, expires |-> 0]
\* Fault: PX covers the margin only.
UntilShort(t) == [value |-> t, expires |-> now + KeyMargin]
Until(t) == [value |-> t, expires |-> t + KeyMargin]
Get(key) == IF now < key.expires THEN key.value ELSE 0

Busy(c) == {t \in {Get(integrationKey[IntegrationOf[c]]), Get(accountKey),
                   Get(cooldownKey)} : t > now}

Init ==
  /\ now = 0
  /\ integrationKey = [i \in Integrations |-> NoKey]
  /\ accountKey = NoKey /\ cooldownKey = NoKey
  /\ pc = [c \in Callers |-> "idle"]
  /\ attempt = [c \in Callers |-> 1]
  /\ deadline = [c \in Callers |-> 0]
  /\ timer = [c \in Callers |-> 0]
  /\ retryAfter = [c \in Callers |-> 0]
  /\ lastAdmitted = [i \in Integrations |-> -Interval]
  /\ lastAny = -AccountInterval
  /\ pausedUntil = 0
  /\ executed = [c \in Callers |-> 0]

\* The call is over, by a return or an exception.
End(c) ==
  /\ pc' = [pc EXCEPT ![c] = "idle"]
  /\ attempt' = [attempt EXCEPT ![c] = 1]
  /\ deadline' = [deadline EXCEPT ![c] = 0]
  /\ timer' = [timer EXCEPT ![c] = 0]
  /\ retryAfter' = [retryAfter EXCEPT ![c] = 0]

\* acquire begins: the n-th request of the call, with a wait of its own.
Ask(c, n) ==
  /\ pc' = [pc EXCEPT ![c] = "asking"]
  /\ attempt' = [attempt EXCEPT ![c] = n]
  /\ deadline' = [deadline EXCEPT ![c] = now + MaxWait]
  /\ timer' = [timer EXCEPT ![c] = 0]
  /\ retryAfter' = [retryAfter EXCEPT ![c] = 0]

Start(c) ==
  /\ pc[c] = "idle" /\ now < MaxNow
  /\ Ask(c, 1)
  /\ executed' = [executed EXCEPT ![c] = 0]
  /\ UNCHANGED <<now, keys, history>>
-----------------------------------------------------------------------------
(* acquire                                                                 *)

\* The admission script finds the slots free and claims both.
Claim(c) ==
  /\ Busy(c) = {}
  /\ integrationKey' = [integrationKey EXCEPT ![IntegrationOf[c]] = Until(now + Interval)]
  /\ accountKey' = Until(now + AccountInterval)
  /\ UNCHANGED cooldownKey

Admit(c) ==
  /\ pc[c] = "asking"
  /\ Claim(c)
  /\ pc' = [pc EXCEPT ![c] = "sending"]
  /\ lastAdmitted' = [lastAdmitted EXCEPT ![IntegrationOf[c]] = now]
  /\ lastAny' = now
  /\ UNCHANGED <<now, attempt, deadline, timer, retryAfter, pausedUntil, executed>>

\* Redis is unreachable, or its answer is lost after the slots were claimed.
AdmitFails(c) ==
  /\ pc[c] = "asking"
  /\ Claim(c) \/ UNCHANGED keys
  /\ End(c)
  /\ UNCHANGED <<now, history, executed>>

\* The script tells how long the latest of the three keys is still ahead.
Refuse(c) ==
  /\ pc[c] = "asking"
  /\ \E ready \in Busy(c) :
       /\ \A t \in Busy(c) : t <= ready
       /\ timer' = [timer EXCEPT ![c] = ready - now]
  /\ pc' = [pc EXCEPT ![c] = "told"]
  /\ UNCHANGED <<now, keys, attempt, deadline, retryAfter, history, executed>>

\* The wait does not end within what remains until the deadline.
TooLong(c) == now + timer[c] >= deadline[c]

Sleep(c) ==
  /\ pc[c] = "told" /\ ~TooLong(c)
  /\ pc' = [pc EXCEPT ![c] = "sleeping"]
  /\ timer' = [timer EXCEPT ![c] = now + @]
  /\ UNCHANGED <<now, keys, attempt, deadline, retryAfter, history, executed>>

GiveUp(c) ==
  /\ pc[c] = "told" /\ TooLong(c)
  /\ End(c)
  /\ UNCHANGED <<now, keys, history, executed>>

\* Nothing was reserved for the sleeper: it asks again.
Wake(c) ==
  /\ pc[c] = "sleeping" /\ now >= timer[c]
  /\ now < deadline[c]
  /\ pc' = [pc EXCEPT ![c] = "asking"]
  /\ timer' = [timer EXCEPT ![c] = 0]
  /\ UNCHANGED <<now, keys, attempt, deadline, retryAfter, history, executed>>

Oversleep(c) ==
  /\ pc[c] = "sleeping" /\ now >= timer[c]
  /\ now >= deadline[c]
  /\ End(c)
  /\ UNCHANGED <<now, keys, history, executed>>
-----------------------------------------------------------------------------
(* The request and its answer                                              *)

\* Fault: a request without an answer is sent once more.
AnswerRepeats(c) ==
  /\ pc[c] = "sending"
  /\ \E done \in 0..1 : executed' = [executed EXCEPT ![c] = @ + done]
  /\ \/ End(c)
     \/ attempt[c] < 3 /\ Ask(c, attempt[c] + 1)
  /\ UNCHANGED <<now, keys, history>>

\* Any answer but a 429, or none: a lost one, a 502 and a 504 leave open
\* whether the request was carried out.  None of them is repeated.
Answer(c) ==
  /\ pc[c] = "sending"
  /\ \E done \in 0..1 : executed' = [executed EXCEPT ![c] = @ + done]
  /\ End(c)
  /\ UNCHANGED <<now, keys, history>>

\* 429: the request was not carried out.  The SDK does not show the header;
\* a token exchange ends without recording a pause.
Reject(c) ==
  /\ pc[c] = "sending"
  /\ IF KindOf[c] = "token" THEN End(c)
     ELSE /\ pc' = [pc EXCEPT ![c] = "rejected"]
          /\ \E r \in RetryAfters :
               /\ KindOf[c] = "sdk" => r = 0
               /\ retryAfter' = [retryAfter EXCEPT ![c] = r]
          /\ UNCHANGED <<attempt, deadline, timer>>
  /\ UNCHANGED <<now, keys, history, executed>>

Longer(a, b) == IF a >= b THEN a ELSE b

\* fallback * 2^(attempt - 1), the attempts being three at most.
Backoff(n) == CASE n = 1 -> Fallback [] n = 2 -> 2 * Fallback [] OTHER -> 4 * Fallback

Pause(c) == Longer(retryAfter[c], Backoff(attempt[c]))

\* Fault: the script sets the pause without looking at the one that is there.
RecordOver(c) ==
  /\ cooldownKey' = Until(now + Pause(c))
  /\ pausedUntil' = Longer(pausedUntil, now + Pause(c))
  /\ UNCHANGED <<integrationKey, accountKey, lastAdmitted, lastAny>>

\* The cooldown script: a pause is never shortened.
Record(c) ==
  /\ cooldownKey' = Until(Longer(Get(cooldownKey), now + Pause(c)))
  /\ pausedUntil' = Longer(pausedUntil, now + Pause(c))
  /\ UNCHANGED <<integrationKey, accountKey, lastAdmitted, lastAny>>

\* Fault: one attempt too many.
CooldownOnceMore(c) ==
  /\ pc[c] = "rejected"
  /\ Record(c)
  /\ IF attempt[c] <= 3 THEN Ask(c, attempt[c] + 1) ELSE End(c)
  /\ UNCHANGED <<now, executed>>

\* The pause is recorded; the third rejection is the caller's answer.
Cooldown(c) ==
  /\ pc[c] = "rejected"
  /\ Record(c)
  /\ IF attempt[c] < 3 THEN Ask(c, attempt[c] + 1) ELSE End(c)
  /\ UNCHANGED <<now, executed>>

\* Redis is unreachable, or its answer is lost: the call ends.
CooldownFails(c) ==
  /\ pc[c] = "rejected"
  /\ Record(c) \/ UNCHANGED <<keys, history>>
  /\ End(c)
  /\ UNCHANGED <<now, executed>>

\* A caller is killed; after it was admitted, see Answer.
Die(c) ==
  /\ pc[c] \in {"told", "sleeping"}
  /\ End(c)
  /\ UNCHANGED <<now, keys, history, executed>>

\* Past the bound the clock runs on only for those that sleep.
Tick ==
  /\ now < MaxNow \/ \E c \in Callers : pc[c] = "sleeping" /\ now < timer[c]
  /\ now' = now + 1
  /\ UNCHANGED <<keys, pc, attempt, deadline, timer, retryAfter, history, executed>>

\* The bound is reached and every call has ended.
Finished ==
  /\ now >= MaxNow /\ \A c \in Callers : pc[c] = "idle"
  /\ UNCHANGED vars

Acquire(c) == Admit(c) \/ AdmitFails(c) \/ Refuse(c) \/ Sleep(c) \/ GiveUp(c) \/ Wake(c) \/ Oversleep(c)

Send(c) == Start(c) \/ Acquire(c) \/ Answer(c) \/ Reject(c) \/ Cooldown(c) \/ CooldownFails(c) \/ Die(c)

Next == Tick \/ Finished \/ \E c \in Callers : Send(c)

Spec == Init /\ [][Next]_vars
-----------------------------------------------------------------------------
(* Properties                                                              *)

\* A step in which a caller may begin its request.
Admitted(c) == pc[c] # "sending" /\ pc'[c] = "sending"

\* However many callers ask, sleep and wake up, and although keys expire, two
\* requests of an integration are admitted an interval apart, and two requests
\* of the account the account's interval apart.
AdmissionsSpaced ==
  [][\A c \in Callers : Admitted(c) =>
       /\ now >= lastAdmitted[IntegrationOf[c]] + Interval
       /\ now >= lastAny + AccountInterval]_vars

\* No caller of any integration is admitted before the end of every pause that
\* was recorded, whichever was recorded last and however long it slept.
PausesHold == [][\A c \in Callers : Admitted(c) => now >= pausedUntil]_vars

\* A call is carried out by amoCRM once at most: it is sent again only after an
\* answer that says it was not.
NoReplay == \A c \in Callers : pc[c] # "idle" => executed[c] = 0
==============================================================================
