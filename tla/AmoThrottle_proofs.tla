------------------------- MODULE AmoThrottle_proofs -------------------------
(***************************************************************************)
(* Proofs about AmoThrottle for any callers, integrations, intervals,      *)
(* pauses and bounds: type correctness, that admissions keep the intervals *)
(* and the recorded pauses, and that no call is carried out twice.         *)
(***************************************************************************)
EXTENDS AmoThrottle, TLAPS

-----------------------------------------------------------------------------
(* The inductive invariant                                                 *)

\* A key ends no earlier than what it stands for, and does not expire before
\* its end: a key that is gone, or whose time is past, forbids nothing.
Remembers(key, t) == t <= key.value /\ key.value <= key.expires

KeysRemember ==
  /\ \A i \in Integrations : Remembers(integrationKey[i], lastAdmitted[i] + Interval)
  /\ Remembers(accountKey, lastAny + AccountInterval)
  /\ Remembers(cooldownKey, pausedUntil)

IInv == TypeOK /\ KeysRemember /\ NoReplay
-----------------------------------------------------------------------------
(* The scripts                                                             *)

\* What a script reads of a key is a time.
LEMMA GetType ==
  ASSUME NEW key \in Key, now \in Nat
  PROVE  Get(key) \in Nat
  BY DEF Get, Key

\* A key the admission script finds free: what it stands for is over.
LEMMA FreeIsOver ==
  ASSUME NEW key \in Key, now \in Nat, NEW t \in Int, Remembers(key, t), ~(Get(key) > now)
  PROVE  now >= t
  BY DEF Get, Key, Remembers

\* A key that was just set stands for the time it was set to.
LEMMA UntilRemembers ==
  ASSUME NEW t \in Nat
  PROVE  Until(t) \in Key /\ Remembers(Until(t), t)
  BY ConstantsAssumption DEF Until, Key, Remembers

\* A pause lasts a number of ticks.
LEMMA PauseType ==
  ASSUME TypeOK, NEW c \in Callers
  PROVE  Pause(c) \in Nat
  BY ConstantsAssumption DEF TypeOK, Pause, Longer, Backoff

\* Recording a pause keeps what the cooldown key stands for.
LEMMA RecordKeeps ==
  ASSUME TypeOK, KeysRemember, NEW c \in Callers, Record(c)
  PROVE  /\ cooldownKey' \in Key /\ pausedUntil' \in Nat
         /\ Remembers(cooldownKey', pausedUntil')
<1>. DEFINE end == now + Pause(c)
            new == Longer(Get(cooldownKey), end)
<1>1. end \in Nat /\ now \in Nat /\ end >= now
  BY PauseType DEF TypeOK
<1>2. Get(cooldownKey) \in Nat /\ cooldownKey \in Key /\ pausedUntil \in Nat
  BY GetType DEF TypeOK
<1>3. new \in Nat /\ new >= end /\ new >= Get(cooldownKey)
  BY <1>1, <1>2 DEF Longer
<1>4. pausedUntil <= new
  <2>1. Remembers(cooldownKey, pausedUntil)
    BY DEF KeysRemember
  <2>2. CASE now < cooldownKey.expires
    BY <1>2, <1>3, <2>1, <2>2 DEF Get, Key, Remembers
  <2>3. CASE ~(now < cooldownKey.expires)
    BY <1>1, <1>2, <1>3, <2>1, <2>3 DEF Key, Remembers
  <2>. QED
    BY <2>2, <2>3
<1>5. cooldownKey' = Until(new) /\ pausedUntil' = Longer(pausedUntil, end)
  BY DEF Record
<1>6. pausedUntil' \in Nat /\ pausedUntil' <= new
  BY <1>1, <1>2, <1>3, <1>4, <1>5 DEF Longer
<1>7. Until(new) \in Key /\ Until(new).value = new /\ new <= Until(new).expires
  BY <1>3, ConstantsAssumption DEF Until, Key
<1>. QED
  BY <1>5, <1>6, <1>7 DEF Remembers
-----------------------------------------------------------------------------
(* Type correctness and the keys                                           *)

\* The variables of a call stay typed when it ends.
LEMMA EndType ==
  ASSUME TypeOK, NEW c \in Callers, End(c)
  PROVE  /\ pc' \in [Callers -> Stages] /\ attempt' \in [Callers -> 1..3]
         /\ deadline' \in [Callers -> Nat] /\ timer' \in [Callers -> Nat]
         /\ retryAfter' \in [Callers -> Nat]
  BY DEF TypeOK, End, Stages

\* The same for a call that asks for a slot.
LEMMA AskType ==
  ASSUME TypeOK, NEW c \in Callers, NEW n \in 1..3, Ask(c, n)
  PROVE  /\ pc' \in [Callers -> Stages] /\ attempt' \in [Callers -> 1..3]
         /\ deadline' \in [Callers -> Nat] /\ timer' \in [Callers -> Nat]
         /\ retryAfter' \in [Callers -> Nat]
  BY ConstantsAssumption DEF TypeOK, Ask, Stages

\* Claimed keys are typed and stand for an admission at this moment.
LEMMA ClaimKeeps ==
  ASSUME TypeOK, KeysRemember, NEW c \in Callers, Claim(c)
  PROVE  /\ integrationKey' \in [Integrations -> Key]
         /\ accountKey' \in Key /\ cooldownKey' = cooldownKey
         /\ Remembers(accountKey', now + AccountInterval)
         /\ Remembers(integrationKey'[IntegrationOf[c]], now + Interval)
         /\ \A i \in Integrations : i # IntegrationOf[c] => integrationKey'[i] = integrationKey[i]
<1>1. now + Interval \in Nat /\ now + AccountInterval \in Nat /\ IntegrationOf[c] \in Integrations
  BY ConstantsAssumption DEF TypeOK
<1>2. /\ Until(now + Interval) \in Key /\ Until(now + AccountInterval) \in Key
      /\ Remembers(Until(now + Interval), now + Interval)
      /\ Remembers(Until(now + AccountInterval), now + AccountInterval)
  BY <1>1, UntilRemembers
<1>. QED
  BY <1>1, <1>2 DEF Claim, TypeOK

\* The admission script finds all three keys free.
LEMMA ClaimAllowed ==
  ASSUME TypeOK, KeysRemember, NEW c \in Callers, Claim(c)
  PROVE  /\ now >= lastAdmitted[IntegrationOf[c]] + Interval
         /\ now >= lastAny + AccountInterval
         /\ now >= pausedUntil
<1>. DEFINE i == IntegrationOf[c]
<1>1. i \in Integrations
  BY ConstantsAssumption
<1>2. /\ ~(Get(integrationKey[i]) > now) /\ ~(Get(accountKey) > now)
      /\ ~(Get(cooldownKey) > now)
  BY DEF Claim, Busy
<1>3. /\ Remembers(integrationKey[i], lastAdmitted[i] + Interval)
      /\ Remembers(accountKey, lastAny + AccountInterval)
      /\ Remembers(cooldownKey, pausedUntil)
  BY <1>1 DEF KeysRemember
<1>4. /\ now \in Nat /\ integrationKey[i] \in Key /\ accountKey \in Key /\ cooldownKey \in Key
      /\ lastAdmitted[i] + Interval \in Int /\ lastAny + AccountInterval \in Int /\ pausedUntil \in Int
  BY <1>1, ConstantsAssumption DEF TypeOK
<1>. QED
  BY <1>2, <1>3, <1>4, FreeIsOver

\* A claim whose answer was lost does not weaken what the keys stand for.
LEMMA ClaimOnlyRaises ==
  ASSUME TypeOK, KeysRemember, NEW c \in Callers, Claim(c), UNCHANGED history
  PROVE  KeysRemember'
<1>1. /\ now >= lastAdmitted[IntegrationOf[c]] + Interval
      /\ now >= lastAny + AccountInterval
  BY ClaimAllowed
<1>2. /\ now \in Nat /\ Interval \in Nat /\ AccountInterval \in Nat
      /\ lastAdmitted \in [Integrations -> Int] /\ lastAny \in Int
      /\ IntegrationOf[c] \in Integrations
  BY ConstantsAssumption DEF TypeOK
<1>3. Remembers(accountKey', lastAny + AccountInterval)
  BY <1>1, <1>2, ClaimKeeps DEF Remembers, Key
<1>4. Remembers(integrationKey'[IntegrationOf[c]], lastAdmitted[IntegrationOf[c]] + Interval)
  BY <1>1, <1>2, ClaimKeeps DEF Remembers, Key
<1>5. ASSUME NEW i \in Integrations
      PROVE  Remembers(integrationKey'[i], lastAdmitted[i] + Interval)
  BY <1>4, ClaimKeeps DEF KeysRemember
<1>. QED
  BY <1>3, <1>5, ClaimKeeps DEF KeysRemember, history
-----------------------------------------------------------------------------
(* The invariant is inductive                                              *)

\* Nothing was admitted before the first request.
LEMMA InitIInv == Init => IInv
<1>. SUFFICES ASSUME Init PROVE IInv
  OBVIOUS
<1>1. TypeOK
  BY ConstantsAssumption DEF Init, TypeOK, Key, NoKey, Stages
<1>2. KeysRemember
  BY ConstantsAssumption DEF Init, KeysRemember, Remembers, NoKey
<1>3. NoReplay
  BY DEF Init, NoReplay
<1>. QED
  BY <1>1, <1>2, <1>3 DEF IInv

\* A step that leaves the keys and what was admitted alone keeps the keys' meaning.
LEMMA KeysUntouched ==
  ASSUME KeysRemember, UNCHANGED <<keys, history>>
  PROVE  KeysRemember'
  BY DEF KeysRemember, Remembers, keys, history

\* Every step of acquire keeps the invariant.
LEMMA AcquireKeeps ==
  ASSUME IInv, NEW c \in Callers, Acquire(c)
  PROVE  IInv'
<1>. USE DEF IInv
<1>1. CASE Admit(c)
  <2>1. TypeOK'
    <3>1. /\ integrationKey' \in [Integrations -> Key]
          /\ accountKey' \in Key /\ cooldownKey' \in Key
      BY <1>1, ClaimKeeps DEF Admit, TypeOK
    <3>2. pc' \in [Callers -> Stages]
      BY <1>1 DEF Admit, TypeOK, Stages
    <3>3. lastAdmitted' \in [Integrations -> Int] /\ lastAny' \in Int
      <4>1. now \in Int /\ lastAdmitted \in [Integrations -> Int]
        BY DEF TypeOK
      <4>. QED
        BY <1>1, <4>1 DEF Admit
    <3>. QED
      BY <1>1, <3>1, <3>2, <3>3 DEF Admit, TypeOK
  <2>2. KeysRemember'
    <3>1. /\ lastAny' = now /\ pausedUntil' = pausedUntil
          /\ lastAdmitted' = [lastAdmitted EXCEPT ![IntegrationOf[c]] = now]
          /\ lastAdmitted \in [Integrations -> Int]
      BY <1>1 DEF Admit, TypeOK
    <3>2. ASSUME NEW i \in Integrations
          PROVE  Remembers(integrationKey'[i], lastAdmitted'[i] + Interval)
      BY <1>1, <3>1, ClaimKeeps DEF Admit, KeysRemember
    <3>3. /\ Remembers(accountKey', lastAny' + AccountInterval)
          /\ Remembers(cooldownKey', pausedUntil')
      BY <1>1, <3>1, ClaimKeeps DEF Admit, KeysRemember
    <3>. QED
      BY <3>2, <3>3 DEF KeysRemember
  <2>3. NoReplay'
    BY <1>1 DEF Admit, NoReplay, TypeOK
  <2>. QED
    BY <2>1, <2>2, <2>3
<1>2. CASE AdmitFails(c)
  <2>1. TypeOK'
    <3>1. CASE Claim(c)
      BY <1>2, <3>1, ClaimKeeps, EndType DEF AdmitFails, TypeOK, history
    <3>2. CASE UNCHANGED keys
      BY <1>2, <3>2, EndType DEF AdmitFails, TypeOK, history, keys
    <3>. QED
      BY <1>2, <3>1, <3>2 DEF AdmitFails
  <2>2. KeysRemember'
    BY <1>2, ClaimOnlyRaises, KeysUntouched DEF AdmitFails
  <2>3. NoReplay'
    BY <1>2 DEF AdmitFails, End, NoReplay, TypeOK
  <2>. QED
    BY <2>1, <2>2, <2>3
<1>3. CASE Refuse(c)
  <2>1. PICK ready \in Busy(c) : timer' = [timer EXCEPT ![c] = ready - now]
    BY <1>3 DEF Refuse
  <2>2. ready \in Nat /\ ready > now
    BY GetType, ConstantsAssumption DEF Busy, TypeOK
  <2>3. ready - now \in Nat
    BY <2>2 DEF TypeOK
  <2>4. TypeOK'
    BY <1>3, <2>1, <2>3 DEF Refuse, TypeOK, Stages, keys, history
  <2>5. KeysRemember'
    BY <1>3, KeysUntouched DEF Refuse
  <2>6. NoReplay'
    BY <1>3 DEF Refuse, NoReplay, TypeOK
  <2>. QED
    BY <2>4, <2>5, <2>6
<1>4. CASE Sleep(c) \/ Wake(c)
  <2>1. TypeOK'
    BY <1>4 DEF Sleep, Wake, TypeOK, Stages, keys, history
  <2>2. KeysRemember'
    BY <1>4, KeysUntouched DEF Sleep, Wake
  <2>3. NoReplay'
    BY <1>4 DEF Sleep, Wake, NoReplay, TypeOK
  <2>. QED
    BY <2>1, <2>2, <2>3
<1>5. CASE GiveUp(c) \/ Oversleep(c)
  <2>1. TypeOK'
    BY <1>5, EndType DEF GiveUp, Oversleep, TypeOK, keys, history
  <2>2. KeysRemember'
    BY <1>5, KeysUntouched DEF GiveUp, Oversleep
  <2>3. NoReplay'
    BY <1>5 DEF GiveUp, Oversleep, End, NoReplay, TypeOK
  <2>. QED
    BY <2>1, <2>2, <2>3
<1>. QED
  BY <1>1, <1>2, <1>3, <1>4, <1>5 DEF Acquire

\* So does every other step of a caller.
LEMMA SendKeeps ==
  ASSUME IInv, NEW c \in Callers, Send(c)
  PROVE  IInv'
<1>. USE DEF IInv
<1>1. CASE Start(c)
  <2>1. TypeOK'
    BY <1>1, AskType DEF Start, TypeOK, keys, history
  <2>2. KeysRemember'
    BY <1>1, KeysUntouched DEF Start
  <2>3. NoReplay'
    BY <1>1 DEF Start, Ask, NoReplay, TypeOK
  <2>. QED
    BY <2>1, <2>2, <2>3
<1>2. CASE Answer(c)
  <2>1. PICK done \in 0..1 : executed' = [executed EXCEPT ![c] = @ + done]
    BY <1>2 DEF Answer
  <2>2. executed[c] = 0
    BY <1>2 DEF Answer, NoReplay
  <2>3. executed' \in [Callers -> 0..1]
    BY <2>1, <2>2 DEF TypeOK
  <2>4. TypeOK'
    BY <1>2, <2>3, EndType DEF Answer, TypeOK, keys, history
  <2>5. KeysRemember'
    BY <1>2, KeysUntouched DEF Answer
  <2>6. NoReplay'
    BY <1>2, <2>1 DEF Answer, End, NoReplay, TypeOK
  <2>. QED
    BY <2>4, <2>5, <2>6
<1>3. CASE Reject(c)
  <2>1. TypeOK'
    <3>1. CASE KindOf[c] = "token"
      BY <1>3, <3>1, EndType DEF Reject, TypeOK, keys, history
    <3>2. CASE KindOf[c] # "token"
      BY <1>3, <3>2, ConstantsAssumption DEF Reject, TypeOK, Stages, keys, history
    <3>. QED
      BY <3>1, <3>2
  <2>2. KeysRemember'
    BY <1>3, KeysUntouched DEF Reject
  <2>3. NoReplay'
    BY <1>3 DEF Reject, End, NoReplay, TypeOK
  <2>. QED
    BY <2>1, <2>2, <2>3
<1>4. CASE Cooldown(c) \/ CooldownFails(c)
  <2>1. /\ cooldownKey' \in Key /\ pausedUntil' \in Nat
        /\ Remembers(cooldownKey', pausedUntil')
        /\ UNCHANGED <<integrationKey, accountKey, lastAdmitted, lastAny>>
    <3>1. CASE Record(c)
      BY <3>1, RecordKeeps DEF Record
    <3>2. CASE UNCHANGED <<keys, history>>
      BY <3>2 DEF keys, history, TypeOK, KeysRemember
    <3>. QED
      BY <1>4, <3>1, <3>2 DEF Cooldown, CooldownFails
  <2>2. /\ pc' \in [Callers -> Stages] /\ attempt' \in [Callers -> 1..3]
        /\ deadline' \in [Callers -> Nat] /\ timer' \in [Callers -> Nat]
        /\ retryAfter' \in [Callers -> Nat]
    <3>1. attempt[c] < 3 => attempt[c] + 1 \in 1..3
      BY DEF TypeOK
    <3>. QED
      BY <1>4, <3>1, AskType, EndType DEF Cooldown, CooldownFails
  <2>3. TypeOK'
    BY <1>4, <2>1, <2>2 DEF Cooldown, CooldownFails, TypeOK
  <2>4. KeysRemember'
    BY <2>1 DEF KeysRemember, Remembers
  <2>5. NoReplay'
    BY <1>4 DEF Cooldown, CooldownFails, Ask, End, NoReplay, TypeOK
  <2>. QED
    BY <2>3, <2>4, <2>5
<1>5. CASE Die(c)
  <2>1. TypeOK'
    BY <1>5, EndType DEF Die, TypeOK, keys, history
  <2>2. KeysRemember'
    BY <1>5, KeysUntouched DEF Die
  <2>3. NoReplay'
    BY <1>5 DEF Die, End, NoReplay, TypeOK
  <2>. QED
    BY <2>1, <2>2, <2>3
<1>. QED
  BY <1>1, <1>2, <1>3, <1>4, <1>5, AcquireKeeps DEF Send

\* The clock moves, or nothing does.
LEMMA RestKeeps ==
  ASSUME IInv, Tick \/ UNCHANGED vars
  PROVE  IInv'
<1>. USE DEF IInv
<1>1. TypeOK'
  BY DEF Tick, TypeOK, vars, keys, history
<1>2. KeysRemember'
  BY KeysUntouched DEF Tick, vars
<1>3. NoReplay'
  BY DEF Tick, NoReplay, vars
<1>. QED
  BY <1>1, <1>2, <1>3

\* Every step of the specification keeps the invariant.
LEMMA NextKeeps == IInv /\ [Next]_vars => IInv'
  BY SendKeeps, RestKeeps DEF Next, Finished

\* The invariant holds in every reachable state.
THEOREM Invariance == Spec => []IInv
<1>. QED
  BY InitIInv, NextKeeps, PTL DEF Spec

\* Every reachable state of the throttle and its callers is well typed.
THEOREM TypeCorrect == Spec => []TypeOK
<1>1. IInv => TypeOK
  BY DEF IInv
<1>. QED
  BY Invariance, <1>1, PTL

\* The transport and the SDK never have a request carried out twice in a call.
THEOREM NeverReplayed == Spec => []NoReplay
<1>1. IInv => NoReplay
  BY DEF IInv
<1>. QED
  BY Invariance, <1>1, PTL
-----------------------------------------------------------------------------
(* Admissions                                                              *)

\* Whoever enters the sending stage was admitted by the script in that step.
LEMMA OnlyAdmitAdmits ==
  ASSUME IInv, Next, NEW c \in Callers, Admitted(c)
  PROVE  Admit(c)
<1>1. ASSUME NEW d \in Callers, Send(d) PROVE Admit(c)
  BY <1>1 DEF Admitted, Send, Acquire, Start, Ask, End, Admit, AdmitFails, Refuse, Sleep, GiveUp,
     Wake, Oversleep, Answer, Reject, Cooldown, CooldownFails, Die, IInv, TypeOK
<1>. QED
  BY <1>1 DEF Next, Tick, Finished, vars, Admitted

\* Two requests of an integration are admitted its interval apart, two of the
\* account the account's interval apart, however many callers ask.
THEOREM RequestsAreSpaced == Spec => AdmissionsSpaced
<1>. DEFINE A == \A c \in Callers : Admitted(c) =>
                   /\ now >= lastAdmitted[IntegrationOf[c]] + Interval
                   /\ now >= lastAny + AccountInterval
<1>1. IInv /\ [Next]_vars => [A]_vars
  BY OnlyAdmitAdmits, ClaimAllowed DEF IInv, Admit
<1>2. Spec => [][A]_vars
  <2>. HIDE DEF A
  <2>. QED
    BY Invariance, <1>1, PTL DEF Spec
<1>. QED
  BY <1>2 DEF AdmissionsSpaced

\* No request is admitted before the end of any pause that was recorded.
THEOREM PausesAreKept == Spec => PausesHold
<1>. DEFINE A == \A c \in Callers : Admitted(c) => now >= pausedUntil
<1>1. IInv /\ [Next]_vars => [A]_vars
  BY OnlyAdmitAdmits, ClaimAllowed DEF IInv, Admit
<1>2. Spec => [][A]_vars
  <2>. HIDE DEF A
  <2>. QED
    BY Invariance, <1>1, PTL DEF Spec
<1>. QED
  BY <1>2 DEF PausesHold
==============================================================================
