--------------------------- MODULE WatchdogProofs ---------------------------
(***************************************************************************)
(* Proofs about Watchdog for every set of actors, every set of periods and *)
(* every number of requests.                                               *)
(***************************************************************************)
EXTENDS Watchdog, FiniteSetTheorems, SequenceTheorems, TLAPS

\* A JoinHandle names one timer, of the actor it was armed for: what the watchdog
\* aborts for one subject is never another subject's timer.
HandlesAreOwn ==
    /\ \A t \in timers : t.id < nextTimer
    /\ \A a \in DOMAIN subjects : subjects[a].timer < nextTimer
    /\ \A a \in DOMAIN subjects, t \in timers : t.id = subjects[a].timer => t.actor = a

-----------------------------------------------------------------------------
(* Lemmas about the ports.                                                 *)

\* A send keeps every queued Timeout and queues the message it carries.
LEMMA SendKeeps ==
    ASSUME TypeOK, NEW m \in Message, inbox' = Append(inbox, m), NEW a
    PROVE  /\ inbox' \in Seq(Message)
           /\ TimeoutQueued(a) => TimeoutQueued(a)'
           /\ m.type = "Timeout" /\ m.actor = a => TimeoutQueued(a)'
<1>. DEFINE n == Len(inbox)
<1>1. /\ Append(inbox, m) \in Seq(Message)
      /\ DOMAIN Append(inbox, m) = 1 .. n + 1
      /\ Append(inbox, m)[n + 1] = m
      /\ \A i \in 1 .. n : Append(inbox, m)[i] = inbox[i]
  BY AppendProperties DEF TypeOK
<1>2. DOMAIN inbox = 1 .. n /\ n \in Nat
  BY LenProperties DEF TypeOK
<1>. QED BY <1>1, <1>2 DEF TimeoutQueued

\* What is received is a message, and every other queued Timeout stays queued.
LEMMA ReceiveKeeps ==
    ASSUME TypeOK, NEW type, Receive(type), NEW a
    PROVE  /\ Head(inbox) \in Message /\ Head(inbox).type = type
           /\ inbox' \in Seq(Message)
           /\ TimeoutQueued(a) =>
                 TimeoutQueued(a)' \/ (type = "Timeout" /\ Head(inbox).actor = a)
<1>. DEFINE n == Len(inbox)
<1>1. /\ inbox \in Seq(Message) /\ inbox # <<>>
      /\ inbox' = Tail(inbox) /\ Head(inbox).type = type
  BY DEF TypeOK, Receive
<1>2. /\ Head(inbox) \in Message /\ Tail(inbox) \in Seq(Message)
      /\ Len(Tail(inbox)) = n - 1
      /\ \A i \in 1 .. Len(Tail(inbox)) : Tail(inbox)[i] = inbox[i + 1]
  BY <1>1, HeadTailProperties
<1>3. /\ DOMAIN inbox = 1 .. n /\ n \in Nat
      /\ DOMAIN Tail(inbox) = 1 .. n - 1 /\ Head(inbox) = inbox[1]
  BY <1>1, <1>2, LenProperties
<1>4. ASSUME NEW i \in DOMAIN inbox, i # 1
      PROVE  i - 1 \in DOMAIN inbox' /\ inbox'[i - 1] = inbox[i]
  <2>1. i - 1 \in 1 .. n - 1 /\ (i - 1) + 1 = i
    BY <1>3, <1>4
  <2>2. Tail(inbox)[i - 1] = inbox[(i - 1) + 1]
    BY <1>2, <2>1
  <2>. QED BY <1>1, <1>3, <2>1, <2>2
<1>. QED BY <1>1, <1>2, <1>3, <1>4 DEF TimeoutQueued

-----------------------------------------------------------------------------
(* Type correctness.                                                       *)

LEMMA InitTypeOK == ASSUME WatchdogAssumption, Init PROVE TypeOK
  BY DEF WatchdogAssumption, Init, TypeOK, Registration

LEMMA RequestTypeOK ==
    ASSUME WatchdogAssumption, TypeOK, NEW a \in Actor,
           \/ \E d \in Timeouts, s \in Strategy : CastRegister(a, d, s)
           \/ CastUnregister(a) \/ CallPing(a) \/ CallStats(a)
    PROVE  TypeOK'
<1> USE DEF TypeOK, Request, serverVars, timerVars, actorVars
<1>1. ASSUME NEW d \in Timeouts, NEW s \in Strategy, CastRegister(a, d, s) PROVE TypeOK'
  <2>1. [type |-> "Register", actor |-> a, timeout |-> d, strategy |-> s] \in Message
    BY DEF Message
  <2>2. inbox' \in Seq(Message)
    BY <1>1, <2>1, SendKeeps DEF CastRegister
  <2>3. budget' \in Nat
    BY <1>1 DEF CastRegister
  <2>. QED BY <1>1, <2>2, <2>3 DEF CastRegister
<1>2. CASE CastUnregister(a)
  <2>1. [type |-> "Unregister", actor |-> a] \in Message
    BY DEF Message
  <2>2. inbox' \in Seq(Message)
    BY <1>2, <2>1, SendKeeps DEF CastUnregister
  <2>3. budget' \in Nat
    BY <1>2 DEF CastUnregister
  <2>. QED BY <1>2, <2>2, <2>3 DEF CastUnregister
<1>3. ASSUME NEW kind \in {"Ping", "Stats"}, Call(a, kind) PROVE TypeOK'
  <2>1. [type |-> kind, actor |-> a] \in Message
    BY <1>3 DEF Message
  <2>2. inbox' \in Seq(Message)
    BY <1>3, <2>1, SendKeeps DEF Call
  <2>3. budget' \in Nat /\ waiting' \in [Actor -> {"No", "Ping", "Stats"}]
    BY <1>3 DEF Call
  <2>. QED BY <1>3, <2>2, <2>3 DEF Call
<1>. QED BY <1>1, <1>2, <1>3 DEF CallPing, CallStats

LEMMA TimeTypeOK ==
    ASSUME WatchdogAssumption, TypeOK, Tick \/ \E t \in timers : Fire(t)
    PROVE  TypeOK'
<1> USE DEF TypeOK, serverVars, portVars, actorVars
<1>1. CASE Tick
  <2>1. \A t \in timers : Elapsed(t) \in [id : Nat, actor : Actor, left : Nat]
    <3> SUFFICES ASSUME NEW t \in timers
                 PROVE  Elapsed(t) \in [id : Nat, actor : Actor, left : Nat]
      OBVIOUS
    <3>1. (IF t.left > 0 THEN t.left - 1 ELSE 0) \in Nat
      OBVIOUS
    <3>. QED BY <3>1 DEF Elapsed
  <2>. QED BY <1>1, <2>1 DEF Tick
<1>2. ASSUME NEW t \in timers, Fire(t) PROVE TypeOK'
  <2>1. [type |-> "Timeout", actor |-> t.actor] \in Message
    BY DEF Message
  <2>2. inbox' \in Seq(Message)
    BY <1>2, <2>1, SendKeeps DEF Fire, Delivered
  <2>. QED BY <1>2, <2>2 DEF Fire
<1>. QED BY <1>1, <1>2

LEMMA HandlersTypeOK == ASSUME WatchdogAssumption, TypeOK, Handle PROVE TypeOK'
<1> USE DEF TypeOK, serverVars, portVars, timerVars, actorVars
<1>1. CASE HandleRegister
  <2> DEFINE m == Head(inbox)
  <2>1. m \in Message /\ m.type = "Register" /\ inbox' \in Seq(Message)
    BY <1>1, ReceiveKeeps DEF HandleRegister
  <2>2. m.actor \in Actor /\ m.timeout \in Nat /\ m.strategy \in Strategy
    BY <2>1 DEF Message, WatchdogAssumption
  <2>3. Timer(m.actor, m.timeout) \in [id : Nat, actor : Actor, left : Nat]
    BY <2>2 DEF Timer
  <2>4. /\ subjects' \in [DOMAIN subjects \cup {m.actor} -> Registration]
        /\ DOMAIN subjects' = DOMAIN subjects \cup {m.actor}
    BY <1>1, <2>2 DEF HandleRegister, Inserted, Registration
  <2>5. DOMAIN subjects' \subseteq Actor /\ subjects' \in [DOMAIN subjects' -> Registration]
    BY <2>2, <2>4
  <2>6. timers' \subseteq [id : Nat, actor : Actor, left : Nat]
    BY <1>1, <2>3 DEF HandleRegister
  <2>7. /\ nextTimer' \in Nat /\ registrations' \in Nat
        /\ UNCHANGED <<status, kills, stops, sup, life, waiting, budget>>
    BY <1>1 DEF HandleRegister
  <2>. QED BY <2>1, <2>5, <2>6, <2>7
<1>2. CASE HandleUnregister
  <2>1. inbox' \in Seq(Message)
    BY <1>2, ReceiveKeeps DEF HandleUnregister
  <2>. QED BY <1>2, <2>1 DEF HandleUnregister, Unregister, Removed, Aborted, Restrict
<1>3. CASE HandlePing
  <2> DEFINE a == Head(inbox).actor
  <2>1. a \in Actor /\ inbox' \in Seq(Message)
    BY <1>3, ReceiveKeeps DEF HandlePing, Message
  <2>2. waiting' \in [Actor -> {"No", "Ping", "Stats"}]
    BY <1>3 DEF HandlePing, Resumed
  <2>3. timers' \subseteq [id : Nat, actor : Actor, left : Nat] /\ nextTimer' \in Nat
    <3>1. CASE a \in DOMAIN subjects
      <4>1. subjects[a].timeout \in Nat
        BY <3>1 DEF Registration
      <4>. QED BY <1>3, <3>1, <2>1, <4>1 DEF HandlePing, Rearmed, Aborted, Timer
    <3>2. CASE a \notin DOMAIN subjects
      BY <1>3, <3>2 DEF HandlePing
    <3>. QED BY <3>1, <3>2
  <2>. QED BY <1>3, <2>1, <2>2, <2>3 DEF HandlePing
<1>4. CASE HandleTimeout
  <2> DEFINE a == Head(inbox).actor
  <2>1. inbox' \in Seq(Message)
    BY <1>4, ReceiveKeeps DEF HandleTimeout
  <2>2. CASE a \in DOMAIN subjects
    <3>1. /\ kills' \in Nat /\ stops' \in Nat
          /\ life' \in [Actor -> {"Running", "Stopping", "Killed", "Dead"}]
      <4> DEFINE LifeState == {"Running", "Stopping", "Killed", "Dead"}
      <4>0. life[a] \in LifeState
        BY <2>2
      <4>1. TimeoutStrategy(a)
        BY <1>4, <2>2 DEF HandleTimeout
      <4>2. CASE Kill(a) /\ kills' = kills + 1 /\ UNCHANGED stops
        <5>1. kills' \in Nat /\ stops' \in Nat
          BY <4>2
        <5>2. (IF life[a] = "Dead" THEN life[a] ELSE "Killed") \in LifeState
          BY <4>0
        <5>3. life' \in [Actor -> LifeState]
          BY <4>2, <5>2 DEF Kill
        <5>. QED BY <5>1, <5>3
      <4>3. CASE Stop(a) /\ stops' = stops + 1 /\ UNCHANGED kills
        <5>1. kills' \in Nat /\ stops' \in Nat
          BY <4>3
        <5>2. (IF life[a] = "Running" THEN "Stopping" ELSE life[a]) \in LifeState
          BY <4>0
        <5>3. life' \in [Actor -> LifeState]
          BY <4>3, <5>2 DEF Stop
        <5>. QED BY <5>1, <5>3
      <4>. QED BY <4>1, <4>2, <4>3 DEF TimeoutStrategy
    <3>2. subjects' = Removed(a)
      BY <1>4, <2>2 DEF HandleTimeout
    <3>3. DOMAIN subjects' \subseteq Actor /\ subjects' \in [DOMAIN subjects' -> Registration]
      BY <3>2 DEF Removed, Restrict
    <3>. QED BY <1>4, <2>1, <3>1, <3>3 DEF HandleTimeout
  <2>3. CASE a \notin DOMAIN subjects
    BY <1>4, <2>1, <2>3 DEF HandleTimeout
  <2>. QED BY <2>2, <2>3
<1>5. CASE HandleStats
  <2> DEFINE a == Head(inbox).actor
  <2>1. CASE Receive("Stats") /\ waiting' = Resumed(a)
             /\ UNCHANGED <<serverVars, sup, timerVars, life, budget>>
    <3>1. inbox' \in Seq(Message)
      BY <2>1, ReceiveKeeps
    <3>. QED BY <2>1, <3>1 DEF Resumed
  <2>2. CASE Fail
    BY <2>2 DEF Fail
  <2>. QED BY <1>5, <2>1, <2>2 DEF HandleStats
<1>6. CASE HandleSupervisorEvt
  BY <1>6 DEF HandleSupervisorEvt, Unregister, Removed, Aborted, Restrict
<1>. QED BY <1>1, <1>2, <1>3, <1>4, <1>5, <1>6 DEF Handle

LEMMA ActorTypeOK ==
    ASSUME WatchdogAssumption, TypeOK, NEW a \in Actor, Obey(a) \/ Crash(a)
    PROVE  TypeOK'
<1>1. Die(a)
  BY DEF Obey, Crash
<1>. QED BY <1>1 DEF TypeOK, Die, Resumed, serverVars, timerVars

\* TypeOK holds in every state (every variable of the watchdog and its callers).
THEOREM TypeCorrect == Spec => []TypeOK
<1>1. Init => TypeOK
  BY InitTypeOK, WatchdogAssumption
<1>2. TypeOK /\ [Next]_vars => TypeOK'
  <2> SUFFICES ASSUME TypeOK, [Next]_vars PROVE TypeOK'
    OBVIOUS
  <2>1. CASE UNCHANGED vars
    BY <2>1 DEF TypeOK, vars, serverVars, portVars, timerVars, actorVars
  <2>2. CASE Next
    BY <2>2, WatchdogAssumption, RequestTypeOK, TimeTypeOK, HandlersTypeOK, ActorTypeOK DEF Next
  <2>. QED BY <2>1, <2>2
<1>. QED BY <1>1, <1>2, PTL DEF Spec

-----------------------------------------------------------------------------
(* Handles.                                                                *)

\* Whatever only forgets timers and registrations keeps the handles apart.
LEMMA ForgettingKeepsHandles ==
    ASSUME HandlesAreOwn, timers' \subseteq timers, nextTimer' = nextTimer,
           DOMAIN subjects' \subseteq DOMAIN subjects,
           \A a \in DOMAIN subjects' : subjects'[a] = subjects[a]
    PROVE  HandlesAreOwn'
  BY DEF HandlesAreOwn

LEMMA HandlesStep == ASSUME TypeOK, HandlesAreOwn, [Next]_vars PROVE HandlesAreOwn'
<1> USE DEF serverVars, portVars, timerVars, actorVars
<1>1. CASE UNCHANGED <<subjects, timerVars>>
  BY <1>1 DEF HandlesAreOwn
<1>2. CASE Tick
  <2>1. \A t \in timers : Elapsed(t).id = t.id /\ Elapsed(t).actor = t.actor
    BY DEF Elapsed, TypeOK
  <2>. QED BY <1>2, <2>1 DEF Tick, HandlesAreOwn
<1>3. ASSUME NEW t \in timers, Fire(t) PROVE HandlesAreOwn'
  BY <1>3, ForgettingKeepsHandles DEF Fire
<1>4. CASE HandleRegister
  <2> DEFINE m == Head(inbox)
             r == [timeout |-> m.timeout, strategy |-> m.strategy, timer |-> nextTimer]
  <2>1. /\ timers' = timers \cup {Timer(m.actor, m.timeout)}
        /\ nextTimer' = nextTimer + 1 /\ nextTimer \in Nat
        /\ subjects' = Inserted(m.actor, r)
    BY <1>4 DEF HandleRegister, TypeOK
  <2>2. Timer(m.actor, m.timeout).id = nextTimer /\ Timer(m.actor, m.timeout).actor = m.actor
    BY DEF Timer
  <2>3. /\ DOMAIN subjects' = DOMAIN subjects \cup {m.actor}
        /\ subjects'[m.actor] = r
        /\ \A b \in DOMAIN subjects \ {m.actor} : subjects'[b] = subjects[b]
    BY <2>1 DEF Inserted
  <2>4. \A t \in timers : t.id \in Nat /\ t.id < nextTimer
    BY DEF HandlesAreOwn, TypeOK
  <2>5. \A b \in DOMAIN subjects : subjects[b].timer \in Nat /\ subjects[b].timer < nextTimer
    BY DEF HandlesAreOwn, TypeOK, Registration
  <2>. QED BY <2>1, <2>2, <2>3, <2>4, <2>5 DEF HandlesAreOwn
<1>5. CASE HandleUnregister \/ HandleSupervisorEvt
  BY <1>5, ForgettingKeepsHandles
  DEF HandleUnregister, HandleSupervisorEvt, Unregister, Removed, Aborted, Restrict
<1>6. CASE HandlePing
  <2> DEFINE a == Head(inbox).actor
  <2>1. CASE a \in DOMAIN subjects
    <3>1. /\ timers' = Rearmed(a) /\ nextTimer' = nextTimer + 1 /\ nextTimer \in Nat
          /\ subjects' = subjects
      BY <1>6, <2>1 DEF HandlePing, TypeOK
    <3>2. \A t \in timers' : t \in timers \/ (t.id = nextTimer /\ t.actor = a)
      BY <3>1 DEF Rearmed, Aborted, Timer
    <3>3. \A t \in timers : t.id \in Nat /\ t.id < nextTimer
      BY DEF HandlesAreOwn, TypeOK
    <3>4. \A b \in DOMAIN subjects : subjects[b].timer \in Nat /\ subjects[b].timer < nextTimer
      BY DEF HandlesAreOwn, TypeOK, Registration
    <3>. QED BY <3>1, <3>2, <3>3, <3>4 DEF HandlesAreOwn
  <2>2. CASE a \notin DOMAIN subjects
    BY <1>1, <1>6, <2>2 DEF HandlePing
  <2>. QED BY <2>1, <2>2
<1>7. CASE HandleTimeout
  BY <1>7, ForgettingKeepsHandles DEF HandleTimeout, Removed, Restrict
<1>8. CASE HandleStats
  BY <1>1, <1>8, ForgettingKeepsHandles DEF HandleStats, Fail
<1>9. CASE \/ \E a \in Actor, d \in Timeouts, s \in Strategy : CastRegister(a, d, s)
           \/ \E a \in Actor : CastUnregister(a) \/ CallPing(a) \/ CallStats(a)
           \/ \E a \in Actor : Obey(a) \/ Crash(a)
  BY <1>1, <1>9 DEF CastRegister, CastUnregister, CallPing, CallStats, Call, Obey, Crash, Die
<1>. QED BY <1>1, <1>2, <1>3, <1>4, <1>5, <1>6, <1>7, <1>8, <1>9 DEF Next, Handle, vars

-----------------------------------------------------------------------------
(* No registration is forgotten.                                           *)

\* Aborting the timer of one subject leaves the timers of the others.
LEMMA AbortIsLocal ==
    ASSUME HandlesAreOwn, NEW a, NEW b, a # b, HasTimer(b)
    PROVE  \E t \in Aborted(a) : t.actor = b
  BY DEF HandlesAreOwn, HasTimer, Aborted

LEMMA GuardedStep ==
    ASSUME WatchdogAssumption, TypeOK, HandlesAreOwn, Guarded, [Next]_vars
    PROVE  Guarded'
<1> USE DEF serverVars, portVars, timerVars, actorVars
<1>1. CASE status' # "Running"
  BY <1>1 DEF Guarded
<1>2. CASE UNCHANGED <<status, subjects, inbox, timers>>
  BY <1>2 DEF Guarded, HasTimer, TimeoutQueued
<1>3. ASSUME UNCHANGED <<status, subjects, timers>>,
             NEW m \in Message, inbox' = Append(inbox, m)
      PROVE  Guarded'
  BY <1>3, SendKeeps DEF Guarded, HasTimer
<1>4. CASE Tick
  <2>1. \A t \in timers : Elapsed(t).actor = t.actor
    BY DEF Elapsed, TypeOK
  <2>2. \A a : HasTimer(a) => HasTimer(a)'
    BY <1>4, <2>1 DEF Tick, HasTimer
  <2>. QED BY <1>4, <2>2 DEF Tick, Guarded, TimeoutQueued
<1>5. ASSUME NEW t \in timers, Fire(t), status' = "Running" PROVE Guarded'
  <2> DEFINE m == [type |-> "Timeout", actor |-> t.actor]
  <2>1. m \in Message /\ m.type = "Timeout" /\ m.actor = t.actor
    BY DEF TypeOK, Message
  <2>2. inbox' = Append(inbox, m) /\ timers' = timers \ {t} /\ UNCHANGED <<status, subjects>>
    BY <1>5 DEF Fire, Delivered
  <2>3. ASSUME NEW a \in DOMAIN subjects PROVE (HasTimer(a) \/ TimeoutQueued(a))'
    <3>1. CASE TimeoutQueued(a) \/ a = t.actor
      BY <2>1, <2>2, <3>1, SendKeeps
    <3>2. CASE HasTimer(a) /\ a # t.actor
      BY <2>2, <3>2 DEF HasTimer
    <3>. QED BY <1>5, <2>2, <3>1, <3>2 DEF Guarded
  <2>. QED BY <2>2, <2>3 DEF Guarded
<1>6. ASSUME NEW type, type # "Timeout", Receive(type), NEW a,
             DOMAIN subjects' \subseteq DOMAIN subjects \cup {a},
             a \in DOMAIN subjects' => \E t \in timers' : t.actor = a,
             Aborted(a) \subseteq timers'
      PROVE  Guarded'
  <2>1. ASSUME NEW b \in DOMAIN subjects' PROVE (HasTimer(b) \/ TimeoutQueued(b))'
    <3>1. CASE b = a
      BY <1>6, <2>1, <3>1 DEF HasTimer
    <3>2. CASE b # a
      <4>1. HasTimer(b) \/ TimeoutQueued(b)
        BY <1>6, <2>1, <3>2 DEF Guarded, Receive
      <4>2. HasTimer(b) => HasTimer(b)'
        BY <1>6, <3>2, AbortIsLocal DEF HasTimer
      <4>3. TimeoutQueued(b) => TimeoutQueued(b)'
        BY <1>6, ReceiveKeeps
      <4>. QED BY <4>1, <4>2, <4>3
    <3>. QED BY <3>1, <3>2
  <2>. QED BY <2>1 DEF Guarded
<1>7. CASE HandleRegister
  <2> DEFINE m == Head(inbox)
  <2>1. /\ Receive("Register") /\ DOMAIN subjects' = DOMAIN subjects \cup {m.actor}
        /\ timers' = timers \cup {Timer(m.actor, m.timeout)}
    BY <1>7 DEF HandleRegister, Inserted
  <2>2. \E t \in timers' : t.actor = m.actor
    <3>1. Timer(m.actor, m.timeout) \in timers' /\ Timer(m.actor, m.timeout).actor = m.actor
      BY <2>1 DEF Timer
    <3>. QED BY <3>1
  <2>3. Aborted(m.actor) \subseteq timers'
    BY <2>1 DEF Aborted
  <2>. QED BY <1>6, <2>1, <2>2, <2>3
<1>8. CASE HandleUnregister
  <2>1. Receive("Unregister") /\ Unregister(Head(inbox).actor)
    BY <1>8 DEF HandleUnregister
  <2>. QED BY <1>6, <2>1 DEF Unregister, Removed, Restrict
<1>9. CASE HandlePing
  <2> DEFINE a == Head(inbox).actor
  <2>1. Receive("Ping") /\ UNCHANGED subjects
    BY <1>9 DEF HandlePing
  <2>2. CASE a \in DOMAIN subjects
    <3>1. timers' = Rearmed(a)
      BY <1>9, <2>2 DEF HandlePing
    <3>2. (\E t \in timers' : t.actor = a) /\ Aborted(a) \subseteq timers'
      <4>1. /\ Timer(a, subjects[a].timeout) \in timers'
            /\ Timer(a, subjects[a].timeout).actor = a
        BY <3>1 DEF Rearmed, Timer
      <4>. QED BY <3>1, <4>1 DEF Rearmed
    <3>. QED BY <1>6, <2>1, <3>2
  <2>3. CASE a \notin DOMAIN subjects
    <3>1. UNCHANGED timers
      BY <1>9, <2>3 DEF HandlePing
    <3>. QED BY <1>6, <2>1, <2>3, <3>1 DEF Aborted
  <2>. QED BY <2>2, <2>3
<1>10. CASE HandleTimeout
  <2> DEFINE a == Head(inbox).actor
  <2>1. /\ Receive("Timeout") /\ UNCHANGED <<status, timers>>
        /\ DOMAIN subjects' = DOMAIN subjects \ {a}
    BY <1>10 DEF HandleTimeout, Removed, Restrict
  <2>2. ASSUME NEW b \in DOMAIN subjects' PROVE (HasTimer(b) \/ TimeoutQueued(b))'
    <3>1. b \in DOMAIN subjects /\ b # a /\ (HasTimer(b) \/ TimeoutQueued(b))
      BY <2>1, <2>2 DEF Guarded, Receive
    <3>2. TimeoutQueued(b) => TimeoutQueued(b)'
      BY <2>1, <3>1, ReceiveKeeps
    <3>. QED BY <2>1, <3>1, <3>2 DEF HasTimer
  <2>. QED BY <2>2 DEF Guarded
<1>11. CASE HandleStats /\ status' = "Running"
  <2>1. Receive("Stats") /\ UNCHANGED <<status, subjects, timers>>
    BY <1>11 DEF HandleStats, Fail
  <2>2. \A b : TimeoutQueued(b) => TimeoutQueued(b)'
    BY <2>1, ReceiveKeeps
  <2>. QED BY <2>1, <2>2 DEF Guarded, HasTimer, Receive
<1>12. CASE HandleSupervisorEvt
  <2> DEFINE a == Head(sup)
  <2>1. UNCHANGED <<status, inbox>> /\ timers' = Aborted(a) /\ DOMAIN subjects' = DOMAIN subjects \ {a}
    BY <1>12 DEF HandleSupervisorEvt, Unregister, Removed, Restrict
  <2>2. \A b : b # a /\ HasTimer(b) => HasTimer(b)'
    BY <2>1, AbortIsLocal DEF HasTimer
  <2>. QED BY <2>1, <2>2 DEF Guarded, TimeoutQueued
<1>13. ASSUME NEW a \in Actor,
              \/ \E d \in Timeouts, s \in Strategy : CastRegister(a, d, s)
              \/ CastUnregister(a) \/ CallPing(a) \/ CallStats(a)
       PROVE  Guarded'
  <2>1. UNCHANGED <<status, subjects, timers>>
    BY <1>13 DEF CastRegister, CastUnregister, CallPing, CallStats, Call
  <2>2. \E m \in Message : inbox' = Append(inbox, m)
    BY <1>13 DEF CastRegister, CastUnregister, CallPing, CallStats, Call, Request, Message
  <2>. QED BY <1>3, <2>1, <2>2
<1>14. ASSUME NEW a \in Actor, Obey(a) \/ Crash(a) PROVE Guarded'
  BY <1>2, <1>14 DEF Obey, Crash, Die
<1>. QED BY <1>1, <1>2, <1>4, <1>5, <1>7, <1>8, <1>9, <1>10, <1>11, <1>12, <1>13, <1>14
     DEF Next, Handle, vars

\* No registration is ever forgotten: every registered subject has a timer still to
\* fire or a Timeout still to be handled while the watchdog runs.
THEOREM SubjectsGuarded == Spec => []Guarded
<1>1. Init => HandlesAreOwn /\ Guarded
  BY DEF Init, HandlesAreOwn, Guarded
<1>2. TypeOK /\ HandlesAreOwn /\ Guarded /\ [Next]_vars => HandlesAreOwn' /\ Guarded'
  BY HandlesStep, GuardedStep, WatchdogAssumption
<1>. QED BY <1>1, <1>2, TypeCorrect, PTL DEF Spec

-----------------------------------------------------------------------------
(* A registration is punished at most once.                                *)

\* The table is finite, so that its size is a number.
TableFinite == IsFiniteSet(DOMAIN subjects)

\* A step that opens no registration and punishes nobody keeps the account.
LEMMA ForgettingKeepsAccount ==
    ASSUME TypeOK, TableFinite, PunishedOnce,
           DOMAIN subjects' \subseteq DOMAIN subjects,
           UNCHANGED <<kills, stops, registrations>>
    PROVE  TableFinite' /\ PunishedOnce'
<1>1. /\ IsFiniteSet(DOMAIN subjects')
      /\ Cardinality(DOMAIN subjects') <= Cardinality(DOMAIN subjects)
  BY FS_Subset DEF TableFinite
<1>2. Cardinality(DOMAIN subjects) \in Nat /\ Cardinality(DOMAIN subjects') \in Nat
  BY <1>1, FS_CardinalityType DEF TableFinite
<1>. QED BY <1>1, <1>2 DEF TypeOK, TableFinite, PunishedOnce

LEMMA AccountStep ==
    ASSUME TypeOK, TableFinite, PunishedOnce, [Next]_vars
    PROVE  TableFinite' /\ PunishedOnce'
<1> USE DEF serverVars, portVars, timerVars, actorVars
<1>1. CASE UNCHANGED <<subjects, kills, stops, registrations>>
  BY <1>1, ForgettingKeepsAccount
<1>2. CASE HandleRegister
  <2> DEFINE a == Head(inbox).actor
             D == DOMAIN subjects
  <2>1. /\ DOMAIN subjects' = D \cup {a}
        /\ registrations' = registrations + 1 /\ UNCHANGED <<kills, stops>>
    BY <1>2 DEF HandleRegister, Inserted
  <2>2. /\ IsFiniteSet(D \cup {a})
        /\ Cardinality(D \cup {a}) = Cardinality(D) \/ Cardinality(D \cup {a}) = Cardinality(D) + 1
    BY FS_AddElement DEF TableFinite
  <2>3. Cardinality(D) \in Nat
    BY FS_CardinalityType DEF TableFinite
  <2>. QED BY <2>1, <2>2, <2>3 DEF TypeOK, TableFinite, PunishedOnce
<1>3. CASE HandleUnregister \/ HandleSupervisorEvt
  BY <1>3, ForgettingKeepsAccount
  DEF HandleUnregister, HandleSupervisorEvt, Unregister, Removed, Restrict
<1>4. CASE HandleTimeout
  <2> DEFINE a == Head(inbox).actor
             D == DOMAIN subjects
  <2>1. CASE a \in D
    <3>1. /\ DOMAIN subjects' = D \ {a}
          /\ kills' + stops' = kills + stops + 1 /\ UNCHANGED registrations
      BY <1>4, <2>1 DEF HandleTimeout, TimeoutStrategy, Removed, Restrict, TypeOK
    <3>2. IsFiniteSet(D \ {a}) /\ Cardinality(D \ {a}) = Cardinality(D) - 1
      BY <2>1, FS_RemoveElement DEF TableFinite
    <3>3. Cardinality(D) \in Nat
      BY FS_CardinalityType DEF TableFinite
    <3>4. kills' \in Nat /\ stops' \in Nat
      BY <1>4, <2>1 DEF HandleTimeout, TimeoutStrategy, TypeOK
    <3>. QED BY <3>1, <3>2, <3>3, <3>4 DEF TypeOK, TableFinite, PunishedOnce
  <2>2. CASE a \notin D
    BY <1>1, <1>4, <2>2 DEF HandleTimeout
  <2>. QED BY <2>1, <2>2
<1>5. CASE HandleStats
  BY <1>1, <1>5, ForgettingKeepsAccount DEF HandleStats, Fail
<1>6. CASE Next /\ ~Handle
  BY <1>1, <1>6
  DEF Next, CastRegister, CastUnregister, CallPing, CallStats, Call, Tick, Fire, Obey, Crash, Die
<1>7. CASE HandlePing
  BY <1>1, <1>7 DEF HandlePing
<1>. QED BY <1>1, <1>2, <1>3, <1>4, <1>5, <1>6, <1>7 DEF Handle, vars

\* However many timers a subject has collected, each of its registrations is
\* punished at most once.
THEOREM AtMostOnePunishment == Spec => []PunishedOnce
<1>1. Init => TableFinite /\ PunishedOnce
  BY FS_EmptySet DEF Init, TableFinite, PunishedOnce
<1>2. TypeOK /\ TableFinite /\ PunishedOnce /\ [Next]_vars => TableFinite' /\ PunishedOnce'
  BY AccountStep
<1>. QED BY <1>1, <1>2, TypeCorrect, PTL DEF Spec

-----------------------------------------------------------------------------
(* Nobody waits in vain.                                                   *)

IsCall(m) == m.type \in {"Ping", "Stats"}

\* An actor has one call in the inbox at most, and waits for that one, unless it died.
OneCall ==
    /\ \A i \in 1 .. Len(inbox) : IsCall(inbox[i]) /\ life[inbox[i].actor] # "Dead" =>
          waiting[inbox[i].actor] = inbox[i].type
    /\ \A i, j \in 1 .. Len(inbox) :
          /\ IsCall(inbox[i]) /\ IsCall(inbox[j])
          /\ inbox[i].actor = inbox[j].actor /\ life[inbox[i].actor] # "Dead"
          => i = j
    /\ \A a \in Actor : waiting[a] # "No" => life[a] # "Dead"

CallsInv == TypeOK /\ OneCall /\ CallsAreQueued

LEMMA InboxFacts ==
    ASSUME TypeOK
    PROVE  /\ DOMAIN inbox = 1 .. Len(inbox) /\ Len(inbox) \in Nat
           /\ \A i \in 1 .. Len(inbox) : inbox[i] \in Message /\ inbox[i].actor \in Actor
<1>1. DOMAIN inbox = 1 .. Len(inbox) /\ Len(inbox) \in Nat /\ inbox \in Seq(Message)
  BY LenProperties DEF TypeOK
<1>2. ASSUME NEW i \in 1 .. Len(inbox) PROVE inbox[i] \in Message /\ inbox[i].actor \in Actor
  <2>1. inbox[i] \in Message
    BY <1>1, ElementOfSeq
  <2>. QED BY <2>1 DEF Message
<1>. QED BY <1>1, <1>2

LEMMA SentFacts ==
    ASSUME TypeOK, NEW m \in Message, inbox' = Append(inbox, m)
    PROVE  /\ DOMAIN inbox' = 1 .. Len(inbox) + 1 /\ Len(inbox') = Len(inbox) + 1
           /\ inbox'[Len(inbox) + 1] = m /\ m.actor \in Actor
           /\ \A i \in 1 .. Len(inbox) : inbox'[i] = inbox[i]
<1>1. inbox \in Seq(Message) /\ m.actor \in Actor
  BY DEF TypeOK, Message
<1>. QED BY <1>1, AppendProperties

LEMMA ReceivedFacts ==
    ASSUME TypeOK, NEW type, Receive(type)
    PROVE  /\ Head(inbox) = inbox[1] /\ 1 \in 1 .. Len(inbox) /\ inbox[1].type = type
           /\ inbox[1].actor \in Actor
           /\ DOMAIN inbox' = 1 .. Len(inbox') /\ Len(inbox') = Len(inbox) - 1
           /\ \A i \in 1 .. Len(inbox') :
                 i + 1 \in 1 .. Len(inbox) /\ i + 1 # 1 /\ inbox'[i] = inbox[i + 1]
           /\ \A i \in 1 .. Len(inbox) : i # 1 =>
                 i - 1 \in 1 .. Len(inbox') /\ inbox'[i - 1] = inbox[i]
<1>1. inbox \in Seq(Message) /\ inbox # <<>> /\ inbox' = Tail(inbox) /\ Head(inbox).type = type
  BY DEF Receive, TypeOK
<1>2. /\ Head(inbox) = inbox[1] /\ Len(inbox) \in Nat \ {0}
      /\ Tail(inbox) \in Seq(Message) /\ Len(Tail(inbox)) = Len(inbox) - 1
      /\ \A i \in 1 .. Len(Tail(inbox)) : Tail(inbox)[i] = inbox[i + 1]
  BY <1>1, HeadTailProperties, LenProperties, EmptySeq
<1>3. DOMAIN inbox' = 1 .. Len(inbox')
  BY <1>1, <1>2, LenProperties
<1>4. ASSUME NEW i \in 1 .. Len(inbox), i # 1
      PROVE  i - 1 \in 1 .. Len(inbox') /\ inbox'[i - 1] = inbox[i]
  <2>1. i - 1 \in 1 .. Len(Tail(inbox)) /\ (i - 1) + 1 = i
    BY <1>2, <1>4
  <2>2. Tail(inbox)[i - 1] = inbox[(i - 1) + 1]
    BY <1>2, <2>1
  <2>. QED BY <1>1, <2>1, <2>2
<1>5. 1 \in 1 .. Len(inbox)
  BY <1>2
<1>6. inbox[1].actor \in Actor
  BY <1>5, InboxFacts
<1>. QED BY <1>1, <1>2, <1>3, <1>4, <1>5, <1>6

\* What neither sends a call nor answers one, and lets nobody die.
LEMMA CallsWait ==
    ASSUME CallsInv, UNCHANGED <<status, waiting, inbox>>,
           \A a \in Actor : life'[a] = "Dead" <=> life[a] = "Dead"
    PROVE  OneCall' /\ CallsAreQueued'
<1>1. \A i \in 1 .. Len(inbox) : inbox[i].actor \in Actor
  BY InboxFacts DEF CallsInv
<1>. QED BY <1>1 DEF CallsInv, OneCall, CallsAreQueued, IsCall

LEMMA CallsPassed ==
    ASSUME CallsInv, NEW m \in Message, inbox' = Append(inbox, m), ~IsCall(m),
           UNCHANGED <<status, waiting, life>>
    PROVE  OneCall' /\ CallsAreQueued'
<1>1. /\ DOMAIN inbox' = 1 .. Len(inbox) + 1 /\ Len(inbox') = Len(inbox) + 1
      /\ inbox'[Len(inbox) + 1] = m /\ m.actor \in Actor
      /\ \A i \in 1 .. Len(inbox) : inbox'[i] = inbox[i]
      /\ DOMAIN inbox = 1 .. Len(inbox) /\ Len(inbox) \in Nat
  BY SentFacts, InboxFacts DEF CallsInv
<1>2. \A i \in 1 .. Len(inbox') : IsCall(inbox'[i]) => i \in 1 .. Len(inbox)
  BY <1>1
<1>3. OneCall'
  BY <1>1, <1>2 DEF CallsInv, OneCall
<1>4. CallsAreQueued'
  BY <1>1 DEF CallsInv, CallsAreQueued
<1>. QED BY <1>3, <1>4

LEMMA CallsJoined ==
    ASSUME CallsInv, NEW a \in Actor, NEW kind \in {"Ping", "Stats"}, Call(a, kind)
    PROVE  OneCall' /\ CallsAreQueued'
<1> DEFINE m == [type |-> kind, actor |-> a]
           n == Len(inbox) + 1
<1>0. m \in Message /\ m.type = kind /\ m.actor = a
  BY DEF Message
<1>1. /\ DOMAIN inbox' = 1 .. n /\ Len(inbox') = n /\ inbox'[n] = m
      /\ \A i \in 1 .. Len(inbox) : inbox'[i] = inbox[i] /\ inbox[i].actor \in Actor
      /\ DOMAIN inbox = 1 .. Len(inbox) /\ Len(inbox) \in Nat
  BY <1>0, SentFacts, InboxFacts DEF CallsInv, Call, Request
<1>2. /\ life[a] # "Dead" /\ waiting[a] = "No" /\ status = "Running"
      /\ waiting'[a] = kind /\ \A b \in Actor \ {a} : waiting'[b] = waiting[b]
      /\ UNCHANGED <<status, life>>
  BY DEF Call, Request, serverVars, CallsInv, TypeOK
<1>3. \A i \in 1 .. Len(inbox) : ~(IsCall(inbox[i]) /\ inbox[i].actor = a)
  BY <1>2 DEF CallsInv, OneCall, IsCall
<1> HIDE DEF m, n
<1>4. \A i \in 1 .. n : i = n \/ i \in 1 .. Len(inbox)
  BY <1>1 DEF n
<1>5. OneCall'
  <2>1. ASSUME NEW i \in 1 .. n, IsCall(inbox'[i]), life'[inbox'[i].actor] # "Dead"
        PROVE  waiting'[inbox'[i].actor] = inbox'[i].type
    BY <1>0, <1>1, <1>2, <1>3, <1>4, <2>1 DEF CallsInv, OneCall
  <2>2. ASSUME NEW i \in 1 .. n, NEW j \in 1 .. n, IsCall(inbox'[i]), IsCall(inbox'[j]),
               inbox'[i].actor = inbox'[j].actor, life'[inbox'[i].actor] # "Dead"
        PROVE  i = j
    <3>1. CASE i # n /\ j # n
      BY <1>1, <1>2, <1>4, <2>2, <3>1 DEF CallsInv, OneCall
    <3>2. CASE i = n \/ j = n
      BY <1>0, <1>1, <1>3, <1>4, <2>2, <3>2
    <3>. QED BY <3>1, <3>2
  <2>3. \A b \in Actor : waiting'[b] # "No" => life'[b] # "Dead"
    BY <1>2 DEF CallsInv, OneCall
  <2>. QED BY <1>1, <2>1, <2>2, <2>3 DEF OneCall
<1>6. CallsAreQueued'
  <2>1. ASSUME NEW b \in Actor, waiting'[b] # "No"
        PROVE  \E i \in 1 .. n : inbox'[i] = [type |-> waiting'[b], actor |-> b]
    <3>1. CASE b = a
      BY <1>1, <1>2, <3>1 DEF m, n
    <3>2. CASE b # a
      BY <1>1, <1>2, <2>1, <3>2 DEF CallsInv, CallsAreQueued, n
    <3>. QED BY <3>1, <3>2
  <2>. QED BY <1>1, <1>2, <2>1 DEF CallsAreQueued
<1>. QED BY <1>5, <1>6

\* The caller is resumed exactly when its call leaves the inbox.
LEMMA CallsTaken ==
    ASSUME CallsInv, NEW type, Receive(type), UNCHANGED status,
           \A a \in Actor : life'[a] = "Dead" <=> life[a] = "Dead",
           IF type \in {"Ping", "Stats"} THEN waiting' = Resumed(Head(inbox).actor)
           ELSE UNCHANGED waiting
    PROVE  OneCall' /\ CallsAreQueued'
<1> DEFINE h == inbox[1].actor
<1>1. /\ Head(inbox) = inbox[1] /\ 1 \in 1 .. Len(inbox) /\ inbox[1].type = type
      /\ h \in Actor
      /\ DOMAIN inbox' = 1 .. Len(inbox') /\ DOMAIN inbox = 1 .. Len(inbox)
      /\ \A i \in 1 .. Len(inbox') :
            i + 1 \in 1 .. Len(inbox) /\ i + 1 # 1 /\ inbox'[i] = inbox[i + 1]
      /\ \A i \in 1 .. Len(inbox) : i # 1 =>
            i - 1 \in 1 .. Len(inbox') /\ inbox'[i - 1] = inbox[i]
      /\ \A i \in 1 .. Len(inbox) : inbox[i].actor \in Actor
  BY ReceivedFacts, InboxFacts DEF CallsInv
<1>2. /\ \A b \in Actor : b = h /\ type \in {"Ping", "Stats"} => waiting'[b] = "No"
      /\ \A b \in Actor : b # h \/ type \notin {"Ping", "Stats"} => waiting'[b] = waiting[b]
  BY <1>1 DEF Resumed, CallsInv, TypeOK
<1>3. ASSUME NEW i \in 1 .. Len(inbox), i # 1, IsCall(inbox[i]), life[inbox[i].actor] # "Dead"
      PROVE  waiting'[inbox[i].actor] = waiting[inbox[i].actor]
  <2>1. type \in {"Ping", "Stats"} => inbox[i].actor # h
    BY <1>1, <1>3 DEF CallsInv, OneCall, IsCall
  <2>. QED BY <1>1, <1>2, <2>1
<1> HIDE DEF h
<1>4. OneCall'
  <2>1. ASSUME NEW i \in 1 .. Len(inbox'), IsCall(inbox'[i]), life'[inbox'[i].actor] # "Dead"
        PROVE  waiting'[inbox'[i].actor] = inbox'[i].type
    <3>1. i + 1 \in 1 .. Len(inbox) /\ i + 1 # 1 /\ inbox'[i] = inbox[i + 1]
      BY <1>1
    <3>2. waiting[inbox[i + 1].actor] = inbox[i + 1].type
      BY <1>1, <2>1, <3>1 DEF CallsInv, OneCall
    <3>. QED BY <1>1, <1>3, <2>1, <3>1, <3>2
  <2>2. ASSUME NEW i \in 1 .. Len(inbox'), NEW j \in 1 .. Len(inbox'), IsCall(inbox'[i]),
               IsCall(inbox'[j]), inbox'[i].actor = inbox'[j].actor, life'[inbox'[i].actor] # "Dead"
        PROVE  i = j
    <3>1. i + 1 = j + 1
      BY <1>1, <2>2 DEF CallsInv, OneCall
    <3>. QED BY <3>1
  <2>3. \A b \in Actor : waiting'[b] # "No" => life'[b] # "Dead"
    BY <1>2 DEF CallsInv, OneCall
  <2>. QED BY <2>1, <2>2, <2>3 DEF OneCall
<1>5. CallsAreQueued'
  <2>1. ASSUME NEW b \in Actor, waiting'[b] # "No"
        PROVE  /\ status = "Running"
               /\ \E i \in 1 .. Len(inbox') : inbox'[i] = [type |-> waiting'[b], actor |-> b]
    <3>1. waiting'[b] = waiting[b] /\ (b = h => type \notin {"Ping", "Stats"})
      BY <1>2, <2>1
    <3>2. PICK i \in 1 .. Len(inbox) : inbox[i] = [type |-> waiting[b], actor |-> b]
      BY <1>1, <2>1, <3>1 DEF CallsInv, CallsAreQueued
    <3>3. waiting[b] \in {"Ping", "Stats"}
      BY <2>1, <3>1 DEF CallsInv, TypeOK
    <3>4. i # 1
      BY <1>1, <3>1, <3>2, <3>3 DEF h
    <3>5. status = "Running"
      BY <2>1, <3>1 DEF CallsInv, CallsAreQueued
    <3>. QED BY <1>1, <3>1, <3>2, <3>4, <3>5
  <2>. QED BY <1>1, <2>1 DEF CallsAreQueued
<1>. QED BY <1>4, <1>5

LEMMA CallsStep == ASSUME WatchdogAssumption, CallsInv, [Next]_vars PROVE OneCall' /\ CallsAreQueued'
<1> USE DEF serverVars, portVars, timerVars, actorVars
<1>0. TypeOK
  BY DEF CallsInv
<1>1. CASE UNCHANGED <<status, waiting, inbox, life>>
  BY <1>1, CallsWait
<1>2. ASSUME NEW a \in Actor, NEW d \in Timeouts, NEW s \in Strategy, CastRegister(a, d, s)
      PROVE  OneCall' /\ CallsAreQueued'
  <2> DEFINE m == [type |-> "Register", actor |-> a, timeout |-> d, strategy |-> s]
  <2>1. m \in Message /\ ~IsCall(m)
    BY DEF Message, IsCall
  <2>. QED BY <1>2, <2>1, CallsPassed DEF CastRegister, Request
<1>3. ASSUME NEW a \in Actor, CastUnregister(a) PROVE OneCall' /\ CallsAreQueued'
  <2> DEFINE m == [type |-> "Unregister", actor |-> a]
  <2>1. m \in Message /\ ~IsCall(m)
    BY DEF Message, IsCall
  <2>. QED BY <1>3, <2>1, CallsPassed DEF CastUnregister, Request
<1>4. ASSUME NEW t \in timers, Fire(t) PROVE OneCall' /\ CallsAreQueued'
  <2> DEFINE m == [type |-> "Timeout", actor |-> t.actor]
  <2>1. m \in Message /\ ~IsCall(m)
    BY <1>0 DEF TypeOK, Message, IsCall
  <2>. QED BY <1>1, <1>4, <2>1, CallsPassed DEF Fire, Delivered
<1>5. CASE HandleRegister \/ HandleUnregister
  BY <1>5, CallsTaken DEF HandleRegister, HandleUnregister
<1>6. CASE HandlePing
  BY <1>6, CallsTaken DEF HandlePing
<1>7. CASE HandleTimeout
  <2>1. \A a \in Actor : life'[a] = "Dead" <=> life[a] = "Dead"
    BY <1>0, <1>7 DEF HandleTimeout, TimeoutStrategy, Kill, Stop, TypeOK
  <2>. QED BY <1>7, <2>1, CallsTaken DEF HandleTimeout
<1>8. CASE Fail
  <2>1. Len(inbox') = 0 /\ \A a \in Actor : waiting'[a] = "No"
    BY <1>8, EmptySeq DEF Fail
  <2>. QED BY <2>1 DEF OneCall, CallsAreQueued
<1>9. CASE HandleStats
  BY <1>8, <1>9, CallsTaken DEF HandleStats
<1>10. CASE HandleSupervisorEvt
  BY <1>1, <1>10 DEF HandleSupervisorEvt
<1>11. ASSUME NEW a \in Actor, Die(a) PROVE OneCall' /\ CallsAreQueued'
  <2>1. /\ UNCHANGED <<inbox, status>>
        /\ life'[a] = "Dead" /\ \A b \in Actor \ {a} : life'[b] = life[b]
        /\ waiting'[a] = "No" /\ \A b \in Actor \ {a} : waiting'[b] = waiting[b]
    BY <1>0, <1>11 DEF Die, Resumed, TypeOK
  <2>2. \A i \in 1 .. Len(inbox) : inbox[i].actor \in Actor
    BY <1>0, InboxFacts
  <2>3. OneCall'
    BY <2>1, <2>2 DEF CallsInv, OneCall
  <2>4. CallsAreQueued'
    BY <2>1 DEF CallsInv, CallsAreQueued
  <2>. QED BY <2>3, <2>4
<1>12. CASE Tick \/ UNCHANGED vars
  BY <1>1, <1>12 DEF Tick, vars
<1>. QED
  BY <1>2, <1>3, <1>4, <1>5, <1>6, <1>7, <1>9, <1>10, <1>11, <1>12, CallsJoined
  DEF Next, Handle, CallPing, CallStats, Obey, Crash

\* An actor suspended in a call has its request in the inbox of a running watchdog.
THEOREM NobodyWaitsInVain == Spec => []CallsAreQueued
<1>1. Init => OneCall /\ CallsAreQueued
  BY EmptySeq DEF Init, OneCall, CallsAreQueued
<1>2. TypeOK /\ OneCall /\ CallsAreQueued /\ [Next]_vars => OneCall' /\ CallsAreQueued'
  BY CallsStep, WatchdogAssumption DEF CallsInv
<1>. QED BY <1>1, <1>2, TypeCorrect, PTL DEF Spec

-----------------------------------------------------------------------------
(* The watchdog is a registry.                                             *)

LEMMA EntryKept == UNCHANGED subjects => UNCHANGED Entry
BY DEF Entry

LEMMA EntryRemoved ==
    ASSUME NEW a, subjects' = Removed(a) PROVE Entry' = TheRegistry!Without(a)
BY DEF Entry, Removed, Restrict, TheRegistry!Without

EntryWith(a, s) == [b \in DOMAIN Entry \cup {a} |-> IF b = a THEN s ELSE Entry[b]]

LEMMA EntryInserted ==
    ASSUME NEW a, NEW r, subjects' = Inserted(a, r)
    PROVE  Entry' = EntryWith(a, r.strategy)
BY DEF Entry, Inserted, EntryWith

\* What is neither a registration, a call nor an end is not seen.
LEMMA RegistryRests ==
    ASSUME UNCHANGED <<status, subjects, kills, stops, life, waiting>>
    PROVE  UNCHANGED TheRegistry!vars
BY EntryKept DEF TheRegistry!vars

LEMMA PunishmentIsPunish ==
    ASSUME TypeOK, NEW a \in DOMAIN subjects, status = "Running", TimeoutStrategy(a),
           subjects' = Removed(a), UNCHANGED <<status, waiting>>
    PROVE  TheRegistry!Punish(a)
<1>1. a \in DOMAIN Entry /\ Entry[a] = subjects[a].strategy
  BY DEF Entry
<1>2. Entry' = TheRegistry!Without(a)
  BY EntryRemoved
<1>. QED BY <1>1, <1>2 DEF TheRegistry!Punish, TimeoutStrategy, Kill, Stop

\* The call that is taken from the inbox is the one its sender is in, unless it died.
LEMMA CallIsOpen ==
    ASSUME CallsInv, NEW type \in {"Ping", "Stats"}, inbox # <<>>, Head(inbox).type = type
    PROVE  /\ Head(inbox).actor \in Actor
           /\ \/ waiting[Head(inbox).actor] = type
              \/ waiting[Head(inbox).actor] = "No" /\ life[Head(inbox).actor] = "Dead"
<1>1. Head(inbox) = inbox[1] /\ 1 \in 1 .. Len(inbox) /\ inbox[1].actor \in Actor
  <2>1. inbox \in Seq(Message) /\ Len(inbox) \in Nat
    BY LenProperties DEF CallsInv, TypeOK
  <2>2. Head(inbox) = inbox[1] /\ 1 \in 1 .. Len(inbox)
    BY <2>1, EmptySeq, HeadTailProperties
  <2>. QED BY <2>2, InboxFacts DEF CallsInv
<1>2. IsCall(inbox[1])
  BY <1>1 DEF IsCall
<1>. QED BY <1>1, <1>2 DEF CallsInv, OneCall

LEMMA HandlePingIsAnswer ==
    ASSUME CallsInv, HandlePing PROVE TheRegistry!Next \/ UNCHANGED TheRegistry!vars
<1> PICK a : a = Head(inbox).actor
  OBVIOUS
<1>1. /\ status = "Running" /\ inbox # <<>> /\ Head(inbox).type = "Ping"
      /\ waiting' = [waiting EXCEPT ![a] = "No"]
      /\ UNCHANGED <<status, subjects, kills, stops, life>>
  BY DEF HandlePing, Receive, Resumed, serverVars
<1>2. a \in Actor /\ (waiting[a] = "Ping" \/ waiting[a] = "No")
  BY <1>1, CallIsOpen
<1>3. CASE waiting[a] = "No"
  <2>1. UNCHANGED waiting
    BY <1>1, <1>3, <1>2, Zenon DEF CallsInv, TypeOK
  <2>. QED BY <1>1, <2>1, RegistryRests
<1>4. CASE waiting[a] = "Ping"
  <2>1. TheRegistry!Answer(a, "Ping")
    BY <1>1, <1>4, EntryKept DEF TheRegistry!Answer
  <2>. QED BY <1>2, <2>1 DEF TheRegistry!Next
<1>. QED BY <1>2, <1>3, <1>4

LEMMA HandleStatsIsAnswerOrClose ==
    ASSUME CallsInv, HandleStats PROVE TheRegistry!Next
<1> PICK a : a = Head(inbox).actor
  OBVIOUS
<1>1. status = "Running" /\ inbox # <<>> /\ Head(inbox).type = "Stats"
  BY DEF HandleStats, Receive
<1>2. a \in Actor /\ (waiting[a] = "Stats" \/ life[a] = "Dead")
  BY <1>1, CallIsOpen
<1>3. CASE waiting[a] = "Stats"
  <2>1. TheRegistry!Answer(a, "Stats")
    BY <1>1, <1>3, EntryKept DEF HandleStats, Resumed, serverVars, TheRegistry!Answer
  <2>. QED BY <1>2, <2>1 DEF TheRegistry!Next
<1>4. CASE waiting[a] # "Stats"
  <2>1. Fail /\ life[a] = "Dead"
    BY <1>2, <1>4 DEF HandleStats
  <2>2. Entry' = TheRegistry!Empty
    BY <2>1 DEF Fail, Entry, TheRegistry!Empty
  <2>3. TheRegistry!Close(a)
    BY <1>1, <2>1, <2>2 DEF Fail, TheRegistry!Close
  <2>. QED BY <1>2, <2>3 DEF TheRegistry!Next
<1>. QED BY <1>3, <1>4

LEMMA HandlerIsRegistry ==
    ASSUME CallsInv, Handle PROVE TheRegistry!Next \/ UNCHANGED TheRegistry!vars
<1> USE DEF serverVars, portVars, timerVars, actorVars
<1>0. TypeOK
  BY DEF CallsInv
<1>1. CASE HandleRegister
  <2> PICK m : m = Head(inbox)
    OBVIOUS
  <2> PICK r : r = [timeout |-> m.timeout, strategy |-> m.strategy, timer |-> nextTimer]
    OBVIOUS
  <2>1. m = inbox[1] /\ m.actor \in Actor /\ m.type = "Register" /\ m \in Message
    BY <1>0, <1>1, ReceivedFacts, InboxFacts DEF HandleRegister
  <2>2. m.strategy \in Strategy /\ r.strategy = m.strategy
    BY <2>1 DEF Message
  <2>3. subjects' = Inserted(m.actor, r)
    BY <1>1 DEF HandleRegister
  <2>4. Entry' = EntryWith(m.actor, m.strategy)
    BY <2>2, <2>3, EntryInserted
  <2>5. status = "Running" /\ UNCHANGED <<status, kills, stops, life, waiting>>
    BY <1>1 DEF HandleRegister, Receive
  <2>6. TheRegistry!Enter(m.actor, m.strategy)
    BY <2>4, <2>5 DEF EntryWith, TheRegistry!Enter
  <2>. QED BY <2>1, <2>2, <2>6 DEF TheRegistry!Next, Strategy
<1>2. ASSUME NEW a \in Actor, status = "Running", Unregister(a),
             UNCHANGED <<status, kills, stops, life, waiting>>
      PROVE  TheRegistry!Next
  <2>1. TheRegistry!Leave(a)
    BY <1>2, EntryRemoved DEF Unregister, TheRegistry!Leave
  <2>. QED BY <2>1 DEF TheRegistry!Next
<1>3. CASE HandleUnregister
  <2>1. Head(inbox).actor \in Actor
    BY <1>0, <1>3, ReceivedFacts DEF HandleUnregister
  <2>. QED BY <1>2, <1>3, <2>1 DEF HandleUnregister, Receive
<1>4. CASE HandleSupervisorEvt
  <2>1. Head(sup) \in Actor
    BY <1>0, <1>4, HeadTailProperties DEF HandleSupervisorEvt, TypeOK
  <2>. QED BY <1>2, <1>4, <2>1 DEF HandleSupervisorEvt
<1>5. CASE HandleTimeout
  <2> PICK a : a = Head(inbox).actor
    OBVIOUS
  <2>1. a \in Actor
    BY <1>0, <1>5, ReceivedFacts DEF HandleTimeout
  <2>2. CASE a \in DOMAIN subjects
    <3>1. TheRegistry!Punish(a)
      BY <1>0, <1>5, <2>2, PunishmentIsPunish DEF HandleTimeout, Receive
    <3>. QED BY <2>1, <3>1 DEF TheRegistry!Next
  <2>3. CASE a \notin DOMAIN subjects
    BY <1>5, <2>3, RegistryRests DEF HandleTimeout
  <2>. QED BY <2>2, <2>3
<1>. QED BY <1>1, <1>3, <1>4, <1>5, HandlePingIsAnswer, HandleStatsIsAnswerOrClose DEF Handle

LEMMA StepIsRegistry ==
    ASSUME CallsInv, [Next]_vars PROVE [TheRegistry!Next]_(TheRegistry!vars)
<1> USE DEF serverVars, portVars, timerVars, actorVars
<1>1. CASE UNCHANGED vars
  BY <1>1, RegistryRests DEF vars
<1>2. ASSUME NEW a \in Actor, NEW kind \in {"Ping", "Stats"}, Call(a, kind) PROVE TheRegistry!Next
  <2>1. TheRegistry!Ask(a, kind)
    BY <1>2, EntryKept DEF Call, Request, TheRegistry!Ask
  <2>. QED BY <2>1 DEF TheRegistry!Next
<1>3. ASSUME NEW a \in Actor, Obey(a) \/ Crash(a) PROVE TheRegistry!Next
  <2>1. life[a] # "Dead" /\ Die(a)
    BY <1>3 DEF Obey, Crash
  <2>2. TheRegistry!End(a)
    BY <2>1, EntryKept DEF Die, Resumed, TheRegistry!End
  <2>. QED BY <2>2 DEF TheRegistry!Next
<1>4. CASE \/ \E a \in Actor, d \in Timeouts, s \in Strategy : CastRegister(a, d, s)
           \/ \E a \in Actor : CastUnregister(a)
           \/ Tick \/ \E t \in timers : Fire(t)
  BY <1>4, RegistryRests DEF CastRegister, CastUnregister, Tick, Fire
<1>. QED BY <1>1, <1>2, <1>3, <1>4, HandlerIsRegistry DEF Next, CallPing, CallStats

\* The watchdog and the actors that use it implement the abstract registry.
THEOREM WatchdogIsRegistry == Spec => ImplementsRegistry
<1>1. Init => CallsInv /\ TheRegistry!Init
  <2> SUFFICES ASSUME Init PROVE CallsInv /\ TheRegistry!Init
    OBVIOUS
  <2>1. Entry = TheRegistry!Empty
    BY DEF Init, Entry, TheRegistry!Empty
  <2>2. TypeOK /\ OneCall /\ CallsAreQueued
    BY InitTypeOK, WatchdogAssumption, EmptySeq DEF Init, OneCall, CallsAreQueued
  <2>. QED BY <2>1, <2>2 DEF Init, CallsInv, TheRegistry!Init
<1>2. WatchdogAssumption /\ CallsInv /\ TypeOK' /\ [Next]_vars =>
        CallsInv' /\ [TheRegistry!Next]_(TheRegistry!vars)
  BY CallsStep, StepIsRegistry DEF CallsInv
<1>. QED BY <1>1, <1>2, TypeCorrect, WatchdogAssumption, PTL DEF Spec, ImplementsRegistry, TheRegistry!Spec
=============================================================================
