------------------------------ MODULE Watchdog ------------------------------
(***************************************************************************)
(* The watchdog actor of ractor_actors (watchdog/mod.rs, watchdog/impl.rs) *)
(* together with the actors that use it.                                   *)
(*                                                                         *)
(* An actor registers with a period and has to ping within it; the one     *)
(* global watchdog actor keeps a table of registrations, arms one runtime  *)
(* timer per Register and per Ping, and kills or stops a subject when a    *)
(* Timeout message of one of its timers is handled.                        *)
(*                                                                         *)
(* ractor delivers supervision events before messages and handles one at   *)
(* a time; a killed actor dies at its next await, a stopped one after the  *)
(* handler it is in; when the watchdog fails its linked actors are killed. *)
(***************************************************************************)
EXTENDS Integers, Sequences, FiniteSets, Functions

CONSTANTS Actor,     \* actors that may be watched, each the caller of its own requests
          Linked,    \* the actors supervised by the watchdog (none through the public API)
          Timeouts,  \* the periods a Register may carry, in ticks
          Requests   \* bound: how many requests are sent in all

Strategy == {"Kill", "Stop"}

ASSUME WatchdogAssumption ==
    /\ Linked \subseteq Actor
    /\ Timeouts \subseteq Nat
    /\ Requests \in Nat

VARIABLES
    status,        \* "Running", or "Failed" once a handler returned an error
    subjects,      \* the registrations, a function on the registered actors
    kills, stops,  \* what the watchdog did on timeouts
    inbox,         \* the message port of the watchdog
    sup,           \* its supervision port: the linked actors that terminated
    timers,        \* the pending send_after tasks
    nextTimer,     \* identifies the next JoinHandle
    life,          \* of each actor: Running, told to stop, killed or dead
    waiting,       \* the call to the watchdog each actor is suspended in
    registrations, \* history: Register messages handled
    budget         \* requests still to be sent

serverVars == <<status, subjects, kills, stops, registrations>>
portVars == <<inbox, sup>>
timerVars == <<timers, nextTimer>>
actorVars == <<life, waiting>>
vars == <<serverVars, portVars, timerVars, actorVars, budget>>

Registration == [timeout : Nat, strategy : Strategy, timer : Nat]
Message == [type : {"Register"}, actor : Actor, timeout : Timeouts, strategy : Strategy]
           \cup [type : {"Unregister", "Ping", "Timeout", "Stats"}, actor : Actor]

TypeOK ==
    /\ status \in {"Running", "Failed"}
    /\ DOMAIN subjects \subseteq Actor
    /\ subjects \in [DOMAIN subjects -> Registration]
    /\ kills \in Nat /\ stops \in Nat /\ registrations \in Nat
    /\ inbox \in Seq(Message)
    /\ sup \in Seq(Actor)
    /\ timers \subseteq [id : Nat, actor : Actor, left : Nat]
    /\ nextTimer \in Nat
    /\ life \in [Actor -> {"Running", "Stopping", "Killed", "Dead"}]
    /\ waiting \in [Actor -> {"No", "Ping", "Stats"}]
    /\ budget \in Nat

Init ==
    /\ status = "Running"
    /\ subjects = [a \in {} |-> 0]
    /\ kills = 0 /\ stops = 0 /\ registrations = 0
    /\ inbox = <<>>
    /\ sup = <<>>
    /\ timers = {}
    /\ nextTimer = 0
    /\ life = [a \in Actor |-> "Running"]
    /\ waiting = [a \in Actor |-> "No"]
    /\ budget = Requests

-----------------------------------------------------------------------------
(* The table and the timers.                                               *)

\* Mutant: the timer is armed with a margin, and the subtraction underflows.
TimerEarly(a, d) == [id |-> nextTimer, actor |-> a, left |-> d - 2]

Timer(a, d) == [id |-> nextTimer, actor |-> a, left |-> d]

\* JoinHandle::abort on the timer stored in a's registration.
Aborted(a) == {t \in timers : ~(a \in DOMAIN subjects /\ t.id = subjects[a].timer)}

Inserted(a, r) == [b \in DOMAIN subjects \cup {a} |-> IF b = a THEN r ELSE subjects[b]]
\* Mutant: the registration outlives its timeout.
RemovedNot(a) == subjects
Removed(a) == Restrict(subjects, DOMAIN subjects \ {a})

\* WatchdogState::unregister
Unregister(a) == subjects' = Removed(a) /\ timers' = Aborted(a)

-----------------------------------------------------------------------------
(* The callers.  The public functions build a message and cast or call.    *)

Request(m) ==
    /\ status = "Running"
    /\ budget > 0
    /\ budget' = budget - 1
    /\ inbox' = Append(inbox, m)

\* Anybody may register an actor, also one that is already dead.
CastRegister(a, d, s) ==
    /\ Request([type |-> "Register", actor |-> a, timeout |-> d, strategy |-> s])
    /\ UNCHANGED <<serverVars, sup, timerVars, actorVars>>

CastUnregister(a) ==
    /\ Request([type |-> "Unregister", actor |-> a])
    /\ UNCHANGED <<serverVars, sup, timerVars, actorVars>>

\* ping and stats are calls without a timeout: the caller waits for the reply.
Call(a, kind) ==
    /\ life[a] # "Dead" /\ waiting[a] = "No"
    /\ Request([type |-> kind, actor |-> a])
    /\ waiting' = [waiting EXCEPT ![a] = kind]
    /\ UNCHANGED <<serverVars, sup, timerVars, life>>

CallPing(a) == Call(a, "Ping")
CallStats(a) == Call(a, "Stats")

-----------------------------------------------------------------------------
(* Time.  Ticks may outrun the runtime: an expired timer fires late.       *)

Elapsed(t) == [t EXCEPT !.left = IF @ > 0 THEN @ - 1 ELSE 0]

Tick ==
    /\ \E t \in timers : t.left > 0
    /\ timers' = {Elapsed(t) : t \in timers}
    /\ UNCHANGED <<serverVars, portVars, nextTimer, actorVars, budget>>

\* A send to an actor that is gone fails, and the timer task drops the error.
Delivered(m) == IF status = "Running" THEN Append(inbox, m) ELSE inbox

Fire(t) ==
    /\ t.left = 0
    /\ timers' = timers \ {t}
    /\ inbox' = Delivered([type |-> "Timeout", actor |-> t.actor])
    /\ UNCHANGED <<serverVars, sup, nextTimer, actorVars, budget>>

-----------------------------------------------------------------------------
(* The watchdog's handlers.                                                *)

Receive(type) ==
    /\ status = "Running" /\ sup = <<>>
    /\ inbox # <<>> /\ Head(inbox).type = type
    /\ inbox' = Tail(inbox)

\* The timer of a registration that is replaced is detached, not aborted.
HandleRegister ==
    /\ Receive("Register")
    /\ LET m == Head(inbox)
       IN  /\ timers' = timers \cup {Timer(m.actor, m.timeout)}
           /\ subjects' = Inserted(m.actor, [timeout |-> m.timeout, strategy |-> m.strategy,
                                             timer |-> nextTimer])
    /\ nextTimer' = nextTimer + 1
    /\ registrations' = registrations + 1
    /\ UNCHANGED <<status, kills, stops, sup, actorVars, budget>>

HandleUnregister ==
    /\ Receive("Unregister")
    /\ Unregister(Head(inbox).actor)
    /\ UNCHANGED <<status, kills, stops, registrations, sup, nextTimer, actorVars, budget>>

\* The new timer's handle is dropped: subjects keeps the aborted one's id.
\* Mutant: a ping only aborts the running timer.
RearmedNot(a) == Aborted(a)

Rearmed(a) == Aborted(a) \cup {Timer(a, subjects[a].timeout)}

\* Mutant: the reply port of an unregistered caller is kept.
ResumedIfKnown(a) == [waiting EXCEPT ![a] = IF a \in DOMAIN subjects THEN "No" ELSE @]

\* The caller goes on when the reply arrives, and also when its port is dropped.
Resumed(a) == [waiting EXCEPT ![a] = "No"]

HandlePing ==
    /\ Receive("Ping")
    /\ LET a == Head(inbox).actor
       IN  /\ \/ a \in DOMAIN subjects /\ timers' = Rearmed(a) /\ nextTimer' = nextTimer + 1
              \/ a \notin DOMAIN subjects /\ UNCHANGED timerVars
           /\ waiting' = Resumed(a)
    /\ UNCHANGED <<serverVars, sup, life, budget>>

\* ActorCell::kill and ActorCell::stop: a kill overrides a stop, the dead stay dead.
Kill(a) == life' = [life EXCEPT ![a] = IF @ = "Dead" THEN @ ELSE "Killed"]
Stop(a) == life' = [life EXCEPT ![a] = IF @ = "Running" THEN "Stopping" ELSE @]

TimeoutStrategy(a) ==
    \/ subjects[a].strategy = "Kill" /\ Kill(a) /\ kills' = kills + 1 /\ UNCHANGED stops
    \/ subjects[a].strategy = "Stop" /\ Stop(a) /\ stops' = stops + 1 /\ UNCHANGED kills

HandleTimeout ==
    /\ Receive("Timeout")
    /\ LET a == Head(inbox).actor
       IN  \/ a \in DOMAIN subjects /\ TimeoutStrategy(a) /\ subjects' = Removed(a)
           \/ a \notin DOMAIN subjects /\ UNCHANGED <<subjects, kills, stops, life>>
    /\ UNCHANGED <<status, registrations, sup, timerVars, waiting, budget>>

\* A handler error ends the watchdog: its state and ports are dropped (which
\* resumes every caller), its timers are detached, its children are killed.
Fail ==
    /\ status' = "Failed"
    /\ subjects' = [a \in {} |-> 0]
    /\ inbox' = <<>> /\ sup' = <<>>
    /\ waiting' = [a \in Actor |-> "No"]
    /\ life' = [a \in Actor |-> IF a \in Linked /\ life[a] # "Dead" THEN "Killed" ELSE life[a]]
    /\ UNCHANGED <<kills, stops, registrations, timerVars, budget>>

\* The reply fails, and with it the handler, when the caller died in the call.
HandleStats ==
    LET a == Head(inbox).actor
    IN  \/ /\ Receive("Stats")
           /\ waiting[a] = "Stats"
           /\ waiting' = Resumed(a)
           /\ UNCHANGED <<serverVars, sup, timerVars, life, budget>>
        \/ /\ status = "Running" /\ sup = <<>>
           /\ inbox # <<>> /\ Head(inbox).type = "Stats"
           /\ waiting[a] # "Stats"
           /\ Fail

HandleSupervisorEvt ==
    /\ status = "Running" /\ sup # <<>>
    /\ sup' = Tail(sup)
    /\ Unregister(Head(sup))
    /\ UNCHANGED <<status, kills, stops, registrations, inbox, nextTimer, actorVars, budget>>

Handle ==
    \/ HandleRegister \/ HandleUnregister \/ HandlePing
    \/ HandleTimeout \/ HandleStats \/ HandleSupervisorEvt

-----------------------------------------------------------------------------
(* The watched actors.                                                     *)

\* ActorTerminated and ActorFailed are handled alike by the watchdog.
Die(a) ==
    /\ life' = [life EXCEPT ![a] = "Dead"]
    /\ waiting' = Resumed(a)
    /\ sup' = IF a \in Linked /\ status = "Running" THEN Append(sup, a) ELSE sup
    /\ UNCHANGED <<serverVars, inbox, timerVars, budget>>

\* A kill ends the actor inside a call; a stop waits for the call to return.
Obey(a) ==
    /\ life[a] = "Killed" \/ (life[a] = "Stopping" /\ waiting[a] = "No")
    /\ Die(a)

\* The actor ends for a reason of its own, at any point it has reached.
Crash(a) == life[a] \in {"Running", "Stopping"} /\ Die(a)

-----------------------------------------------------------------------------
Next ==
    \/ \E a \in Actor, d \in Timeouts, s \in Strategy : CastRegister(a, d, s)
    \/ \E a \in Actor : CastUnregister(a) \/ CallPing(a) \/ CallStats(a)
    \/ Tick \/ \E t \in timers : Fire(t)
    \/ Handle
    \/ \E a \in Actor : Obey(a) \/ Crash(a)

\* The runtime runs the watchdog's loop, the timers and the actors; nobody has
\* to send a request.
Fairness ==
    /\ WF_vars(Handle)
    /\ WF_vars(Tick)
    /\ WF_vars(\E t \in timers : Fire(t))
    /\ \A a \in Actor : WF_vars(Obey(a))

Spec == Init /\ [][Next]_vars /\ Fairness

-----------------------------------------------------------------------------
(* Properties.                                                             *)

HasTimer(a) == \E t \in timers : t.actor = a
TimeoutQueued(a) == \E i \in DOMAIN inbox : inbox[i].type = "Timeout" /\ inbox[i].actor = a

\* No registration is ever forgotten: through every order of registering, pinging,
\* unregistering and firing, a registered subject has a timer that is still to
\* fire or a Timeout that is still to be handled (impl.rs register, ping, timeout).
Guarded ==
    status = "Running" => \A a \in DOMAIN subjects : HasTimer(a) \/ TimeoutQueued(a)

\* However many timers a subject has collected, and whichever of them are stale, a
\* registration is punished at most once: timeouts acted upon and registrations
\* still open never exceed the Registers handled (impl.rs timeout).
PunishedOnce == kills + stops + Cardinality(DOMAIN subjects) <= registrations

\* Nobody waits for an answer that cannot come: the request of an actor suspended in a
\* call is in the inbox of a watchdog that runs, whoever was answered, stopped, killed
\* or died in the meantime (mod.rs:167 ping and stats wait without a timeout).
CallsAreQueued ==
    \A a \in Actor : waiting[a] # "No" =>
        /\ status = "Running"
        /\ \E i \in DOMAIN inbox : inbox[i] = [type |-> waiting[a], actor |-> a]

Entry == [a \in DOMAIN subjects |-> subjects[a].strategy]

TheRegistry ==
    INSTANCE Registry WITH open <- status = "Running", entry <- Entry, call <- waiting

\* The watchdog is a Registry: in whatever order it handles registrations, stale and
\* orphaned timers, pings of strangers and of the dead, an entry is used up by the one
\* punishment carried out for it, nobody without one is stopped or killed, a caller
\* gets the answer to its own call, and only the death of a caller closes it (impl.rs).
ImplementsRegistry == TheRegistry!Spec

\* A registered actor that no longer pings is let go, by timeout or request, or
\* the watchdog has died.
RegistrationEnds ==
    \A a \in Actor : a \in DOMAIN subjects ~> a \notin DOMAIN subjects

\* A call to the watchdog always returns, also for an actor it does not know and
\* also when the watchdog dies with the request queued (mod.rs call, no timeout).
CallsReturn == \A a \in Actor : waiting[a] # "No" ~> waiting[a] = "No"

\* A subject told to end does end, although it may be suspended in a call to the
\* very watchdog that stops it.
PunishedActorsDie ==
    \A a \in Actor : life[a] \in {"Stopping", "Killed"} ~> life[a] = "Dead"

\* mod.rs:125 "Doing this within the timeout prevents the watchdog from terminating
\* the actor": the timer of a subject that registered once fires only if no later
\* one, which a ping has started, is still running.
OneDeadline ==
    [][registrations = 1 =>
        \A t, u \in timers : Fire(t) /\ t.actor \in DOMAIN subjects /\ u.actor = t.actor
                                => u.left = 0]_vars

\* The subjects that a step kills or stops.
Punished == IF kills' + stops' > kills + stops
            THEN DOMAIN subjects \ DOMAIN subjects' ELSE {}

\* mod.rs:18 "If an actor terminates for any reason before the watchdog fires, it is
\* simply cleaned up": no dead actor is punished.
DeadAreCleanedUp == [][\A a \in Punished : life[a] # "Dead"]_vars
=============================================================================
