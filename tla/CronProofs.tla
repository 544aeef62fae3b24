------------------------------ MODULE CronProofs ------------------------------
(***************************************************************************)
(* Proofs about Cron, for any number of names, schedules, subscribers and  *)
(* jobs: a job keeps its beat, the manager lists the schedule that a job   *)
(* runs on, and a subscriber hears of each end once.                       *)
(***************************************************************************)
EXTENDS Cron, SequenceTheorems, TLAPS

(***************************************************************************)
(* A Cron actor has one name at most and never gets another one: that is   *)
(* what makes the id in a supervision event, and the entry of the table,   *)
(* speak of one job.                                                       *)
(***************************************************************************)
OneName ==
    /\ \A n \in DOMAIN jobs : jobs[n].job <= spawned
    /\ \A m, n \in DOMAIN jobs : jobs[m].job = jobs[n].job => m = n

\* Nothing has been sent to a job that is not there yet.
Untouched == \A w \in Job : w > spawned => life[w] = "Unborn" /\ inbox[w] = <<>>

\* The job at w is about to run on s: the last update in its inbox says so, or there
\* is none and it does already.
RunsOn(w, s) ==
    \/ schedule[w] = s /\ \A i \in 1 .. Len(inbox[w]) : inbox[w][i].type # "UpdateSchedule"
    \/ \E i \in 1 .. Len(inbox[w]) :
          /\ inbox[w][i].type = "UpdateSchedule" /\ inbox[w][i].schedule = s
          /\ \A j \in i + 1 .. Len(inbox[w]) : inbox[w][j].type # "UpdateSchedule"

Agreed == \A n \in DOMAIN jobs : Alive(jobs[n].job) => RunsOn(jobs[n].job, jobs[n].schedule)

\* What a message says of its job is said once, and only of a job that has begun.
Begun(w) == life[w] \notin {"Unborn", "Starting"}
StartsOnce ==
    /\ \A i \in 1 .. Len(sup) : sup[i].type = "ActorStarted" => Begun(sup[i].job)
    /\ \A i, j \in 1 .. Len(sup) : sup[i].type = "ActorStarted" /\ sup[i] = sup[j] => i = j

\* A subscriber has heard nothing of w, only its start, or also its end; and then w
\* is not on the table any more.
NoStart(w) == \A i \in 1 .. Len(sup) : sup[i] # [type |-> "ActorStarted", job |-> w]
Heard(q, w) ==
    \/ q = <<>>
    \/ q = <<"started">> /\ Begun(w) /\ NoStart(w)
    \/ ~Listed(w) /\ w <= spawned
       /\ \A i, j \in 1 .. Len(q) : i < j => q[i] = "started" /\ q[j] # "started"

HeardInOrder == \A s \in Subscriber, w \in Job : Heard(told[s][w], w)

CronInv ==
    TypeOK /\ OneName /\ Untouched /\ KeepsBeating /\ Agreed /\ StartsOnce /\ HeardInOrder

-----------------------------------------------------------------------------
(* Types.                                                                  *)

LEMMA JobTypes ==
    ASSUME TypeOK, NEW w \in Job
    PROVE  /\ life[w] \in Life /\ asked[w] \in {"No", "Stop", "Kill"}
           /\ schedule[w] \in Schedule /\ handle[w] \in {"None", "Pending", "Spent"}
           /\ detached[w] \in Nat /\ inbox[w] \in Seq(Message) /\ Len(inbox[w]) \in Nat
           /\ \A s \in Subscriber : told[s][w] \in Seq(Notification)
BY LenProperties DEF TypeOK

LEMMA EntryTypes ==
    ASSUME TypeOK, NEW n \in DOMAIN jobs
    PROVE  n \in Name /\ jobs[n] \in Entry /\ jobs[n].job \in Job /\ jobs[n].schedule \in Schedule
BY DEF TypeOK, Entry

LEMMA MessageTypes ==
    /\ Execute \in Message
    /\ \A s \in Schedule : [type |-> "UpdateSchedule", schedule |-> s] \in Message
    /\ \A type \in {"ActorStarted", "ActorFailed", "ActorTerminated"}, w \in Job :
          [type |-> type, job |-> w] \in SupervisionEvent
    /\ \A m \in Message : m.type = "UpdateSchedule" => m.schedule \in Schedule
    /\ \A S : <<>> \in Seq(S)
BY EmptySeq DEF Execute, Message, SupervisionEvent

LEMMA DefaultTypes == ASSUME CronAssumption PROVE Default \in Schedule
BY DEF CronAssumption, Default

LEMMA UpcomingTypes ==
    ASSUME NEW s, NEW h \in Upcoming(s) PROVE h \in {"None", "Pending"}
BY DEF Upcoming

LEMMA TableTypes ==
    ASSUME TypeOK
    PROVE  /\ \A n \in Name, e \in Entry :
                  DOMAIN Inserted(n, e) \subseteq Name /\ Inserted(n, e) \in [DOMAIN Inserted(n, e) -> Entry]
           /\ \A n : DOMAIN Removed(n) \subseteq Name /\ Removed(n) \in [DOMAIN Removed(n) -> Entry]
           /\ DOMAIN NoJobs \subseteq Name /\ NoJobs \in [DOMAIN NoJobs -> Entry]
<1>1. \A n \in Name, e \in Entry :
          DOMAIN Inserted(n, e) \subseteq Name /\ Inserted(n, e) \in [DOMAIN Inserted(n, e) -> Entry]
  BY DEF Inserted, TypeOK
<1>2. \A n : DOMAIN Removed(n) \subseteq Name /\ Removed(n) \in [DOMAIN Removed(n) -> Entry]
  BY DEF Removed, Restrict, TypeOK
<1>3. DOMAIN NoJobs \subseteq Name /\ NoJobs \in [DOMAIN NoJobs -> Entry]
  BY DEF NoJobs
<1>. QED BY <1>1, <1>2, <1>3

LEMMA ToldTypes ==
    ASSUME TypeOK, NEW w \in Job, NEW what \in Notification
    PROVE  Notified(w, what) \in [Subscriber -> [Job -> Seq(Notification)]]
<1>1. ASSUME NEW s \in Subscriber PROVE [told[s] EXCEPT ![w] = Append(@, what)] \in [Job -> Seq(Notification)]
  <2>1. told[s] \in [Job -> Seq(Notification)]
    BY DEF TypeOK
  <2>2. Append(told[s][w], what) \in Seq(Notification)
    BY <2>1, AppendProperties
  <2>. QED BY <2>1, <2>2
<1>. QED BY <1>1 DEF Notified, TypeOK

LEMMA AskedTypes ==
    ASSUME TypeOK, NEW W PROVE Asked(W) \in [Job -> {"No", "Stop", "Kill"}]
BY DEF TypeOK, Asked

LEMMA SupTypes ==
    ASSUME TypeOK, NEW w \in Job, NEW type \in {"ActorStarted", "ActorFailed", "ActorTerminated"}
    PROVE  Reported(type, w) \in Seq(SupervisionEvent)
<1>1. sup \in Seq(SupervisionEvent) /\ [type |-> type, job |-> w] \in SupervisionEvent
  BY MessageTypes DEF TypeOK
<1>. QED BY <1>1, AppendProperties DEF Reported

LEMMA InitTyped == ASSUME CronAssumption, Init PROVE TypeOK
BY DefaultTypes, MessageTypes
   DEF CronAssumption, Init, TypeOK, NoJobs, Life

LEMMA ManagerTyped ==
    ASSUME CronAssumption, TypeOK,
           \/ \E n \in Name, s \in Schedule : Start(n, s) \/ SetSchedule(n, s)
           \/ \E n \in Name : Stop(n)
           \/ \E s \in Subscriber : Subscribe(s) \/ Unsubscribe(s)
           \/ HandleSupervisorEvt \/ StopManager \/ ManagerPostStop \/ ManagerExit
    PROVE  TypeOK'
<1> USE DEF managerVars, timerVars, jobVars, Set
<1>1. ASSUME NEW n \in Name, NEW s \in Schedule, Start(n, s) PROVE TypeOK'
  <2> DEFINE w == spawned + 1
  <2>1. w \in Job /\ spawned' = w /\ spawned' \in 0 .. Instances
    BY <1>1 DEF Start, TypeOK, CronAssumption, Job
  <2> HIDE DEF w
  <2>2. jobs' = Inserted(n, [schedule |-> s, job |-> w]) /\ [schedule |-> s, job |-> w] \in Entry
    BY <1>1, <2>1 DEF Start, w, Entry
  <2>3. DOMAIN jobs' \subseteq Name /\ jobs' \in [DOMAIN jobs' -> Entry]
    BY <2>2, TableTypes
  <2>4. /\ life' \in [Job -> Life] /\ schedule' \in [Job -> Schedule]
        /\ handle' \in [Job -> {"None", "Pending", "Spent"}]
    BY <1>1, <2>1, UpcomingTypes DEF Start, PreStart, w, Life, TypeOK
  <2>. QED BY <1>1, <2>1, <2>3, <2>4, Zenon DEF Start, TypeOK
<1>2. ASSUME Exit PROVE /\ manager' \in {"Running", "Stopping", "Exiting", "Down"}
                        /\ DOMAIN jobs' \subseteq Name /\ jobs' \in [DOMAIN jobs' -> Entry]
                        /\ subs' \subseteq Subscriber /\ sup' \in Seq(SupervisionEvent)
                        /\ asked' \in [Job -> {"No", "Stop", "Kill"}]
  BY <1>2, TableTypes, MessageTypes DEF Exit, TypeOK
<1>3. ASSUME NEW n \in Name, NEW s \in Schedule, SetSchedule(n, s) PROVE TypeOK'
  <2>1. n \in DOMAIN jobs /\ changes' \in Nat /\ jobs[n].job \in Job
    <3>1. n \in DOMAIN jobs /\ Change
      BY <1>3 DEF SetSchedule
    <3>2. changes' \in Nat
      BY <3>1 DEF Change, TypeOK
    <3>. QED BY <3>1, <3>2, EntryTypes
  <2>2. CASE /\ jobs' = Inserted(n, [schedule |-> s, job |-> jobs[n].job])
             /\ Set(inbox, jobs[n].job,
                    Append(inbox[jobs[n].job], [type |-> "UpdateSchedule", schedule |-> s]))
             /\ UNCHANGED <<manager, subs, sup, spawned, life, asked, schedule, timerVars, busy,
                            told>>
    <3>1. [schedule |-> s, job |-> jobs[n].job] \in Entry
      BY <2>1 DEF Entry
    <3>2. DOMAIN jobs' \subseteq Name /\ jobs' \in [DOMAIN jobs' -> Entry]
      BY <2>2, <3>1, TableTypes
    <3>3. Append(inbox[jobs[n].job], [type |-> "UpdateSchedule", schedule |-> s]) \in Seq(Message)
      BY <2>1, JobTypes, MessageTypes, AppendProperties
    <3>4. inbox' \in [Job -> Seq(Message)]
      BY <2>1, <2>2, <3>3 DEF TypeOK
    <3>. QED BY <2>1, <2>2, <3>2, <3>4, Zenon DEF TypeOK
  <2>3. CASE Exit
    BY <1>2, <2>1, <2>3, Zenon DEF Exit, TypeOK
  <2>. QED BY <1>3, <2>2, <2>3 DEF SetSchedule
<1>4. ASSUME NEW n \in Name, Stop(n) PROVE TypeOK'
  <2>1. n \in DOMAIN jobs /\ jobs[n].job \in Job
    BY <1>4, EntryTypes DEF Stop
  <2>2. told' \in [Subscriber -> [Job -> Seq(Notification)]]
    BY <1>4, <2>1, ToldTypes DEF Stop, Notification
  <2>3. DOMAIN jobs' \subseteq Name /\ jobs' \in [DOMAIN jobs' -> Entry]
    BY <1>4, TableTypes DEF Stop
  <2>4. asked' \in [Job -> {"No", "Stop", "Kill"}]
    BY <1>4, AskedTypes DEF Stop
  <2>. QED BY <1>4, <2>2, <2>3, <2>4, Zenon DEF Stop, TypeOK
<1>5. ASSUME NEW s \in Subscriber, Subscribe(s) \/ Unsubscribe(s) PROVE TypeOK'
  <2>1. subs' \subseteq Subscriber /\ changes' \in Nat
    BY <1>5 DEF Subscribe, Unsubscribe, Change, TypeOK
  <2>. QED BY <1>5, <2>1, Zenon DEF Subscribe, Unsubscribe, TypeOK
<1>6. CASE HandleSupervisorEvt
  <2>1. sup \in Seq(SupervisionEvent) /\ sup # <<>>
    BY <1>6 DEF HandleSupervisorEvt, TypeOK
  <2>2. Head(sup) \in SupervisionEvent /\ sup' \in Seq(SupervisionEvent)
    BY <1>6, <2>1, HeadTailProperties DEF HandleSupervisorEvt
  <2>3. Head(sup).job \in Job
    BY <2>2 DEF SupervisionEvent
  <2>4. told' \in [Subscriber -> [Job -> Seq(Notification)]]
    <3>1. \A what \in Notification :
            Notified(Head(sup).job, what) \in [Subscriber -> [Job -> Seq(Notification)]]
      BY <2>3, ToldTypes
    <3>. QED BY <1>6, <3>1 DEF HandleSupervisorEvt, Notification, TypeOK
  <2>5. DOMAIN jobs' \subseteq Name /\ jobs' \in [DOMAIN jobs' -> Entry]
    <3>1. CASE UNCHANGED jobs
      BY <3>1, Zenon DEF TypeOK
    <3>2. CASE \E n \in NamesOf(Head(sup).job) : jobs' = Removed(n)
      BY <3>2, TableTypes
    <3>. QED BY <1>6, <3>1, <3>2 DEF HandleSupervisorEvt
  <2>. QED BY <1>6, <2>2, <2>4, <2>5, Zenon DEF HandleSupervisorEvt, TypeOK
<1>7. CASE StopManager
  <2>1. manager' \in {"Running", "Stopping", "Exiting", "Down"}
    BY <1>7 DEF StopManager
  <2>. QED BY <1>7, <2>1, Zenon DEF StopManager, TypeOK
<1>8. CASE ManagerPostStop
  <2>1. manager' \in {"Running", "Stopping", "Exiting", "Down"}
    BY <1>8 DEF ManagerPostStop
  <2>2. DOMAIN jobs' \subseteq Name /\ jobs' \in [DOMAIN jobs' -> Entry]
    BY <1>8, TableTypes DEF ManagerPostStop
  <2>3. asked' \in [Job -> {"No", "Stop", "Kill"}]
    BY <1>8, AskedTypes DEF ManagerPostStop
  <2>. QED BY <1>8, <2>1, <2>2, <2>3, Zenon DEF ManagerPostStop, TypeOK
<1>9. CASE ManagerExit
  BY <1>2, <1>9, Zenon DEF ManagerExit, Exit, TypeOK
<1>. QED BY <1>1, <1>3, <1>4, <1>5, <1>6, <1>7, <1>8, <1>9

LEMMA JobTyped ==
    ASSUME CronAssumption, TypeOK, NEW w \in Job, JobLoop(w) \/ Fire(w)
    PROVE  TypeOK'
<1> USE DEF managerVars, timerVars, jobVars, Set
<1>1. CASE Begin(w)
  <2>1. life' \in [Job -> Life]
    BY <1>1 DEF Begin, Life, TypeOK
  <2>2. sup' \in Seq(SupervisionEvent)
    BY <1>1, SupTypes DEF Begin
  <2>. QED BY <1>1, <2>1, <2>2, Zenon DEF Begin, TypeOK
<1>2. ASSUME inbox[w] # <<>>
      PROVE  Head(inbox[w]) \in Message /\ Tail(inbox[w]) \in Seq(Message)
  BY <1>2, JobTypes, HeadTailProperties
<1>3. CASE ExecuteBegins(w)
  <2>1. inbox' \in [Job -> Seq(Message)]
    BY <1>2, <1>3 DEF ExecuteBegins, Receive, TypeOK
  <2>2. busy' \in [Job -> BOOLEAN]
    BY <1>3, Zenon DEF ExecuteBegins, TypeOK
  <2>. QED BY <1>3, <2>1, <2>2, Zenon DEF ExecuteBegins, TypeOK
<1>4. ASSUME Fail(w) PROVE TypeOK'
  <2>1. life' \in [Job -> Life] /\ inbox' \in [Job -> Seq(Message)]
    BY <1>4, MessageTypes DEF Fail, Life, TypeOK
  <2>2. busy' \in [Job -> BOOLEAN]
    BY <1>4, Zenon DEF Fail, TypeOK
  <2>. QED BY <1>4, <2>1, <2>2, Zenon DEF Fail, TypeOK
<1>5. CASE ExecuteEnds(w)
  <2>1. CASE /\ Rescheduled(w) /\ Set(busy, w, FALSE)
             /\ UNCHANGED <<managerVars, sup, life, asked, schedule, inbox, told, changes>>
    <3>1. detached[w] + (IF handle[w] = "Pending" THEN 1 ELSE 0) \in Nat
      BY JobTypes
    <3>2. detached' \in [Job -> Nat]
      BY <2>1, <3>1 DEF Rescheduled, ScheduleNext, TypeOK
    <3>3. handle' \in [Job -> {"None", "Pending", "Spent"}]
      BY <2>1, UpcomingTypes DEF Rescheduled, ScheduleNext, TypeOK
    <3>4. busy' \in [Job -> BOOLEAN]
      BY <2>1, Zenon DEF TypeOK
    <3>. QED BY <2>1, <3>2, <3>3, <3>4, Zenon DEF TypeOK
  <2>. QED BY <1>4, <1>5, <2>1 DEF ExecuteEnds
<1>6. CASE UpdateSchedule(w)
  <2>1. inbox[w] # <<>> /\ Head(inbox[w]).type = "UpdateSchedule"
    BY <1>6 DEF UpdateSchedule, Receive
  <2>2. CASE /\ Set(inbox, w, Tail(inbox[w])) /\ Set(schedule, w, Head(inbox[w]).schedule)
             /\ \E h \in Upcoming(Head(inbox[w]).schedule) : Set(handle, w, h)
             /\ UNCHANGED <<managerVars, sup, life, asked, detached, busy, told, changes>>
    <3>1. Head(inbox[w]).schedule \in Schedule
      BY <1>2, <2>1, MessageTypes
    <3>2. inbox' \in [Job -> Seq(Message)] /\ schedule' \in [Job -> Schedule]
      BY <1>2, <2>1, <2>2, <3>1 DEF TypeOK
    <3>3. handle' \in [Job -> {"None", "Pending", "Spent"}]
      BY <2>2, UpcomingTypes DEF TypeOK
    <3>. QED BY <2>2, <3>2, <3>3, Zenon DEF TypeOK
  <2>. QED BY <1>4, <1>6, <2>2 DEF UpdateSchedule, Adopted
<1>7. CASE PostStop(w)
  <2>1. /\ life' \in [Job -> Life] /\ inbox' \in [Job -> Seq(Message)]
        /\ handle' \in [Job -> {"None", "Pending", "Spent"}]
    BY <1>7, MessageTypes DEF PostStop, Life, TypeOK
  <2>. QED BY <1>7, <2>1, Zenon DEF PostStop, TypeOK
<1>8. ASSUME Gone(w)
      PROVE  /\ life' \in [Job -> Life] /\ asked' \in [Job -> {"No", "Stop", "Kill"}]
             /\ schedule' \in [Job -> Schedule] /\ handle' \in [Job -> {"None", "Pending", "Spent"}]
             /\ detached' \in [Job -> Nat] /\ inbox' \in [Job -> Seq(Message)]
             /\ busy' \in [Job -> BOOLEAN]
  <2>1. busy' \in [Job -> BOOLEAN]
    BY <1>8, Zenon DEF Gone, TypeOK
  <2>. QED BY <1>8, <2>1, MessageTypes, DefaultTypes DEF Gone, Life, TypeOK
<1>9. CASE Die(w)
  BY <1>8, <1>9, Zenon DEF Die, TypeOK
<1>10. CASE Report(w)
  <2>1. sup' \in Seq(SupervisionEvent)
    BY <1>10, SupTypes DEF Report
  <2>. QED BY <1>8, <1>10, <2>1, Zenon DEF Report, TypeOK
<1>11. CASE Fire(w)
  <2>1. handle' \in [Job -> {"None", "Pending", "Spent"}] /\ detached' \in [Job -> Nat]
    <3>1. CASE Set(handle, w, "Spent") /\ UNCHANGED detached
      BY <3>1 DEF TypeOK
    <3>2. CASE detached[w] > 0 /\ Set(detached, w, detached[w] - 1) /\ UNCHANGED handle
      <4>1. detached[w] \in Nat /\ detached[w] - 1 \in Nat
        BY <3>2, JobTypes
      <4>. QED BY <3>2, <4>1 DEF TypeOK
    <3>. QED BY <1>11, <3>1, <3>2 DEF Fire
  <2>2. Append(inbox[w], Execute) \in Seq(Message) /\ inbox[w] \in Seq(Message)
    BY JobTypes, MessageTypes, AppendProperties
  <2>3. inbox' \in [Job -> Seq(Message)]
    BY <1>11, <2>2 DEF Fire, Delivered, TypeOK
  <2>. QED BY <1>11, <2>1, <2>3, Zenon DEF Fire, TypeOK
<1>. QED BY <1>1, <1>3, <1>5, <1>6, <1>7, <1>9, <1>10, <1>11 DEF JobLoop

LEMMA TypedStep == ASSUME CronAssumption, TypeOK, [Next]_vars PROVE TypeOK'
<1>1. CASE UNCHANGED vars
  BY <1>1, Zenon DEF vars, managerVars, timerVars, jobVars, TypeOK
<1>. QED BY <1>1, ManagerTyped, JobTyped DEF Next

\* The types.
THEOREM TypeCorrect == Spec => []TypeOK
<1>1. Init => TypeOK
  BY InitTyped, CronAssumption
<1>2. TypeOK /\ [Next]_vars => TypeOK'
  BY TypedStep, CronAssumption
<1>. QED BY <1>1, <1>2, PTL DEF Spec

-----------------------------------------------------------------------------
(* What a step leaves alone.                                               *)

\* Handlers of the manager that start nothing and send nothing to a job.
Administers ==
    \/ \E n \in Name : Stop(n)
    \/ \E s \in Subscriber : Subscribe(s) \/ Unsubscribe(s)
    \/ HandleSupervisorEvt \/ StopManager \/ ManagerPostStop \/ Exit

LEMMA AdministersFrame ==
    ASSUME TypeOK, Administers
    PROVE  /\ UNCHANGED <<spawned, life, schedule, timerVars, busy, inbox>>
           /\ DOMAIN jobs' \subseteq DOMAIN jobs
           /\ \A n \in DOMAIN jobs' : jobs'[n] = jobs[n]
<1>1. ASSUME NEW n, jobs' = Removed(n)
      PROVE  DOMAIN jobs' \subseteq DOMAIN jobs /\ \A m \in DOMAIN jobs' : jobs'[m] = jobs[m]
  BY <1>1 DEF Removed, Restrict
<1>2. ASSUME jobs' = NoJobs
      PROVE  DOMAIN jobs' \subseteq DOMAIN jobs /\ \A m \in DOMAIN jobs' : jobs'[m] = jobs[m]
  BY <1>2 DEF NoJobs
<1>3. CASE \E n \in Name : Stop(n)
  BY <1>1, <1>3 DEF Stop
<1>4. CASE \E s \in Subscriber : Subscribe(s) \/ Unsubscribe(s)
  BY <1>4 DEF Subscribe, Unsubscribe, jobVars
<1>5. CASE HandleSupervisorEvt
  <2>1. UNCHANGED jobs \/ \E n : jobs' = Removed(n)
    BY <1>5 DEF HandleSupervisorEvt
  <2>. QED BY <1>1, <1>5, <2>1 DEF HandleSupervisorEvt, jobVars
<1>6. CASE StopManager
  BY <1>6 DEF StopManager, jobVars
<1>7. CASE ManagerPostStop \/ Exit
  BY <1>2, <1>7 DEF ManagerPostStop, Exit
<1>. QED BY <1>3, <1>4, <1>5, <1>6, <1>7 DEF Administers

LEMMA JobFrame ==
    ASSUME TypeOK, NEW w \in Job, JobLoop(w) \/ Fire(w)
    PROVE  /\ UNCHANGED <<jobs, subs, spawned, told>>
           /\ \A v \in Job \ {w} :
                  /\ life'[v] = life[v] /\ schedule'[v] = schedule[v] /\ handle'[v] = handle[v]
                  /\ detached'[v] = detached[v] /\ busy'[v] = busy[v] /\ inbox'[v] = inbox[v]
           /\ Begun(w) => Begun(w)'
           /\ Alive(w)' => Alive(w)
           /\ life[w] = "Unborn" => life'[w] = "Unborn" /\ inbox'[w] = inbox[w]
<1> USE DEF managerVars, timerVars, Set, Alive
<1>1. CASE Begin(w)
  BY <1>1 DEF Begin, TypeOK, Begun
<1>2. CASE ExecuteBegins(w)
  BY <1>2 DEF ExecuteBegins, Receive, TypeOK, Begun
<1>3. CASE ExecuteEnds(w)
  BY <1>3 DEF ExecuteEnds, Rescheduled, ScheduleNext, Fail, TypeOK, Begun
<1>4. CASE UpdateSchedule(w)
  BY <1>4 DEF UpdateSchedule, Receive, Fail, TypeOK, Begun
<1>5. CASE PostStop(w)
  BY <1>5 DEF PostStop, TypeOK, Begun
<1>6. CASE Die(w) \/ Report(w)
  BY <1>6 DEF Die, Report, Gone, Alive, TypeOK, Begun
<1>7. CASE Fire(w)
  BY <1>7 DEF Fire, Delivered, Alive, TypeOK, Begun
<1>. QED BY <1>1, <1>2, <1>3, <1>4, <1>5, <1>6, <1>7 DEF JobLoop

\* The steps, by what they touch.
LEMMA NextSplit ==
    ASSUME Next
    PROVE  \/ \E n \in Name, s \in Schedule : Start(n, s)
           \/ \E n \in Name, s \in Schedule : SetSchedule(n, s) /\ ~Exit
           \/ Administers
           \/ \E w \in Job : JobLoop(w) \/ Fire(w)
BY DEF Next, Administers, ManagerExit

-----------------------------------------------------------------------------
(* The table.                                                              *)

\* What Start changes: the table gets a row for the job that comes next.
Started(n, s, w) ==
    /\ w \in Job /\ spawned \in Nat /\ spawned' = w /\ n \notin DOMAIN jobs
    /\ DOMAIN jobs' = DOMAIN jobs \cup {n}
    /\ jobs'[n].job = w /\ jobs'[n].schedule = s
    /\ \A m \in DOMAIN jobs : jobs'[m] = jobs[m] /\ jobs[m].job \in Job \ {w}
    /\ life'[w] = "Starting" /\ schedule'[w] = s /\ handle'[w] \in {"None", "Pending"}
    /\ \A v \in Job \ {w} : /\ life'[v] = life[v] /\ schedule'[v] = schedule[v]
                            /\ handle'[v] = handle[v]
    /\ UNCHANGED <<detached, busy, inbox, sup, told>>

LEMMA StartFacts ==
    ASSUME CronAssumption, TypeOK, OneName, NEW n \in Name, NEW s \in Schedule, Start(n, s),
           NEW w, w = spawned + 1
    PROVE  Started(n, s, w)
<1>1. w \in Job /\ spawned' = w /\ spawned \in Nat /\ n \notin DOMAIN jobs
  BY DEF Start, TypeOK, CronAssumption, Job
<1>2. jobs' = Inserted(n, [schedule |-> s, job |-> w])
  BY DEF Start
<1>3. \A m \in DOMAIN jobs : jobs[m].job \in Job /\ jobs[m].job <= spawned
  BY EntryTypes DEF OneName
<1>4. \A m \in DOMAIN jobs : jobs[m].job # w
  BY <1>1, <1>3 DEF Job, CronAssumption
<1>5. /\ DOMAIN jobs' = DOMAIN jobs \cup {n}
      /\ jobs'[n].job = w /\ jobs'[n].schedule = s
      /\ \A m \in DOMAIN jobs : jobs'[m] = jobs[m]
  BY <1>1, <1>2 DEF Inserted
<1>6. /\ life'[w] = "Starting" /\ schedule'[w] = s /\ handle'[w] \in {"None", "Pending"}
      /\ \A v \in Job \ {w} : /\ life'[v] = life[v] /\ schedule'[v] = schedule[v]
                              /\ handle'[v] = handle[v]
      /\ UNCHANGED <<detached, busy, inbox, sup, told>>
  BY <1>1, UpcomingTypes DEF Start, PreStart, Set, TypeOK
<1>. QED BY <1>1, <1>3, <1>4, <1>5, <1>6 DEF Started

\* What SetSchedule changes: the row of the job, and the job's inbox.
Adjusted(n, s, w) ==
    /\ n \in DOMAIN jobs /\ w \in Job /\ Alive(w)
    /\ DOMAIN jobs' = DOMAIN jobs /\ jobs'[n].job = w /\ jobs'[n].schedule = s
    /\ \A m \in DOMAIN jobs \ {n} : jobs'[m] = jobs[m] /\ jobs[m].job # w
    /\ inbox'[w] = Append(inbox[w], [type |-> "UpdateSchedule", schedule |-> s])
    /\ \A v \in Job \ {w} : inbox'[v] = inbox[v]
    /\ UNCHANGED <<spawned, life, schedule, timerVars, busy, sup, told>>

LEMMA SetScheduleFacts ==
    ASSUME TypeOK, OneName, NEW n \in Name, NEW s \in Schedule, SetSchedule(n, s), ~Exit,
           NEW w, w = jobs[n].job
    PROVE  Adjusted(n, s, w)
<1>1. /\ n \in DOMAIN jobs /\ Alive(w)
      /\ jobs' = Inserted(n, [schedule |-> s, job |-> w])
      /\ Set(inbox, w, Append(inbox[w], [type |-> "UpdateSchedule", schedule |-> s]))
      /\ UNCHANGED <<spawned, life, schedule, timerVars, busy, sup, told>>
  BY DEF SetSchedule
<1>2. w \in Job /\ \A m \in DOMAIN jobs \ {n} : jobs[m].job # w
  BY <1>1, EntryTypes DEF OneName
<1>3. /\ DOMAIN jobs' = DOMAIN jobs /\ jobs'[n].job = w /\ jobs'[n].schedule = s
      /\ \A m \in DOMAIN jobs \ {n} : jobs'[m] = jobs[m]
  BY <1>1 DEF Inserted
<1>4. /\ inbox'[w] = Append(inbox[w], [type |-> "UpdateSchedule", schedule |-> s])
      /\ \A v \in Job \ {w} : inbox'[v] = inbox[v]
  BY <1>1, <1>2 DEF Set, TypeOK
<1>. QED BY <1>1, <1>2, <1>3, <1>4 DEF Adjusted

LEMMA TableStep ==
    ASSUME CronAssumption, TypeOK, OneName, Untouched, Next
    PROVE  OneName' /\ Untouched'
<1>1. ASSUME NEW n \in Name, NEW s \in Schedule, Start(n, s) PROVE OneName' /\ Untouched'
  <2> DEFINE w == spawned + 1
  <2>1. /\ w \in Job /\ spawned \in Nat /\ spawned' = w /\ n \notin DOMAIN jobs
        /\ DOMAIN jobs' = DOMAIN jobs \cup {n} /\ jobs'[n].job = w
        /\ \A m \in DOMAIN jobs : jobs'[m] = jobs[m] /\ jobs[m].job \in Job \ {w}
        /\ \A v \in Job \ {w} : life'[v] = life[v]
        /\ UNCHANGED inbox
    <3>1. Started(n, s, w)
      BY <1>1, StartFacts
    <3>. QED BY <3>1 DEF Started
  <2>2. \A v \in Job : v \in Nat
    BY DEF Job, CronAssumption
  <2>3. OneName'
    <3>1. \A m \in DOMAIN jobs : jobs[m].job <= spawned'
      BY <2>1, <2>2 DEF OneName
    <3>2. \A m \in DOMAIN jobs' : jobs'[m].job <= spawned'
      BY <2>1, <2>2, <3>1
    <3>3. \A k, m \in DOMAIN jobs' : jobs'[k].job = jobs'[m].job => k = m
      BY <2>1 DEF OneName
    <3>. QED BY <3>2, <3>3 DEF OneName
  <2>4. Untouched'
    <3>1. \A v \in Job : v > spawned' => v > spawned /\ v \in Job \ {w}
      BY <2>1, <2>2
    <3>. QED BY <2>1, <3>1 DEF Untouched
  <2>. QED BY <2>3, <2>4
<1>2. ASSUME NEW n \in Name, NEW s \in Schedule, SetSchedule(n, s), ~Exit
      PROVE  OneName' /\ Untouched'
  <2> DEFINE w == jobs[n].job
  <2>1. /\ n \in DOMAIN jobs /\ w \in Job /\ Alive(w)
        /\ DOMAIN jobs' = DOMAIN jobs /\ jobs'[n].job = w
        /\ \A m \in DOMAIN jobs \ {n} : jobs'[m] = jobs[m] /\ jobs[m].job # w
        /\ \A v \in Job \ {w} : inbox'[v] = inbox[v]
        /\ UNCHANGED <<spawned, life>>
    <3>1. Adjusted(n, s, w)
      BY <1>2, SetScheduleFacts
    <3>. QED BY <3>1 DEF Adjusted
  <2>2. \A m \in DOMAIN jobs : jobs'[m].job = jobs[m].job
    BY <2>1
  <2>3. OneName'
    BY <2>1, <2>2 DEF OneName
  <2>4. Untouched'
    BY <2>1 DEF Untouched, Alive
  <2>. QED BY <2>3, <2>4
<1>3. CASE Administers
  BY <1>3, AdministersFrame DEF OneName, Untouched
<1>4. ASSUME NEW w \in Job, JobLoop(w) \/ Fire(w) PROVE OneName' /\ Untouched'
  <2>1. /\ UNCHANGED <<jobs, spawned>>
        /\ \A v \in Job \ {w} : life'[v] = life[v] /\ inbox'[v] = inbox[v]
        /\ life[w] = "Unborn" => life'[w] = "Unborn" /\ inbox'[w] = inbox[w]
    BY <1>4, JobFrame
  <2>. QED BY <2>1 DEF OneName, Untouched
<1>. QED BY <1>1, <1>2, <1>3, <1>4, NextSplit

-----------------------------------------------------------------------------
(* The beat of a job.                                                      *)

\* The conjunct of KeepsBeating for the job w.
Beats(w) ==
    Alive(w) /\ handle[w] # "None" =>
        \/ handle[w] = "Pending" \/ detached[w] > 0 \/ Queued(w, "Execute") \/ busy[w]

LEMMA QueuedFacts ==
    ASSUME TypeOK, NEW w \in Job
    PROVE  /\ \A type : Queued(w, type) <=> \E i \in 1 .. Len(inbox[w]) : inbox[w][i].type = type
           /\ inbox'[w] = inbox[w] => \A type : Queued(w, type)' <=> Queued(w, type)
           /\ \A msg \in Message : inbox'[w] = Append(inbox[w], msg) =>
                  \A type : Queued(w, type)' <=> Queued(w, type) \/ msg.type = type
           /\ inbox[w] # <<>> /\ inbox'[w] = Tail(inbox[w]) =>
                  \A type : Queued(w, type) => Queued(w, type)' \/ Head(inbox[w]).type = type
<1>1. inbox[w] \in Seq(Message) /\ DOMAIN inbox[w] = 1 .. Len(inbox[w]) /\ Len(inbox[w]) \in Nat
  BY JobTypes, LenProperties
<1>2. \A type : Queued(w, type) <=> \E i \in 1 .. Len(inbox[w]) : inbox[w][i].type = type
  BY <1>1 DEF Queued
<1>3. inbox'[w] = inbox[w] => \A type : Queued(w, type)' <=> Queued(w, type)
  BY DEF Queued
<1>4. ASSUME NEW msg \in Message, inbox'[w] = Append(inbox[w], msg), NEW type
      PROVE  Queued(w, type)' <=> Queued(w, type) \/ msg.type = type
  <2>1. /\ DOMAIN inbox'[w] = 1 .. Len(inbox[w]) + 1 /\ inbox'[w][Len(inbox[w]) + 1] = msg
        /\ \A i \in 1 .. Len(inbox[w]) : inbox'[w][i] = inbox[w][i]
    BY <1>1, <1>4, AppendProperties, LenProperties
  <2>2. ASSUME NEW i \in 1 .. Len(inbox[w]) + 1, inbox'[w][i].type = type
        PROVE  Queued(w, type) \/ msg.type = type
    <3>1. CASE i = Len(inbox[w]) + 1
      BY <2>1, <2>2, <3>1
    <3>2. CASE i # Len(inbox[w]) + 1
      <4>1. i \in 1 .. Len(inbox[w])
        BY <1>1, <3>2
      <4>. QED BY <1>2, <2>1, <2>2, <4>1
    <3>. QED BY <3>1, <3>2
  <2>3. ASSUME NEW i \in 1 .. Len(inbox[w]), inbox[w][i].type = type PROVE Queued(w, type)'
    <3>1. i \in DOMAIN inbox'[w] /\ inbox'[w][i] = inbox[w][i]
      BY <1>1, <2>1
    <3>. QED BY <2>3, <3>1 DEF Queued
  <2>4. msg.type = type => Queued(w, type)'
    <3>1. Len(inbox[w]) + 1 \in DOMAIN inbox'[w]
      BY <1>1, <2>1
    <3>. QED BY <2>1, <3>1 DEF Queued
  <2>5. Queued(w, type)' => \E i \in 1 .. Len(inbox[w]) + 1 : inbox'[w][i].type = type
    BY <2>1, Zenon DEF Queued
  <2>. QED BY <1>2, <2>2, <2>3, <2>4, <2>5, Zenon
<1>5. ASSUME inbox[w] # <<>>, inbox'[w] = Tail(inbox[w]), NEW type, Queued(w, type)
      PROVE  Queued(w, type)' \/ Head(inbox[w]).type = type
  <2>1. /\ DOMAIN inbox'[w] = 1 .. Len(inbox[w]) - 1 /\ Head(inbox[w]) = inbox[w][1]
        /\ \A i \in 1 .. Len(inbox[w]) - 1 : inbox'[w][i] = inbox[w][i + 1]
    BY <1>1, <1>5, HeadTailProperties, LenProperties
  <2>2. PICK i \in 1 .. Len(inbox[w]) : inbox[w][i].type = type
    BY <1>2, <1>5
  <2>3. i # 1 => i - 1 \in DOMAIN inbox'[w] /\ inbox'[w][i - 1] = inbox[w][i]
    BY <1>1, <2>1
  <2>. QED BY <2>1, <2>2, <2>3 DEF Queued
<1>. QED BY <1>2, <1>3, <1>4, <1>5

LEMMA BeatsKept ==
    ASSUME NEW w \in Job, Beats(w), life'[w] = life[w], handle'[w] = handle[w],
           detached'[w] = detached[w], busy'[w] = busy[w], inbox'[w] = inbox[w]
    PROVE  Beats(w)'
BY DEF Beats, Alive, Queued

LEMMA BeatStep ==
    ASSUME CronAssumption, TypeOK, OneName, KeepsBeating, Next PROVE KeepsBeating'
<1> USE DEF Set
<1>1. \A v \in Job : Beats(v)
  BY DEF KeepsBeating, Beats
<1>2. ASSUME NEW n \in Name, NEW s \in Schedule, Start(n, s), NEW v \in Job PROVE Beats(v)'
  <2> DEFINE w == spawned + 1
  <2>1. /\ handle'[w] \in {"None", "Pending"} /\ UNCHANGED <<detached, busy, inbox>>
        /\ \A u \in Job \ {w} : life'[u] = life[u] /\ handle'[u] = handle[u]
    <3>1. Started(n, s, w)
      BY <1>2, StartFacts
    <3>. QED BY <3>1 DEF Started
  <2> HIDE DEF w
  <2>2. CASE v = w
    BY <2>1, <2>2 DEF Beats
  <2>3. CASE v # w
    BY <1>1, <2>1, <2>3, BeatsKept
  <2>. QED BY <2>2, <2>3
<1>3. ASSUME NEW n \in Name, NEW s \in Schedule, SetSchedule(n, s), ~Exit, NEW v \in Job
      PROVE  Beats(v)'
  <2> DEFINE w == jobs[n].job
  <2>1. /\ inbox'[w] = Append(inbox[w], [type |-> "UpdateSchedule", schedule |-> s])
        /\ \A u \in Job \ {w} : inbox'[u] = inbox[u]
        /\ UNCHANGED <<life, handle, detached, busy>>
    <3>1. Adjusted(n, s, w)
      BY <1>3, SetScheduleFacts
    <3>. QED BY <3>1 DEF Adjusted, timerVars
  <2> HIDE DEF w
  <2>2. CASE v = w
    <3>1. Queued(v, "Execute") => Queued(v, "Execute")'
      BY <2>1, <2>2, QueuedFacts, MessageTypes
    <3>. QED BY <1>1, <2>1, <3>1 DEF Beats, Alive
  <2>3. CASE v # w
    BY <1>1, <2>1, <2>3, BeatsKept
  <2>. QED BY <2>2, <2>3
<1>4. ASSUME Administers, NEW v \in Job PROVE Beats(v)'
  BY <1>1, <1>4, AdministersFrame, BeatsKept DEF timerVars
<1>5. ASSUME NEW w \in Job, JobLoop(w) \/ Fire(w) PROVE Beats(w)'
  <2>0. handle[w] \in {"None", "Pending", "Spent"} /\ detached[w] \in Nat /\ Beats(w)
    BY <1>1, JobTypes
  <2>1. CASE Begin(w)
    BY <2>0, <2>1 DEF Begin, Beats, Alive, Queued, timerVars
  <2>2. CASE ExecuteBegins(w)
    <3>1. busy'[w]
      BY <2>2, Zenon DEF ExecuteBegins, TypeOK
    <3>. QED BY <3>1 DEF Beats
  <2>3. ASSUME Fail(w) \/ PostStop(w) \/ Gone(w) PROVE Beats(w)'
    <3>1. ~Alive(w)'
      BY <2>3 DEF Fail, PostStop, Gone, Alive, TypeOK
    <3>. QED BY <3>1 DEF Beats
  <2>4. ASSUME NEW s, \E h \in Upcoming(s) : Set(handle, w, h) PROVE Beats(w)'
    <3>1. handle'[w] \in {"None", "Pending"}
      BY <2>4, UpcomingTypes DEF TypeOK
    <3>. QED BY <3>1 DEF Beats
  <2>5. CASE ExecuteEnds(w)
    BY <2>3, <2>4, <2>5 DEF ExecuteEnds, Rescheduled, ScheduleNext
  <2>6. CASE UpdateSchedule(w)
    BY <2>3, <2>4, <2>6 DEF UpdateSchedule
  <2>7. CASE PostStop(w) \/ Die(w) \/ Report(w)
    BY <2>3, <2>7 DEF Die, Report
  <2>8. CASE Fire(w)
    <3>1. UNCHANGED <<life, busy>>
      BY <2>8 DEF Fire
    <3>2. CASE ~Alive(w)
      BY <3>1, <3>2 DEF Beats, Alive
    <3>3. CASE Alive(w)
      <4>1. inbox'[w] = Append(inbox[w], Execute)
        BY <2>8, <3>3 DEF Fire, Delivered, TypeOK
      <4>2. Queued(w, "Execute")'
        BY <4>1, QueuedFacts, MessageTypes DEF Execute
      <4>. QED BY <4>2 DEF Beats
    <3>. QED BY <3>2, <3>3
  <2>. QED BY <1>5, <2>1, <2>2, <2>5, <2>6, <2>7, <2>8 DEF JobLoop
<1>6. ASSUME NEW w \in Job, JobLoop(w) \/ Fire(w), NEW v \in Job PROVE Beats(v)'
  <2>1. CASE v = w
    BY <1>5, <1>6, <2>1
  <2>2. CASE v # w
    BY <1>1, <1>6, <2>2, JobFrame, BeatsKept
  <2>. QED BY <2>1, <2>2
<1>7. \A v \in Job : Beats(v)'
  BY <1>2, <1>3, <1>4, <1>6, NextSplit
<1>. QED BY <1>7 DEF KeepsBeating, Beats

-----------------------------------------------------------------------------
(* The schedule that a job runs on.                                        *)

LEMMA RunsOnKept ==
    ASSUME NEW w \in Job, NEW s, RunsOn(w, s), schedule'[w] = schedule[w], inbox'[w] = inbox[w]
    PROVE  RunsOn(w, s)'
BY DEF RunsOn

LEMMA RowKept ==
    ASSUME NEW m, RunsOn(jobs[m].job, jobs[m].schedule), jobs'[m] = jobs[m], jobs[m].job \in Job,
           schedule'[jobs[m].job] = schedule[jobs[m].job], inbox'[jobs[m].job] = inbox[jobs[m].job]
    PROVE  RunsOn(jobs[m].job, jobs[m].schedule)'
<1>1. PICK v, s : v = jobs[m].job /\ s = jobs[m].schedule
  OBVIOUS
<1>2. jobs'[m].job = v /\ jobs'[m].schedule = s /\ schedule'[v] = schedule[v] /\ inbox'[v] = inbox[v]
  BY <1>1
<1>3. RunsOn(v, s)
  BY <1>1
<1>. QED BY <1>2, <1>3 DEF RunsOn

LEMMA RunsOnAppended ==
    ASSUME TypeOK, NEW w \in Job, NEW msg \in Message, inbox'[w] = Append(inbox[w], msg)
    PROVE  /\ msg.type = "UpdateSchedule" => RunsOn(w, msg.schedule)'
           /\ msg.type # "UpdateSchedule" /\ schedule'[w] = schedule[w] =>
                  \A s : RunsOn(w, s) => RunsOn(w, s)'
<1>1. inbox[w] \in Seq(Message) /\ Len(inbox[w]) \in Nat
  BY JobTypes
<1>2. /\ Len(inbox'[w]) = Len(inbox[w]) + 1 /\ inbox'[w][Len(inbox[w]) + 1] = msg
      /\ \A i \in 1 .. Len(inbox[w]) : inbox'[w][i] = inbox[w][i]
  BY <1>1, AppendProperties
<1>3. ASSUME msg.type = "UpdateSchedule" PROVE RunsOn(w, msg.schedule)'
  <2> DEFINE k == Len(inbox[w]) + 1
  <2>1. k \in 1 .. Len(inbox'[w]) /\ ~ \E j \in k + 1 .. Len(inbox'[w]) : TRUE
    BY <1>1, <1>2
  <2>. QED BY <1>2, <1>3, <2>1 DEF RunsOn
<1>4. ASSUME msg.type # "UpdateSchedule", schedule'[w] = schedule[w], NEW s, RunsOn(w, s)
      PROVE  RunsOn(w, s)'
  <2>1. CASE /\ schedule[w] = s
             /\ \A i \in 1 .. Len(inbox[w]) : inbox[w][i].type # "UpdateSchedule"
    <3>1. \A i \in 1 .. Len(inbox'[w]) : inbox'[w][i].type # "UpdateSchedule"
      BY <1>1, <1>2, <1>4, <2>1
    <3>. QED BY <1>4, <2>1, <3>1 DEF RunsOn
  <2>2. ASSUME NEW i \in 1 .. Len(inbox[w]), inbox[w][i].type = "UpdateSchedule",
               inbox[w][i].schedule = s,
               \A j \in i + 1 .. Len(inbox[w]) : inbox[w][j].type # "UpdateSchedule"
        PROVE  RunsOn(w, s)'
    <3>1. i \in 1 .. Len(inbox'[w]) /\ inbox'[w][i] = inbox[w][i]
      BY <1>1, <1>2
    <3>2. \A j \in i + 1 .. Len(inbox'[w]) : inbox'[w][j].type # "UpdateSchedule"
      BY <1>1, <1>2, <1>4, <2>2
    <3>. QED BY <2>2, <3>1, <3>2 DEF RunsOn
  <2>. QED BY <1>4, <2>1, <2>2 DEF RunsOn
<1>. QED BY <1>3, <1>4

LEMMA RunsOnTaken ==
    ASSUME TypeOK, NEW w \in Job, NEW s, RunsOn(w, s), inbox[w] # <<>>,
           inbox'[w] = Tail(inbox[w]),
           schedule'[w] = IF Head(inbox[w]).type = "UpdateSchedule" THEN Head(inbox[w]).schedule
                          ELSE schedule[w]
    PROVE  RunsOn(w, s)'
<1>1. inbox[w] \in Seq(Message) /\ Len(inbox[w]) \in Nat
  BY JobTypes
<1>2. /\ Len(inbox[w]) >= 1 /\ Len(inbox'[w]) = Len(inbox[w]) - 1 /\ Head(inbox[w]) = inbox[w][1]
      /\ \A i \in 1 .. Len(inbox'[w]) : inbox'[w][i] = inbox[w][i + 1]
  BY <1>1, HeadTailProperties, EmptySeq
<1>3. CASE /\ schedule[w] = s
           /\ \A i \in 1 .. Len(inbox[w]) : inbox[w][i].type # "UpdateSchedule"
  <2>1. \A i \in 1 .. Len(inbox'[w]) : inbox'[w][i].type # "UpdateSchedule"
    BY <1>1, <1>2, <1>3
  <2>2. schedule'[w] = s
    BY <1>1, <1>2, <1>3
  <2>. QED BY <2>1, <2>2 DEF RunsOn
<1>4. ASSUME NEW i \in 1 .. Len(inbox[w]), inbox[w][i].type = "UpdateSchedule",
             inbox[w][i].schedule = s,
             \A j \in i + 1 .. Len(inbox[w]) : inbox[w][j].type # "UpdateSchedule"
      PROVE  RunsOn(w, s)'
  <2>1. CASE i = 1
    <3>1. \A j \in 1 .. Len(inbox'[w]) : inbox'[w][j].type # "UpdateSchedule"
      BY <1>1, <1>2, <1>4, <2>1
    <3>. QED BY <1>2, <1>4, <2>1, <3>1 DEF RunsOn
  <2>2. CASE i # 1
    <3>1. i - 1 \in 1 .. Len(inbox'[w]) /\ inbox'[w][i - 1] = inbox[w][i]
      BY <1>1, <1>2, <2>2
    <3>2. \A j \in (i - 1) + 1 .. Len(inbox'[w]) : inbox'[w][j].type # "UpdateSchedule"
      BY <1>1, <1>2, <1>4, <2>2
    <3>. QED BY <1>4, <3>1, <3>2 DEF RunsOn
  <2>. QED BY <2>1, <2>2
<1>. QED BY <1>3, <1>4 DEF RunsOn

LEMMA AgreedStep ==
    ASSUME CronAssumption, TypeOK, OneName, Untouched, Agreed, Next PROVE Agreed'
<1> USE DEF Set
<1>1. \A m \in DOMAIN jobs : jobs[m].job \in Job /\ jobs[m].schedule \in Schedule
  BY EntryTypes
<1>2. ASSUME NEW n \in Name, NEW s \in Schedule, Start(n, s) PROVE Agreed'
  <2>0. PICK w : w = spawned + 1
    OBVIOUS
  <2>1. /\ w \in Job /\ spawned \in Nat
        /\ DOMAIN jobs' = DOMAIN jobs \cup {n} /\ n \notin DOMAIN jobs
        /\ jobs'[n].job = w /\ jobs'[n].schedule = s
        /\ \A m \in DOMAIN jobs : jobs'[m] = jobs[m] /\ jobs[m].job \in Job \ {w}
        /\ schedule'[w] = s /\ UNCHANGED inbox
        /\ \A v \in Job \ {w} : life'[v] = life[v] /\ schedule'[v] = schedule[v]
    <3>1. Started(n, s, w)
      BY <1>2, <2>0, StartFacts
    <3>. QED BY <3>1 DEF Started
  <2>2. inbox[w] = <<>>
    <3>1. w > spawned
      BY <2>0, <2>1
    <3>. QED BY <2>1, <3>1 DEF Untouched
  <2>3. RunsOn(w, s)'
    <3>1. inbox'[w] = <<>> /\ Len(<<>>) = 0
      BY <2>1, <2>2, EmptySeq
    <3>. QED BY <2>1, <3>1 DEF RunsOn
  <2>4. ASSUME NEW m \in DOMAIN jobs, Alive(jobs[m].job)' PROVE RunsOn(jobs[m].job, jobs[m].schedule)'
    <3>1. jobs'[m] = jobs[m] /\ jobs[m].job \in Job \ {w}
      BY <2>1
    <3>2. Alive(jobs[m].job)
      BY <2>1, <2>4, <3>1 DEF Alive
    <3>3. RunsOn(jobs[m].job, jobs[m].schedule)
      BY <3>2 DEF Agreed
    <3>4. schedule'[jobs[m].job] = schedule[jobs[m].job] /\ inbox'[jobs[m].job] = inbox[jobs[m].job]
      BY <2>1, <3>1
    <3>. QED BY <3>1, <3>3, <3>4, RowKept
  <2>. QED BY <2>1, <2>3, <2>4 DEF Agreed
<1>3. ASSUME NEW n \in Name, NEW s \in Schedule, SetSchedule(n, s), ~Exit PROVE Agreed'
  <2>0. PICK w : w = jobs[n].job
    OBVIOUS
  <2> DEFINE msg == [type |-> "UpdateSchedule", schedule |-> s]
  <2>1. /\ n \in DOMAIN jobs /\ w \in Job
        /\ DOMAIN jobs' = DOMAIN jobs /\ jobs'[n].job = w /\ jobs'[n].schedule = s
        /\ \A m \in DOMAIN jobs \ {n} : jobs'[m] = jobs[m] /\ jobs[m].job # w
        /\ inbox'[w] = Append(inbox[w], msg)
        /\ \A v \in Job \ {w} : inbox'[v] = inbox[v]
        /\ UNCHANGED <<life, schedule>>
    <3>1. Adjusted(n, s, w)
      BY <1>3, <2>0, SetScheduleFacts
    <3>. QED BY <3>1 DEF Adjusted
  <2>2. msg \in Message /\ msg.type = "UpdateSchedule" /\ msg.schedule = s
    BY MessageTypes
  <2> HIDE DEF msg
  <2>3. RunsOn(w, s)'
    BY <2>1, <2>2, RunsOnAppended
  <2>4. ASSUME NEW m \in DOMAIN jobs \ {n}, Alive(jobs[m].job)'
        PROVE  RunsOn(jobs[m].job, jobs[m].schedule)'
    <3>1. jobs'[m] = jobs[m] /\ jobs[m].job \in Job \ {w} /\ Alive(jobs[m].job)
      BY <1>1, <2>1, <2>4 DEF Alive
    <3>2. RunsOn(jobs[m].job, jobs[m].schedule)
      BY <3>1 DEF Agreed
    <3>4. schedule'[jobs[m].job] = schedule[jobs[m].job] /\ inbox'[jobs[m].job] = inbox[jobs[m].job]
      BY <2>1, <3>1
    <3>. QED BY <3>1, <3>2, <3>4, RowKept
  <2>. QED BY <2>1, <2>3, <2>4 DEF Agreed
<1>4. CASE Administers
  <2>1. /\ UNCHANGED <<life, schedule, inbox>> /\ DOMAIN jobs' \subseteq DOMAIN jobs
        /\ \A n \in DOMAIN jobs' : jobs'[n] = jobs[n]
    BY <1>4, AdministersFrame
  <2>2. ASSUME NEW m \in DOMAIN jobs', Alive(jobs[m].job)' PROVE RunsOn(jobs[m].job, jobs[m].schedule)'
    <3>1. jobs'[m] = jobs[m] /\ Alive(jobs[m].job) /\ m \in DOMAIN jobs
      BY <2>1, <2>2 DEF Alive
    <3>2. RunsOn(jobs[m].job, jobs[m].schedule)
      BY <3>1 DEF Agreed
    <3>3. inbox'[jobs[m].job] = inbox[jobs[m].job] /\ schedule'[jobs[m].job] = schedule[jobs[m].job]
      BY <2>1
    <3>4. jobs[m].job \in Job
      BY <3>1, EntryTypes
    <3>. QED BY <3>1, <3>2, <3>3, <3>4, RowKept
  <2>. QED BY <2>2 DEF Agreed
<1>5. ASSUME NEW w \in Job, JobLoop(w) \/ Fire(w), Alive(w)', NEW s, RunsOn(w, s)
      PROVE  RunsOn(w, s)'
  <2>1. CASE Begin(w)
    BY <1>5, <2>1, RunsOnKept DEF Begin
  <2>2. CASE ExecuteBegins(w)
    <3>1. /\ inbox[w] # <<>> /\ Head(inbox[w]).type # "UpdateSchedule"
          /\ inbox'[w] = Tail(inbox[w]) /\ schedule'[w] = schedule[w]
      BY <2>2 DEF ExecuteBegins, Receive, TypeOK
    <3>. QED BY <1>5, <3>1, RunsOnTaken
  <2>3. ASSUME Fail(w) \/ PostStop(w) \/ Gone(w) PROVE FALSE
    BY <1>5, <2>3 DEF Fail, PostStop, Gone, Alive, TypeOK
  <2>4. CASE ExecuteEnds(w)
    BY <1>5, <2>3, <2>4, RunsOnKept DEF ExecuteEnds
  <2>5. CASE UpdateSchedule(w)
    <3>1. /\ inbox[w] # <<>> /\ Head(inbox[w]).type = "UpdateSchedule"
          /\ inbox'[w] = Tail(inbox[w]) /\ schedule'[w] = Head(inbox[w]).schedule
      BY <2>3, <2>5 DEF UpdateSchedule, Receive, Adopted, TypeOK
    <3>. QED BY <1>5, <3>1, RunsOnTaken
  <2>6. CASE PostStop(w) \/ Die(w) \/ Report(w)
    BY <2>3, <2>6 DEF Die, Report
  <2>7. CASE Fire(w)
    <3>1. schedule'[w] = schedule[w]
      BY <2>7 DEF Fire
    <3>2. inbox'[w] = Append(inbox[w], Execute) \/ inbox'[w] = inbox[w]
      BY <2>7 DEF Fire, Delivered, TypeOK
    <3>3. Execute \in Message /\ Execute.type # "UpdateSchedule"
      BY MessageTypes DEF Execute
    <3>. QED BY <1>5, <3>1, <3>2, <3>3, RunsOnKept, RunsOnAppended
  <2>. QED BY <1>5, <2>1, <2>2, <2>4, <2>5, <2>6, <2>7 DEF JobLoop
<1>6. ASSUME NEW w \in Job, JobLoop(w) \/ Fire(w) PROVE Agreed'
  <2>1. /\ UNCHANGED jobs
        /\ \A v \in Job \ {w} : /\ life'[v] = life[v] /\ schedule'[v] = schedule[v]
                                /\ inbox'[v] = inbox[v]
        /\ Alive(w)' => Alive(w)
    BY <1>6, JobFrame
  <2>2. ASSUME NEW m \in DOMAIN jobs, Alive(jobs[m].job)' PROVE RunsOn(jobs[m].job, jobs[m].schedule)'
    <3>0. PICK v, s : v = jobs[m].job /\ s = jobs[m].schedule
      OBVIOUS
    <3>1. v \in Job /\ jobs'[m].job = v /\ jobs'[m].schedule = s /\ Alive(v)'
      BY <1>1, <2>1, <2>2, <3>0
    <3>2. Alive(v)
      BY <2>1, <3>1 DEF Alive
    <3>3. RunsOn(v, s)
      BY <3>0, <3>2 DEF Agreed
    <3>4. RunsOn(v, s)'
      <4>1. CASE v = w
        BY <1>5, <1>6, <3>1, <3>3, <4>1
      <4>2. CASE v # w
        BY <2>1, <3>1, <3>3, <4>2, RunsOnKept
      <4>. QED BY <4>1, <4>2
    <3>. QED BY <3>1, <3>4
  <2>. QED BY <2>1, <2>2 DEF Agreed
<1>. QED BY <1>2, <1>3, <1>4, <1>6, NextSplit

-----------------------------------------------------------------------------
(* What a subscriber hears.                                                *)

LEMMA SupFacts ==
    ASSUME TypeOK
    PROVE  /\ sup \in Seq(SupervisionEvent) /\ Len(sup) \in Nat
           /\ \A i \in 1 .. Len(sup) : sup[i] \in SupervisionEvent /\ sup[i].job \in Job
           /\ sup # <<>> =>
                /\ Head(sup) = sup[1] /\ 1 \in 1 .. Len(sup)
                /\ Len(Tail(sup)) = Len(sup) - 1
                /\ \A i \in 1 .. Len(Tail(sup)) : i + 1 \in 1 .. Len(sup) /\ Tail(sup)[i] = sup[i + 1]
<1>1. sup \in Seq(SupervisionEvent) /\ Len(sup) \in Nat
  BY LenProperties DEF TypeOK
<1>2. ASSUME NEW i \in 1 .. Len(sup) PROVE sup[i] \in SupervisionEvent /\ sup[i].job \in Job
  <2>1. sup[i] \in SupervisionEvent
    BY <1>1, ElementOfSeq
  <2>. QED BY <2>1 DEF SupervisionEvent
<1>3. ASSUME sup # <<>>
      PROVE  /\ Head(sup) = sup[1] /\ 1 \in 1 .. Len(sup)
             /\ Len(Tail(sup)) = Len(sup) - 1
             /\ \A i \in 1 .. Len(Tail(sup)) : i + 1 \in 1 .. Len(sup) /\ Tail(sup)[i] = sup[i + 1]
  <2>1. Head(sup) = sup[1] /\ Len(sup) # 0
    BY <1>1, <1>3, HeadTailProperties, EmptySeq
  <2>2. /\ Len(Tail(sup)) = Len(sup) - 1
        /\ \A i \in 1 .. Len(Tail(sup)) : Tail(sup)[i] = sup[i + 1]
    BY <1>1, <1>3, HeadTailProperties
  <2>. QED BY <1>1, <2>1, <2>2
<1>. QED BY <1>1, <1>2, <1>3

\* A report joins the end of the port, or is lost with the manager.
LEMMA ReportedFacts ==
    ASSUME TypeOK, NEW w \in Job, NEW type \in {"ActorStarted", "ActorFailed", "ActorTerminated"},
           sup' = Reported(type, w)
    PROVE  \/ sup' = sup
           \/ /\ Len(sup') = Len(sup) + 1 /\ sup'[Len(sup) + 1] = [type |-> type, job |-> w]
              /\ \A i \in 1 .. Len(sup) : sup'[i] = sup[i]
<1>1. sup \in Seq(SupervisionEvent) /\ [type |-> type, job |-> w] \in SupervisionEvent
  BY MessageTypes DEF TypeOK
<1>. QED BY <1>1, AppendProperties DEF Reported

\* The manager's port loses its first event, or all of them, or it does not change.
LEMMA AdministersSup ==
    ASSUME TypeOK, Administers
    PROVE  sup' = sup \/ sup' = <<>> \/ (sup # <<>> /\ sup' = Tail(sup))
<1>1. CASE \E n \in Name : Stop(n)
  BY <1>1 DEF Stop
<1>2. CASE \E s \in Subscriber : Subscribe(s) \/ Unsubscribe(s)
  BY <1>2 DEF Subscribe, Unsubscribe
<1>3. CASE HandleSupervisorEvt
  BY <1>3 DEF HandleSupervisorEvt
<1>4. CASE StopManager \/ ManagerPostStop \/ Exit
  BY <1>4 DEF StopManager, ManagerPostStop, Exit
<1>. QED BY <1>1, <1>2, <1>3, <1>4 DEF Administers

\* The sup port of a job's step.
LEMMA JobSup ==
    ASSUME TypeOK, NEW w \in Job, JobLoop(w) \/ Fire(w)
    PROVE  \/ sup' = sup
           \/ life[w] = "Starting" /\ life'[w] = "Running" /\ sup' = Reported("ActorStarted", w)
           \/ sup' = Reported("ActorFailed", w) \/ sup' = Reported("ActorTerminated", w)
<1>1. CASE Begin(w)
  BY <1>1 DEF Begin, Set, TypeOK
<1>2. CASE Report(w)
  BY <1>2 DEF Report
<1>. QED BY <1>1, <1>2 DEF JobLoop, ExecuteBegins, ExecuteEnds, UpdateSchedule, Fail, PostStop, Die,
                           Fire

\* A job that has begun has begun.
LEMMA BegunKept ==
    ASSUME CronAssumption, TypeOK, OneName, Untouched, Next PROVE \A v \in Job : Begun(v) => Begun(v)'
<1> SUFFICES ASSUME NEW v \in Job, Begun(v) PROVE Begun(v)'
  OBVIOUS
<1>1. ASSUME NEW n \in Name, NEW s \in Schedule, Start(n, s) PROVE Begun(v)'
  <2> DEFINE w == spawned + 1
  <2>1. /\ w \in Job /\ spawned \in Nat
        /\ \A u \in Job \ {w} : life'[u] = life[u]
    <3>1. Started(n, s, w)
      BY <1>1, StartFacts
    <3>. QED BY <3>1 DEF Started
  <2>2. life[w] = "Unborn"
    <3>1. w > spawned
      BY <2>1
    <3>. QED BY <2>1, <3>1 DEF Untouched
  <2>. QED BY <2>1, <2>2 DEF Begun
<1>2. ASSUME NEW n \in Name, NEW s \in Schedule, SetSchedule(n, s), ~Exit PROVE Begun(v)'
  BY <1>2 DEF SetSchedule, Begun
<1>3. CASE Administers
  BY <1>3, AdministersFrame DEF Begun
<1>4. ASSUME NEW w \in Job, JobLoop(w) \/ Fire(w) PROVE Begun(v)'
  BY <1>4, JobFrame DEF Begun
<1>. QED BY <1>1, <1>2, <1>3, <1>4, NextSplit

LEMMA StartsOnceStep ==
    ASSUME CronAssumption, TypeOK, OneName, Untouched, StartsOnce, Next PROVE StartsOnce'
<1>1. \A i \in 1 .. Len(sup) : sup[i].job \in Job
  BY SupFacts
<1>2. ASSUME sup' = sup, \A v \in Job : Begun(v) => Begun(v)' PROVE StartsOnce'
  BY <1>1, <1>2 DEF StartsOnce
<1>3. \A v \in Job : Begun(v) => Begun(v)'
  BY BegunKept
<1>4. CASE \E n \in Name, s \in Schedule : Start(n, s)
  BY <1>2, <1>3, <1>4 DEF Start
<1>5. ASSUME NEW n \in Name, NEW s \in Schedule, SetSchedule(n, s), ~Exit PROVE StartsOnce'
  <2>1. UNCHANGED <<life, sup>>
    BY <1>5 DEF SetSchedule
  <2>. QED BY <1>2, <2>1 DEF Begun
<1>6. CASE Administers
  <2>1. UNCHANGED life
    BY <1>6, AdministersFrame
  <2>2. CASE sup' = sup
    BY <1>2, <2>1, <2>2 DEF Begun
  <2>3. CASE sup' = <<>>
    <3>1. Len(sup') = 0
      BY <2>3, EmptySeq
    <3>. QED BY <3>1 DEF StartsOnce
  <2>4. CASE sup # <<>> /\ sup' = Tail(sup)
    <3>1. /\ Len(sup') = Len(sup) - 1 /\ Len(sup) \in Nat
          /\ \A i \in 1 .. Len(sup') : i + 1 \in 1 .. Len(sup) /\ sup'[i] = sup[i + 1]
      BY <2>4, SupFacts
    <3>2. \A i \in 1 .. Len(sup') : sup'[i].type = "ActorStarted" => Begun(sup'[i].job)
      BY <3>1 DEF StartsOnce
    <3>3. ASSUME NEW i \in 1 .. Len(sup'), NEW j \in 1 .. Len(sup'),
                 sup'[i].type = "ActorStarted", sup'[i] = sup'[j]
          PROVE  i = j
      <4>1. i + 1 = j + 1
        BY <3>1, <3>3 DEF StartsOnce
      <4>. QED BY <4>1
    <3>. QED BY <2>1, <3>2, <3>3 DEF StartsOnce, Begun
  <2>. QED BY <1>6, <2>2, <2>3, <2>4, AdministersSup
<1>7. ASSUME NEW w \in Job, JobLoop(w) \/ Fire(w) PROVE StartsOnce'
  <2>1. \A v \in Job : Begun(v) => Begun(v)'
    BY <1>3
  <2>2. CASE sup' = sup
    BY <1>2, <2>1, <2>2
  <2>3. ASSUME NEW type \in {"ActorFailed", "ActorTerminated", "ActorStarted"},
               Len(sup') = Len(sup) + 1, sup'[Len(sup) + 1] = [type |-> type, job |-> w],
               \A i \in 1 .. Len(sup) : sup'[i] = sup[i],
               type = "ActorStarted" => life[w] = "Starting" /\ life'[w] = "Running"
        PROVE  StartsOnce'
    <3>1. Len(sup) \in Nat
      BY SupFacts
    <3>2. ASSUME NEW i \in 1 .. Len(sup') PROVE (sup[i].type = "ActorStarted" => Begun(sup[i].job))'
      <4>1. CASE i = Len(sup) + 1
        BY <2>3, <4>1 DEF Begun
      <4>2. CASE i \in 1 .. Len(sup)
        BY <1>1, <2>1, <2>3, <4>2 DEF StartsOnce
      <4>. QED BY <2>3, <3>1, <4>1, <4>2
    <3>3. ASSUME NEW i \in 1 .. Len(sup), sup[i].type = "ActorStarted", type = "ActorStarted"
          PROVE  sup[i] # sup'[Len(sup) + 1]
      BY <2>3, <3>3 DEF StartsOnce, Begun
    <3>4. ASSUME NEW i \in 1 .. Len(sup'), NEW j \in 1 .. Len(sup'),
                 sup'[i].type = "ActorStarted", sup'[i] = sup'[j]
          PROVE  i = j
      <4>1. CASE i \in 1 .. Len(sup) /\ j \in 1 .. Len(sup)
        BY <2>3, <3>4, <4>1 DEF StartsOnce
      <4>2. CASE i = Len(sup) + 1 /\ j \in 1 .. Len(sup)
        BY <2>3, <3>3, <3>4, <4>2
      <4>3. CASE i \in 1 .. Len(sup) /\ j = Len(sup) + 1
        BY <2>3, <3>3, <3>4, <4>3
      <4>. QED BY <2>3, <3>1, <4>1, <4>2, <4>3
    <3>. QED BY <3>2, <3>4 DEF StartsOnce
  <2>4. CASE life[w] = "Starting" /\ life'[w] = "Running" /\ sup' = Reported("ActorStarted", w)
    BY <2>2, <2>3, <2>4, ReportedFacts
  <2>5. CASE sup' = Reported("ActorFailed", w)
    BY <2>2, <2>3, <2>5, ReportedFacts
  <2>6. CASE sup' = Reported("ActorTerminated", w)
    BY <2>2, <2>3, <2>6, ReportedFacts
  <2>. QED BY <1>7, <2>2, <2>4, <2>5, <2>6, JobSup
<1>. QED BY <1>4, <1>5, <1>6, <1>7, NextSplit

LEMMA HeardKept ==
    ASSUME NEW s \in Subscriber, NEW w \in Job, Heard(told[s][w], w), told'[s][w] = told[s][w],
           Begun(w) => Begun(w)', Begun(w) /\ NoStart(w) => NoStart(w)',
           ~Listed(w) /\ w <= spawned => ~Listed(w)' /\ w <= spawned'
    PROVE  Heard(told[s][w], w)'
<1>1. CASE told[s][w] = <<>>
  BY <1>1 DEF Heard
<1>2. CASE told[s][w] = <<"started">> /\ Begun(w) /\ NoStart(w)
  BY <1>2 DEF Heard
<1>3. CASE /\ ~Listed(w) /\ w <= spawned
           /\ \A i, j \in 1 .. Len(told[s][w]) :
                 i < j => told[s][w][i] = "started" /\ told[s][w][j] # "started"
  BY <1>3 DEF Heard
<1>. QED BY <1>1, <1>2, <1>3 DEF Heard

\* The end of a job on the table is the first or the second that is heard of it.
LEMMA EndHeard ==
    ASSUME NEW s \in Subscriber, NEW w \in Job, Heard(told[s][w], w), Listed(w),
           NEW what, what # "started", told'[s][w] = Append(told[s][w], what),
           ~Listed(w)', w <= spawned'
    PROVE  Heard(told[s][w], w)'
<1> DEFINE q == told[s][w]
           r == told'[s][w]
<1>1. q = <<>> \/ q = <<"started">>
  BY DEF Heard
<1> HIDE DEF q
<1>2. q \in Seq({"started", what}) /\ (Len(q) = 0 \/ (Len(q) = 1 /\ q[1] = "started"))
  <2>1. CASE q = <<>>
    BY <2>1, EmptySeq
  <2>2. CASE q = <<"started">>
    BY <2>2
  <2>. QED BY <1>1, <2>1, <2>2
<1>3. /\ Len(r) = Len(q) + 1 /\ r[Len(q) + 1] = what
      /\ \A i \in 1 .. Len(q) : r[i] = q[i]
  BY <1>2, AppendProperties DEF q
<1> HIDE DEF r
<1>4. \A i, j \in 1 .. Len(r) : i < j => r[i] = "started" /\ r[j] # "started"
  BY <1>2, <1>3
<1>. QED BY <1>4 DEF Heard, r

LEMMA NoStartKept ==
    ASSUME TypeOK, NEW w \in Job, NoStart(w),
           sup' = sup \/ sup' = <<>> \/ (sup # <<>> /\ sup' = Tail(sup))
    PROVE  NoStart(w)'
<1>1. CASE sup' = sup
  BY <1>1 DEF NoStart
<1>2. CASE sup' = <<>>
  BY <1>2, EmptySeq DEF NoStart
<1>3. CASE sup # <<>> /\ sup' = Tail(sup)
  <2>1. \A i \in 1 .. Len(sup') : i + 1 \in 1 .. Len(sup) /\ sup'[i] = sup[i + 1]
    BY <1>3, SupFacts
  <2>. QED BY <2>1 DEF NoStart
<1>. QED BY <1>1, <1>2, <1>3

LEMMA NotifiedFacts ==
    ASSUME TypeOK, NEW w \in Job, NEW what, told' = Notified(w, what), NEW s \in Subscriber
    PROVE  /\ \A v \in Job \ {w} : told'[s][v] = told[s][v]
           /\ told'[s][w] = told[s][w] \/ told'[s][w] = Append(told[s][w], what)
<1>1. told[s] \in [Job -> Seq(Notification)] /\ told'[s] \in {told[s], [told[s] EXCEPT ![w] = Append(@, what)]}
  BY DEF TypeOK, Notified
<1>. QED BY <1>1

\* Taking a job off the table takes off its only name.
LEMMA RemovedFacts ==
    ASSUME TypeOK, OneName, NEW n \in DOMAIN jobs, jobs' = Removed(n), UNCHANGED spawned
    PROVE  /\ Listed(jobs[n].job) /\ jobs[n].job \in Job /\ jobs[n].job <= spawned
           /\ \A w : w = jobs[n].job => ~Listed(w)'
           /\ \A w \in Job : ~Listed(w) => ~Listed(w)'
<1>1. DOMAIN jobs' = DOMAIN jobs \ {n} /\ \A m \in DOMAIN jobs' : jobs'[m] = jobs[m]
  BY DEF Removed, Restrict
<1>. QED BY <1>1, EntryTypes DEF OneName, Listed

LEMMA HeardStep ==
    ASSUME CronAssumption, TypeOK, OneName, Untouched, StartsOnce, HeardInOrder, Next
    PROVE  HeardInOrder'
<1>1. \A s \in Subscriber, w \in Job : Heard(told[s][w], w)
  BY DEF HeardInOrder
<1>2. \A v \in Job : Begun(v) => Begun(v)'
  BY BegunKept
<1>3. ASSUME NEW n \in Name, NEW x \in Schedule, Start(n, x), NEW s \in Subscriber, NEW v \in Job
      PROVE  Heard(told[s][v], v)'
  <2> DEFINE w == spawned + 1
  <2>1. /\ w \in Job /\ spawned \in Nat /\ spawned' = w
        /\ DOMAIN jobs' = DOMAIN jobs \cup {n} /\ jobs'[n].job = w
        /\ \A m \in DOMAIN jobs : jobs'[m] = jobs[m]
        /\ UNCHANGED <<sup, told>>
    <3>1. Started(n, x, w)
      BY <1>3, StartFacts
    <3>. QED BY <3>1 DEF Started
  <2>2. v <= spawned => v <= w /\ v # w
    BY <2>1 DEF Job, CronAssumption
  <2>3. ~Listed(v) /\ v <= spawned => ~Listed(v)' /\ v <= spawned'
    BY <2>1, <2>2 DEF Listed
  <2>4. NoStart(v) => NoStart(v)'
    BY <2>1 DEF NoStart
  <2>. QED BY <1>1, <1>2, <2>1, <2>3, <2>4, HeardKept
<1>4. ASSUME NEW n \in Name, NEW x \in Schedule, SetSchedule(n, x), ~Exit, NEW s \in Subscriber,
             NEW v \in Job
      PROVE  Heard(told[s][v], v)'
  <2> DEFINE w == jobs[n].job
  <2>1. /\ n \in DOMAIN jobs /\ DOMAIN jobs' = DOMAIN jobs /\ jobs'[n].job = w
        /\ \A m \in DOMAIN jobs \ {n} : jobs'[m] = jobs[m]
        /\ UNCHANGED <<spawned, sup, told>>
    <3>1. Adjusted(n, x, w)
      BY <1>4, SetScheduleFacts
    <3>. QED BY <3>1 DEF Adjusted
  <2>2. Listed(v)' => Listed(v)
    BY <2>1 DEF Listed
  <2>3. NoStart(v) => NoStart(v)'
    BY <2>1 DEF NoStart
  <2>. QED BY <1>1, <1>2, <2>1, <2>2, <2>3, HeardKept
\* Nobody hears anything of a job that the step is not about.
<1>5. ASSUME Administers, NEW s \in Subscriber, NEW v \in Job, told'[s][v] = told[s][v]
      PROVE  Heard(told[s][v], v)'
  <2>1. /\ UNCHANGED spawned /\ DOMAIN jobs' \subseteq DOMAIN jobs
        /\ \A n \in DOMAIN jobs' : jobs'[n] = jobs[n]
    BY <1>5, AdministersFrame
  <2>2. ~Listed(v) => ~Listed(v)'
    BY <2>1 DEF Listed
  <2>3. NoStart(v) => NoStart(v)'
    BY <1>5, AdministersSup, NoStartKept
  <2>. QED BY <1>1, <1>2, <1>5, <2>1, <2>2, <2>3, HeardKept
\* The end of a job on the table is announced, and its name taken off.
<1>6. ASSUME Administers, NEW n \in DOMAIN jobs, jobs' = Removed(n),
             NEW what, what # "started", told' = Notified(jobs[n].job, what),
             NEW s \in Subscriber, NEW v \in Job
      PROVE  Heard(told[s][v], v)'
  <2>0. UNCHANGED spawned
    BY <1>6, AdministersFrame
  <2>1. jobs[n].job \in Job
    BY EntryTypes
  <2>2. CASE v # jobs[n].job
    BY <1>5, <1>6, <2>1, <2>2, NotifiedFacts
  <2>3. CASE v = jobs[n].job
    <3>1. Listed(v) /\ ~Listed(v)' /\ v <= spawned'
      BY <1>6, <2>0, <2>3, RemovedFacts
    <3>2. CASE told'[s][v] = Append(told[s][v], what)
      BY <1>1, <1>6, <3>1, <3>2, EndHeard
    <3>3. CASE told'[s][v] = told[s][v]
      BY <1>5, <1>6, <3>3
    <3>. QED BY <1>6, <2>1, <2>3, <3>2, <3>3, NotifiedFacts
  <2>. QED BY <2>2, <2>3
<1>7. ASSUME NEW n \in Name, Stop(n), NEW s \in Subscriber, NEW v \in Job
      PROVE  Heard(told[s][v], v)'
  BY <1>6, <1>7 DEF Stop, Administers
<1>8. ASSUME HandleSupervisorEvt, NEW s \in Subscriber, NEW v \in Job PROVE Heard(told[s][v], v)'
  <2>0. PICK w : w = Head(sup).job
    OBVIOUS
  <2>1. /\ sup # <<>> /\ sup' = Tail(sup) /\ Administers
        /\ Head(sup) = sup[1] /\ Head(sup) \in SupervisionEvent /\ w \in Job
        /\ 1 \in 1 .. Len(sup)
        /\ \A i \in 1 .. Len(sup') : i + 1 \in 1 .. Len(sup) /\ sup'[i] = sup[i + 1]
    BY <1>8, <2>0, SupFacts DEF HandleSupervisorEvt, Administers
  <2>2. CASE UNCHANGED told
    BY <1>5, <2>1, <2>2
  <2>3. CASE NamesOf(w) # {} /\ Head(sup).type = "ActorStarted" /\ told' = Notified(w, "started")
    <3>1. CASE v # w
      BY <1>5, <2>1, <2>3, <3>1, NotifiedFacts
    <3>2. CASE v = w
      <4>1. ~NoStart(v) /\ Begun(v)
        BY <2>0, <2>1, <2>3, <3>2 DEF NoStart, StartsOnce, SupervisionEvent
      <4>2. Listed(v)
        BY <2>3, <3>2 DEF NamesOf, Listed
      <4>3. told[s][v] = <<>>
        BY <1>1, <4>1, <4>2 DEF Heard
      <4>4. NoStart(v)'
        <5>1. \A i \in 1 .. Len(sup') : sup'[i] # sup[1]
          BY <2>1, <2>3 DEF StartsOnce
        <5>2. sup[1] = [type |-> "ActorStarted", job |-> v]
          BY <2>0, <2>1, <2>3, <3>2 DEF SupervisionEvent
        <5>. QED BY <5>1, <5>2 DEF NoStart
      <4>5. told'[s][v] = <<>> \/ told'[s][v] = <<"started">>
        BY <2>1, <2>3, <3>2, <4>3, NotifiedFacts
      <4>. QED BY <1>2, <4>1, <4>4, <4>5 DEF Heard
    <3>. QED BY <3>1, <3>2
  <2>4. ASSUME NEW n \in NamesOf(w), jobs' = Removed(n),
               NEW what \in {"failed", "stopped"}, told' = Notified(w, what)
        PROVE  Heard(told[s][v], v)'
    BY <1>6, <2>1, <2>4 DEF NamesOf
  <2>. QED BY <1>8, <2>0, <2>2, <2>3, <2>4 DEF HandleSupervisorEvt
<1>9. ASSUME Administers, NEW s \in Subscriber, NEW v \in Job PROVE Heard(told[s][v], v)'
  <2>1. CASE \E n \in Name : Stop(n)
    BY <1>7, <2>1
  <2>2. CASE HandleSupervisorEvt
    BY <1>8, <2>2
  <2>3. CASE UNCHANGED told
    BY <1>5, <1>9, <2>3
  <2>. QED BY <1>9, <2>1, <2>2, <2>3 DEF Administers, Subscribe, Unsubscribe, StopManager,
                                         ManagerPostStop, Exit
<1>10. ASSUME NEW w \in Job, JobLoop(w) \/ Fire(w), NEW s \in Subscriber, NEW v \in Job
       PROVE  Heard(told[s][v], v)'
  <2>1. UNCHANGED <<jobs, spawned, told>>
    BY <1>10, JobFrame
  <2>2. Begun(v) /\ NoStart(v) => NoStart(v)'
    <3> SUFFICES ASSUME Begun(v), NoStart(v) PROVE NoStart(v)'
      OBVIOUS
    <3>1. CASE sup' = sup
      BY <3>1 DEF NoStart
    <3>2. ASSUME NEW type \in {"ActorFailed", "ActorTerminated", "ActorStarted"},
                 sup' = Reported(type, w), type = "ActorStarted" => life[w] = "Starting"
          PROVE  NoStart(v)'
      <4>1. [type |-> type, job |-> w] # [type |-> "ActorStarted", job |-> v]
        BY <3>2 DEF Begun
      <4>2. Len(sup) \in Nat
        BY SupFacts
      <4>3. CASE /\ Len(sup') = Len(sup) + 1 /\ sup'[Len(sup) + 1] = [type |-> type, job |-> w]
                 /\ \A i \in 1 .. Len(sup) : sup'[i] = sup[i]
        BY <4>1, <4>2, <4>3 DEF NoStart
      <4>. QED BY <3>1, <3>2, <4>3, ReportedFacts
    <3>. QED BY <1>10, <3>1, <3>2, JobSup
  <2>3. Listed(v)' <=> Listed(v)
    BY <2>1 DEF Listed
  <2>. QED BY <1>1, <1>2, <2>1, <2>2, <2>3, HeardKept
<1>11. \A s \in Subscriber, v \in Job : Heard(told[s][v], v)'
  BY <1>3, <1>4, <1>9, <1>10, NextSplit
<1>. QED BY <1>11 DEF HeardInOrder

-----------------------------------------------------------------------------
LEMMA InitCron == ASSUME CronAssumption, Init PROVE CronInv
<1>1. TypeOK
  BY InitTyped
<1>2. OneName /\ Agreed
  BY DEF Init, NoJobs, OneName, Agreed
<1>3. Untouched /\ KeepsBeating
  BY DEF Init, Untouched, KeepsBeating, Alive
<1>4. StartsOnce
  BY EmptySeq DEF Init, StartsOnce
<1>5. HeardInOrder
  BY DEF Init, HeardInOrder, Heard
<1>. QED BY <1>1, <1>2, <1>3, <1>4, <1>5 DEF CronInv

LEMMA CronStep == ASSUME CronAssumption, CronInv, [Next]_vars PROVE CronInv'
<1>1. TypeOK'
  BY TypedStep DEF CronInv
<1>2. CASE Next
  BY <1>1, <1>2, TableStep, BeatStep, AgreedStep, StartsOnceStep, HeardStep DEF CronInv
<1>3. CASE UNCHANGED vars
  <2>1. UNCHANGED <<jobs, spawned, sup, life, schedule, handle, detached, busy, inbox, told>>
    BY <1>3 DEF vars, managerVars, jobVars, timerVars
  <2>2. OneName' /\ Untouched' /\ StartsOnce'
    BY <2>1 DEF CronInv, OneName, Untouched, StartsOnce, Begun
  <2>3. KeepsBeating'
    BY <2>1 DEF CronInv, KeepsBeating, Alive, Queued
  <2>4. Agreed'
    BY <2>1 DEF CronInv, Agreed, Alive, RunsOn
  <2>5. HeardInOrder'
    BY <2>1 DEF CronInv, HeardInOrder, Heard, Begun, NoStart, Listed
  <2>. QED BY <1>1, <2>2, <2>3, <2>4, <2>5 DEF CronInv
<1>. QED BY <1>2, <1>3

THEOREM CronInvariant == Spec => []CronInv
<1>1. Init => CronInv
  BY InitCron, CronAssumption
<1>2. CronInv /\ [Next]_vars => CronInv'
  BY CronStep, CronAssumption
<1>. QED BY <1>1, <1>2, PTL DEF Spec

\* A job whose schedule has a next date never loses its beat: a timer is pending, an
\* Execute waits, or it executes, whatever was set, fired or aborted in between.
THEOREM BeatGoesOn == Spec => []KeepsBeating
<1>1. CronInv => KeepsBeating
  BY DEF CronInv
<1>. QED BY <1>1, CronInvariant, PTL

\* The schedule that the manager lists is the one the job runs on, or is about to.
THEOREM SchedulesAgree == Spec => []ScheduleAgreed
<1>1. ASSUME CronInv PROVE ScheduleAgreed
  <2> SUFFICES ASSUME NEW n \in DOMAIN jobs, Alive(jobs[n].job)
               PROVE  jobs[n].schedule = LastSchedule(jobs[n].job)
    BY DEF ScheduleAgreed
  <2> DEFINE w == jobs[n].job
             U == {i \in DOMAIN inbox[w] : inbox[w][i].type = "UpdateSchedule"}
  <2>1. w \in Job /\ RunsOn(w, jobs[n].schedule) /\ TypeOK
    BY <1>1, EntryTypes DEF CronInv, Agreed
  <2>2. DOMAIN inbox[w] = 1 .. Len(inbox[w]) /\ Len(inbox[w]) \in Nat
    BY <2>1, JobTypes, LenProperties
  <2>3. Queued(w, "UpdateSchedule") <=> U # {}
    BY DEF Queued
  <2>4. LastSchedule(w) = IF U # {} THEN inbox[w][CHOOSE i \in U : \A j \in U : j <= i].schedule
                          ELSE schedule[w]
    BY <2>3 DEF LastSchedule
  <2> HIDE DEF w
  <2>5. CASE /\ schedule[w] = jobs[n].schedule
             /\ \A i \in 1 .. Len(inbox[w]) : inbox[w][i].type # "UpdateSchedule"
    BY <2>2, <2>4, <2>5 DEF w
  <2>6. ASSUME NEW i \in 1 .. Len(inbox[w]), inbox[w][i].type = "UpdateSchedule",
               inbox[w][i].schedule = jobs[n].schedule,
               \A j \in i + 1 .. Len(inbox[w]) : inbox[w][j].type # "UpdateSchedule"
        PROVE  jobs[n].schedule = LastSchedule(w)
    <3>1. i \in U /\ U \subseteq Nat
      BY <2>2, <2>6
    <3>2. \A j \in U : j <= i
      BY <2>2, <2>6
    <3> HIDE DEF U
    <3> DEFINE k == CHOOSE h \in U : \A j \in U : j <= h
    <3>3. k \in U /\ \A j \in U : j <= k
      BY <3>1, <3>2
    <3> HIDE DEF k
    <3>4. i = k
      BY <3>1, <3>2, <3>3
    <3>. QED BY <2>4, <2>6, <3>1, <3>4 DEF k
  <2>. QED BY <2>1, <2>5, <2>6 DEF RunsOn, w
<1>. QED BY <1>1, CronInvariant, PTL

\* A subscriber hears of the end of a job at most once, and of nothing after it.
THEOREM EndsOnce == Spec => []OneEnding
<1>1. ASSUME CronInv PROVE OneEnding
  <2> SUFFICES ASSUME NEW s \in Subscriber, NEW w \in Job,
                      NEW i \in DOMAIN told[s][w], NEW j \in DOMAIN told[s][w], i < j
               PROVE  told[s][w][i] = "started" /\ told[s][w][j] # "started"
    BY DEF OneEnding
  <2>1. Heard(told[s][w], w) /\ told[s][w] \in Seq(Notification)
    BY <1>1, JobTypes DEF CronInv, HeardInOrder
  <2>2. i \in 1 .. Len(told[s][w]) /\ j \in 1 .. Len(told[s][w])
    BY <2>1, LenProperties
  <2>. QED BY <2>1, <2>2 DEF Heard
<1>. QED BY <1>1, CronInvariant, PTL

-----------------------------------------------------------------------------
(* The table is a JobBoard.                                                *)

\* A job on the table is not killed, so that none goes before its start is reported.
KilledLast ==
    /\ \A w \in Job : asked[w] = "Kill" => manager = "Down"
    /\ manager \in {"Exiting", "Down"} => DOMAIN jobs = {}

LEMMA KilledLastStep ==
    ASSUME CronAssumption, TypeOK, OneName, KilledLast, [Next]_vars PROVE KilledLast'
<1> USE DEF managerVars, timerVars, jobVars, Set
<1>0. DOMAIN NoJobs = {}
  BY DEF NoJobs
<1>1. CASE UNCHANGED vars
  BY <1>1 DEF vars, KilledLast
<1>2. CASE Exit
  BY <1>0, <1>2 DEF Exit, KilledLast
<1>3. ASSUME NEW n \in Name, NEW s \in Schedule, Start(n, s) PROVE KilledLast'
  BY <1>3 DEF Start, Free, KilledLast
<1>4. ASSUME NEW n \in Name, NEW s \in Schedule, SetSchedule(n, s), ~Exit PROVE KilledLast'
  BY <1>4 DEF SetSchedule, Change, Free, KilledLast
<1>5. ASSUME NEW n \in Name, Stop(n) PROVE KilledLast'
  BY <1>5 DEF Stop, Free, Asked, KilledLast
<1>6. ASSUME NEW s \in Subscriber, Subscribe(s) \/ Unsubscribe(s) PROVE KilledLast'
  BY <1>6 DEF Subscribe, Unsubscribe, KilledLast
<1>7. CASE HandleSupervisorEvt
  BY <1>7 DEF HandleSupervisorEvt, KilledLast
<1>8. CASE StopManager
  BY <1>8 DEF StopManager, KilledLast
<1>9. CASE ManagerPostStop
  BY <1>0, <1>9 DEF ManagerPostStop, Asked, KilledLast
<1>10. ASSUME NEW w \in Job, JobLoop(w) \/ Fire(w) PROVE KilledLast'
  <2>1. UNCHANGED <<manager, jobs>>
    BY <1>10 DEF JobLoop, Begin, ExecuteBegins, ExecuteEnds, UpdateSchedule, Fail, PostStop, Die,
                 Report, Fire
  <2>2. \A v \in Job : asked'[v] = "Kill" => asked[v] = "Kill"
    BY <1>10 DEF JobLoop, Begin, ExecuteBegins, ExecuteEnds, UpdateSchedule, Fail, PostStop, Die,
                 Report, Fire, Gone, TypeOK
  <2>. QED BY <2>1, <2>2 DEF KilledLast
<1>. QED
  BY <1>1, <1>2, <1>3, <1>4, <1>5, <1>6, <1>7, <1>8, <1>9, <1>10, NextSplit DEF Administers

\* Announced, in the words of the invariant.
Told(v) == Listed(v) /\ Begun(v) /\ NoStart(v)

TheToldAreAnnounced == Announced = {v \in Job : Told(v)}

LEMMA AnnouncedIs == TypeOK => TheToldAreAnnounced
<1> SUFFICES ASSUME TypeOK PROVE TheToldAreAnnounced
  OBVIOUS
<1>1. DOMAIN sup = 1 .. Len(sup)
  BY LenProperties DEF TypeOK
<1>. QED BY <1>1 DEF TheToldAreAnnounced, Announced, Told, Begun, NoStart

LEMMA AnnouncedStays == TypeOK' => TheToldAreAnnounced'
BY AnnouncedIs, PTL

LEMMA BoardStutters ==
    ASSUME TypeOK, TypeOK', UNCHANGED <<jobs, subs, told, spawned>>,
           \A v \in Job : Listed(v) => (Told(v)' <=> Told(v))
    PROVE  UNCHANGED TheBoard!vars
<1>1. \A v \in Job : Told(v)' <=> Told(v)
  BY DEF Told, Listed
<1>2. Announced' = Announced
  BY <1>1, AnnouncedIs, AnnouncedStays DEF TheToldAreAnnounced
<1>. QED BY <1>2 DEF TheBoard!vars

LEMMA StartIsPut ==
    ASSUME CronAssumption, CronInv, TypeOK', NEW n \in Name, NEW s \in Schedule, Start(n, s)
    PROVE  TheBoard!Next
<1> PICK w : w = spawned + 1
  OBVIOUS
<1>1. /\ w \in Job /\ spawned \in Nat /\ spawned' = w /\ n \notin DOMAIN jobs
      /\ DOMAIN jobs' = DOMAIN jobs \cup {n} /\ jobs'[n].job = w
      /\ \A m \in DOMAIN jobs : jobs'[m] = jobs[m] /\ jobs[m].job \in Job \ {w}
      /\ life'[w] = "Starting" /\ \A v \in Job \ {w} : life'[v] = life[v]
      /\ UNCHANGED <<sup, told>>
  <2>1. Started(n, s, w)
    BY StartFacts DEF CronInv
  <2>. QED BY <2>1 DEF Started
<1>2. \A v \in Job : v \in Nat
  BY DEF CronAssumption, Job
<1>3. {v \in Job : v > spawned'} = {v \in Job : v > spawned} \ {w}
  <2>1. ASSUME NEW v \in Job PROVE v > spawned' <=> v > spawned /\ v # w
    BY <1>1, <1>2
  <2>. QED BY <2>1, Zenon
<1>4. w \in {v \in Job : v > spawned}
  BY <1>1
<1>5. \A v \in Job : Told(v)' <=> Told(v)
  <2>1. ~Told(w)' /\ ~Told(w)
    BY <1>1 DEF Told, Begun, Listed
  <2>2. ASSUME NEW v \in Job \ {w} PROVE Told(v)' <=> Told(v)
    BY <1>1 DEF Told, Begun, Listed, NoStart
  <2>. QED BY <2>1, <2>2
<1>6. Announced' = Announced
  BY <1>5, AnnouncedIs, AnnouncedStays DEF CronInv, TheToldAreAnnounced
<1>7. jobs' = [m \in DOMAIN jobs \cup {n} |->
                    IF m = n THEN [schedule |-> s, job |-> w] ELSE jobs[m]] /\ UNCHANGED subs
  BY DEF Start, Inserted
<1>8. TheBoard!Put(n, w, s)
  BY <1>1, <1>3, <1>4, <1>6, <1>7 DEF TheBoard!Put
<1>. QED BY <1>1, <1>8 DEF TheBoard!Next

LEMMA SetScheduleIsReschedule ==
    ASSUME CronAssumption, CronInv, TypeOK', NEW n \in Name, NEW s \in Schedule, SetSchedule(n, s), ~Exit
    PROVE  TheBoard!Next
<1> PICK w : w = jobs[n].job
  OBVIOUS
<1>1. /\ n \in DOMAIN jobs /\ w \in Job /\ DOMAIN jobs' = DOMAIN jobs /\ jobs'[n].job = w
      /\ \A m \in DOMAIN jobs \ {n} : jobs'[m] = jobs[m]
      /\ UNCHANGED <<spawned, life, sup, told>>
  <2>1. Adjusted(n, s, w)
    BY SetScheduleFacts DEF CronInv
  <2>. QED BY <2>1 DEF Adjusted
<1>2. jobs' = Inserted(n, [schedule |-> s, job |-> w]) /\ UNCHANGED subs
  BY DEF SetSchedule
<1>3. jobs' = [jobs EXCEPT ![n].schedule = s]
  <2>1. jobs[n] \in Entry
    BY <1>1, EntryTypes DEF CronInv
  <2>2. [jobs[n] EXCEPT !.schedule = s] = [schedule |-> s, job |-> w]
    BY <2>1 DEF Entry
  <2>3. jobs \in [DOMAIN jobs -> Entry]
    BY DEF CronInv, TypeOK
  <2>. QED BY <1>1, <1>2, <2>2, <2>3 DEF Inserted
<1>4. \A v \in Job : Told(v)' <=> Told(v)
  BY <1>1 DEF Told, Listed, Begun, NoStart
<1>5. Announced' = Announced
  BY <1>4, AnnouncedIs, AnnouncedStays DEF CronInv, TheToldAreAnnounced
<1>6. TheBoard!Reschedule(n, s)
  BY <1>1, <1>2, <1>3, <1>5 DEF TheBoard!Reschedule
<1>. QED BY <1>6 DEF TheBoard!Next

\* With a name goes its job, and no other.
LEMMA RemovedIsTakeOff ==
    ASSUME CronAssumption, CronInv, TypeOK', NEW n \in DOMAIN jobs, jobs' = Removed(n),
           NEW what \in {"stopped", "failed"}, told' = Notified(jobs[n].job, what),
           UNCHANGED <<spawned, subs, life>>, \A v \in Job : v # jobs[n].job => (NoStart(v)' <=> NoStart(v))
    PROVE  TheBoard!Next
<1> PICK w : w = jobs[n].job
  OBVIOUS
<1>1. n \in Name /\ w \in Job /\ OneName
  BY EntryTypes DEF CronInv
<1>2. jobs' = [m \in DOMAIN jobs \ {n} |-> jobs[m]]
  BY DEF Removed, Restrict
<1>3. \A v \in Job : Listed(v)' <=> Listed(v) /\ v # w
  BY <1>1, <1>2 DEF Listed, OneName
<1>4. \A v \in Job : Told(v)' <=> Told(v) /\ v # w
  BY <1>3 DEF Told, Begun
<1>5. Announced' = Announced \ {w}
  BY <1>4, AnnouncedIs, AnnouncedStays DEF CronInv, TheToldAreAnnounced
<1>6. TheBoard!Tell(w, what)
  BY DEF TheBoard!Tell, Notified
<1>7. TheBoard!TakeOff(n)
  BY <1>2, <1>5, <1>6 DEF TheBoard!TakeOff
<1>. QED BY <1>1, <1>7 DEF TheBoard!Next

LEMMA TableCloses ==
    ASSUME TypeOK, TypeOK', jobs' = NoJobs, UNCHANGED <<spawned, told>>, subs' \in {subs, {}}
    PROVE  TheBoard!Next
<1>1. jobs' = TheBoard!Empty
  BY DEF NoJobs, TheBoard!Empty
<1>2. \A v \in Job : ~Told(v)'
  BY DEF Told, Listed, NoJobs
<1>3. Announced' = {}
  BY <1>2, AnnouncedStays DEF TheToldAreAnnounced
<1>4. TheBoard!Close
  BY <1>1, <1>3 DEF TheBoard!Close
<1>. QED BY <1>4 DEF TheBoard!Next

\* A report is of one job, and the rest of the port stays.
LEMMA ReportedOf ==
    ASSUME TypeOK, NEW w \in Job, NEW v \in Job,
           NEW type \in {"ActorStarted", "ActorFailed", "ActorTerminated"},
           sup' = Reported(type, w), v # w \/ type # "ActorStarted"
    PROVE  NoStart(v)' <=> NoStart(v)
<1>1. [type |-> type, job |-> w] # [type |-> "ActorStarted", job |-> v]
  OBVIOUS
<1>2. Len(sup) \in Nat
  BY SupFacts
<1>3. CASE sup' = sup
  BY <1>3 DEF NoStart
<1>4. CASE /\ Len(sup') = Len(sup) + 1 /\ sup'[Len(sup) + 1] = [type |-> type, job |-> w]
           /\ \A i \in 1 .. Len(sup) : sup'[i] = sup[i]
  BY <1>1, <1>2, <1>4 DEF NoStart
<1>. QED BY <1>3, <1>4, ReportedFacts

\* A job starts, works and ends without the subscribers: they are told by the manager.
LEMMA JobsAreSilent ==
    ASSUME CronAssumption, CronInv, KilledLast, TypeOK', NEW w \in Job, JobLoop(w) \/ Fire(w)
    PROVE  UNCHANGED TheBoard!vars
<1> USE DEF managerVars, timerVars, Set
<1>1. UNCHANGED <<jobs, subs, told, spawned>> /\ \A v \in Job \ {w} : life'[v] = life[v]
  BY JobFrame DEF CronInv
<1>2. ASSUME NEW v \in Job, Listed(v) PROVE Told(v)' <=> Told(v)
  <2>1. manager # "Down" /\ asked[v] # "Kill"
    BY <1>2 DEF KilledLast, Listed
  <2>2. Listed(v)'
    BY <1>1, <1>2 DEF Listed
  <2>3. CASE v # w
    <3>1. NoStart(v)' <=> NoStart(v)
      BY <2>3, JobSup, ReportedOf DEF CronInv, NoStart
    <3>. QED BY <1>1, <1>2, <2>2, <2>3, <3>1 DEF Told, Begun
  <2>4. CASE v = w /\ Begin(w)
    <3>1. sup \in Seq(SupervisionEvent) /\ [type |-> "ActorStarted", job |-> w] \in SupervisionEvent
      BY MessageTypes DEF CronInv, TypeOK
    <3>2. sup' = Append(sup, [type |-> "ActorStarted", job |-> w])
      BY <2>1, <2>4 DEF Begin, Reported
    <3>3. /\ Len(sup) + 1 \in 1 .. Len(sup')
          /\ sup'[Len(sup) + 1] = [type |-> "ActorStarted", job |-> w]
      BY <3>1, <3>2, AppendProperties, LenProperties
    <3>4. ~NoStart(w)'
      BY <3>3 DEF NoStart
    <3>. QED BY <2>4, <3>4 DEF Begin, Told, Begun
  <2>5. CASE v = w /\ Report(w)
    <3>1. NoStart(w)' <=> NoStart(w)
      BY <2>5, ReportedOf DEF CronInv, Report
    <3>2. Begun(w) /\ Begun(w)'
      BY <2>5 DEF Report, Gone, Begun, CronInv, TypeOK
    <3>. QED BY <1>2, <2>2, <2>5, <3>1, <3>2 DEF Told
  <2>6. CASE v = w /\ ~Begin(w) /\ ~Report(w)
    <3>1. UNCHANGED sup /\ (Begun(w)' <=> Begun(w))
      BY <2>1, <2>6 DEF JobLoop, Die, Fire, ExecuteBegins, Receive, ExecuteEnds, UpdateSchedule, Fail,
                        PostStop, Begun, CronInv, TypeOK
    <3>. QED BY <1>2, <2>2, <2>6, <3>1 DEF Told, NoStart
  <2>. QED BY <2>3, <2>4, <2>5, <2>6
<1>. QED BY <1>1, <1>2, BoardStutters DEF CronInv

\* The event at the head of the port is about the job that it names, if that is listed.
LEMMA EventIsTold ==
    ASSUME CronAssumption, CronInv, TypeOK', HandleSupervisorEvt
    PROVE  TheBoard!Next \/ UNCHANGED TheBoard!vars
<1>0. PICK w : w = Head(sup).job
  OBVIOUS
<1>1. /\ sup # <<>> /\ sup' = Tail(sup) /\ UNCHANGED <<subs, spawned, life>>
      /\ Head(sup) = sup[1] /\ Head(sup) \in SupervisionEvent /\ w \in Job /\ sup[1].job = w
      /\ 1 \in 1 .. Len(sup) /\ Len(sup) \in Nat /\ Len(sup') = Len(sup) - 1
      /\ \A i \in 1 .. Len(sup') : i + 1 \in 1 .. Len(sup) /\ sup'[i] = sup[i + 1]
  BY <1>0, SupFacts DEF HandleSupervisorEvt, CronInv, jobVars
<1>2. ASSUME NEW v \in Job, v # w PROVE NoStart(v)' <=> NoStart(v)
  <2>1. ASSUME NEW i \in 1 .. Len(sup), NoStart(v)'
        PROVE  sup[i] # [type |-> "ActorStarted", job |-> v]
    <3>1. CASE i = 1
      BY <1>1, <1>2, <3>1
    <3>2. CASE i # 1
      <4>1. i - 1 \in 1 .. Len(sup') /\ (i - 1) + 1 = i
        BY <1>1, <3>2
      <4>2. sup'[i - 1] = sup[i]
        BY <1>1, <4>1
      <4>. QED BY <2>1, <4>1, <4>2 DEF NoStart
    <3>. QED BY <3>1, <3>2
  <2>. QED BY <1>1, <2>1 DEF NoStart
<1>3. CASE NamesOf(w) = {} /\ UNCHANGED <<jobs, told>>
  <2>1. ~Listed(w)
    BY <1>3 DEF NamesOf, Listed
  <2>2. \A v \in Job : Listed(v) => (Told(v)' <=> Told(v))
    BY <1>1, <1>2, <1>3, <2>1 DEF Told, Listed, Begun
  <2>. QED BY <1>1, <1>3, <2>2, BoardStutters DEF CronInv
<1>4. CASE /\ NamesOf(w) # {} /\ Head(sup).type = "ActorStarted"
           /\ told' = Notified(w, "started") /\ UNCHANGED jobs
  <2>1. PICK n \in DOMAIN jobs : jobs[n].job = w
    BY <1>4 DEF NamesOf
  <2>2. n \in Name /\ Listed(w) /\ Listed(w)'
    BY <1>4, <2>1, EntryTypes DEF CronInv, Listed
  <2>3. sup[1] = [type |-> "ActorStarted", job |-> w]
    BY <1>1, <1>4 DEF SupervisionEvent
  <2>4. Begun(w) /\ Begun(w)' /\ ~NoStart(w)
    BY <1>1, <2>3 DEF CronInv, StartsOnce, Begun, NoStart
  <2>5. NoStart(w)'
    <3>1. ASSUME NEW i \in 1 .. Len(sup') PROVE sup'[i] # sup[1]
      <4>1. i + 1 \in 1 .. Len(sup) /\ sup'[i] = sup[i + 1] /\ i + 1 # 1
        BY <1>1
      <4>. QED BY <1>1, <2>3, <4>1 DEF CronInv, StartsOnce
    <3>. QED BY <2>3, <3>1 DEF NoStart
  <2>6. \A v \in Job : v # w => (Told(v)' <=> Told(v))
    BY <1>1, <1>2, <1>4 DEF Told, Listed, Begun
  <2>7. Announced' = Announced \cup {w} /\ w \notin Announced
    BY <1>1, <2>2, <2>4, <2>5, <2>6, AnnouncedIs, AnnouncedStays DEF CronInv, TheToldAreAnnounced, Told
  <2>8. TheBoard!Tell(w, "started")
    BY <1>4 DEF TheBoard!Tell, Notified
  <2>9. TheBoard!Begin(n)
    BY <1>1, <1>4, <2>1, <2>7, <2>8 DEF TheBoard!Begin
  <2>. QED BY <2>2, <2>9 DEF TheBoard!Next
<1>5. ASSUME NEW n \in NamesOf(w), NEW what \in {"stopped", "failed"},
             told' = Notified(w, what), jobs' = Removed(n)
      PROVE  TheBoard!Next
  <2>1. n \in DOMAIN jobs /\ jobs[n].job = w
    BY DEF NamesOf
  <2>. QED BY <1>1, <1>2, <1>5, <2>1, RemovedIsTakeOff
<1>. QED BY <1>0, <1>3, <1>4, <1>5 DEF HandleSupervisorEvt

LEMMA BoardStep ==
    ASSUME CronAssumption, CronInv, KilledLast, TypeOK', [Next]_vars
    PROVE  [TheBoard!Next]_(TheBoard!vars)
<1> USE DEF managerVars, jobVars
<1>1. ASSUME UNCHANGED <<jobs, subs, told, spawned, life, sup>> PROVE UNCHANGED TheBoard!vars
  <2>1. \A v \in Job : Listed(v) => (Told(v)' <=> Told(v))
    BY <1>1 DEF Told, Listed, Begun, NoStart
  <2>. QED BY <1>1, <2>1, BoardStutters DEF CronInv
<1>2. CASE UNCHANGED vars
  BY <1>1, <1>2 DEF vars
<1>3. ASSUME NEW n \in Name, Stop(n) PROVE TheBoard!Next
  <2>1. UNCHANGED <<spawned, subs, life, sup>>
    BY <1>3 DEF Stop
  <2>2. \A v \in Job : NoStart(v)' <=> NoStart(v)
    BY <2>1 DEF NoStart
  <2>. QED BY <1>3, <2>1, <2>2, RemovedIsTakeOff DEF Stop
<1>4. ASSUME NEW s \in Subscriber, Subscribe(s) \/ Unsubscribe(s) PROVE TheBoard!Next
  <2>1. UNCHANGED <<jobs, told, spawned, life, sup>> /\ subs' \in SUBSET Subscriber
    BY <1>4 DEF Subscribe, Unsubscribe, CronInv, TypeOK
  <2>2. \A v \in Job : Told(v)' <=> Told(v)
    BY <2>1 DEF Told, Listed, Begun, NoStart
  <2>3. Announced' = Announced
    BY <2>2, AnnouncedIs, AnnouncedStays DEF CronInv, TheToldAreAnnounced
  <2>4. TheBoard!Subscribe
    BY <2>1, <2>3 DEF TheBoard!Subscribe
  <2>. QED BY <2>4 DEF TheBoard!Next
<1>5. CASE StopManager
  BY <1>1, <1>5 DEF StopManager
<1>6. CASE ManagerPostStop \/ Exit
  BY <1>6, TableCloses DEF ManagerPostStop, Exit, CronInv
<1>7. CASE Administers
  BY <1>3, <1>4, <1>5, <1>6, <1>7, EventIsTold DEF Administers
<1>. QED BY <1>2, <1>7, StartIsPut, SetScheduleIsReschedule, JobsAreSilent, NextSplit

\* Every run of the manager and its jobs is one of a JobBoard.
THEOREM CronIsJobBoard == Spec => ImplementsJobBoard
<1>1. Init => CronInv /\ KilledLast /\ TheBoard!Init
  <2> SUFFICES ASSUME Init PROVE CronInv /\ KilledLast /\ TheBoard!Init
    OBVIOUS
  <2>1. CronInv
    BY InitCron, CronAssumption
  <2>2. KilledLast
    BY DEF Init, KilledLast
  <2>3. {w \in Job : w > spawned} = Job
    BY CronAssumption DEF Init, Job
  <2>4. Announced = {}
    BY DEF Init, Announced, Listed, NoJobs
  <2>5. TheBoard!Init
    BY <2>3, <2>4 DEF Init, NoJobs, TheBoard!Init, TheBoard!Empty
  <2>. QED BY <2>1, <2>2, <2>5
<1>2. CronInv /\ KilledLast /\ [Next]_vars => CronInv' /\ KilledLast'
  BY CronStep, KilledLastStep, CronAssumption DEF CronInv
<1>3. CronInv /\ KilledLast /\ [Next]_vars => [TheBoard!Next]_(TheBoard!vars)
  BY CronStep, BoardStep, CronAssumption DEF CronInv
<1>. QED BY <1>1, <1>2, <1>3, PTL DEF Spec, ImplementsJobBoard, TheBoard!Spec

-----------------------------------------------------------------------------
(* Table and jobs will agree: an end is asked for, or on its way.          *)

\* Only a job that is gone was reported to have ended.
EndsAreLast ==
    \A i \in 1 .. Len(sup) : sup[i].type # "ActorStarted" => life[sup[i].job] = "Gone"

EndSent(w) == \E i \in 1 .. Len(sup) : sup[i].job = w /\ sup[i].type # "ActorStarted"

UnderWay(w) ==
    /\ Alive(w) /\ ~Listed(w) => asked[w] # "No"
    /\ Listed(w) /\ ~Alive(w) => life[w] \in {"Failed", "Terminated"} \/ EndSent(w)

EndsInv == CronInv /\ KilledLast /\ EndsAreLast /\ \A w \in Job : UnderWay(w)

LEMMA UnderWayIs == TypeOK => (EndsAreUnderWay <=> \A w \in Job : UnderWay(w))
<1> SUFFICES ASSUME TypeOK PROVE EndsAreUnderWay <=> \A w \in Job : UnderWay(w)
  OBVIOUS
<1>1. DOMAIN sup = 1 .. Len(sup)
  BY LenProperties DEF TypeOK
<1>. QED BY <1>1 DEF EndsAreUnderWay, UnderWay, EndSent

LEMMA UnderWayKept ==
    ASSUME NEW w \in Job, UnderWay(w), life'[w] = life[w], asked'[w] = asked[w],
           Listed(w)' <=> Listed(w), EndSent(w) => EndSent(w)'
    PROVE  UnderWay(w)'
BY DEF UnderWay, Alive

\* A job that is gone stays gone.
LEMMA GoneKept ==
    ASSUME CronAssumption, CronInv, Next PROVE \A v \in Job : life[v] = "Gone" => life'[v] = "Gone"
<1> SUFFICES ASSUME NEW v \in Job, life[v] = "Gone" PROVE life'[v] = "Gone"
  OBVIOUS
<1>1. ASSUME NEW n \in Name, NEW s \in Schedule, Start(n, s) PROVE life'[v] = "Gone"
  <2> PICK w : w = spawned + 1
    OBVIOUS
  <2>1. w \in Job /\ spawned \in Nat /\ \A u \in Job \ {w} : life'[u] = life[u]
    <3>1. Started(n, s, w)
      BY <1>1, StartFacts DEF CronInv
    <3>. QED BY <3>1 DEF Started
  <2>2. life[w] = "Unborn"
    BY <2>1 DEF CronInv, Untouched
  <2>. QED BY <2>1, <2>2
<1>2. ASSUME NEW n \in Name, NEW s \in Schedule, SetSchedule(n, s), ~Exit PROVE life'[v] = "Gone"
  BY <1>2 DEF SetSchedule
<1>3. CASE Administers
  BY <1>3, AdministersFrame DEF CronInv
<1>4. ASSUME NEW w \in Job, JobLoop(w) \/ Fire(w) PROVE life'[v] = "Gone"
  <2>1. CASE v # w
    BY <1>4, <2>1, JobFrame DEF CronInv
  <2>2. CASE v = w
    BY <1>4, <2>2 DEF JobLoop, Fire, Begin, ExecuteBegins, Receive, ExecuteEnds, UpdateSchedule, PostStop,
                      Die, Alive, Report
  <2>. QED BY <2>1, <2>2
<1>. QED BY <1>1, <1>2, <1>3, <1>4, NextSplit

LEMMA EndsAreLastStep == ASSUME CronAssumption, CronInv, EndsAreLast, Next PROVE EndsAreLast'
<1>0. /\ \A v \in Job : life[v] = "Gone" => life'[v] = "Gone"
      /\ \A i \in 1 .. Len(sup) : sup[i].job \in Job
      /\ Len(sup) \in Nat
  BY GoneKept, SupFacts DEF CronInv
<1>1. CASE sup' = sup
  BY <1>0, <1>1 DEF EndsAreLast
<1>2. CASE Administers
  <2>1. CASE sup' = <<>>
    <3>1. Len(sup') = 0
      BY <2>1, EmptySeq
    <3>. QED BY <3>1 DEF EndsAreLast
  <2>2. CASE sup # <<>> /\ sup' = Tail(sup)
    <3>1. \A i \in 1 .. Len(sup') : i + 1 \in 1 .. Len(sup) /\ sup'[i] = sup[i + 1]
      BY <2>2, SupFacts DEF CronInv
    <3>. QED BY <1>0, <3>1 DEF EndsAreLast
  <2>. QED BY <1>1, <1>2, <2>1, <2>2, AdministersSup DEF CronInv
<1>3. ASSUME NEW w \in Job, JobLoop(w) \/ Fire(w) PROVE EndsAreLast'
  <2>1. ASSUME NEW type \in {"ActorStarted", "ActorFailed", "ActorTerminated"}, sup' = Reported(type, w),
               type # "ActorStarted" => life'[w] = "Gone"
        PROVE  EndsAreLast'
    <3>1. CASE /\ Len(sup') = Len(sup) + 1 /\ sup'[Len(sup) + 1] = [type |-> type, job |-> w]
               /\ \A i \in 1 .. Len(sup) : sup'[i] = sup[i]
      <4>1. ASSUME NEW i \in 1 .. Len(sup'), sup'[i].type # "ActorStarted"
            PROVE  life'[sup'[i].job] = "Gone"
        <5>1. CASE i = Len(sup) + 1
          BY <2>1, <3>1, <4>1, <5>1
        <5>2. CASE i \in 1 .. Len(sup)
          BY <1>0, <3>1, <4>1, <5>2 DEF EndsAreLast
        <5>. QED BY <1>0, <3>1, <5>1, <5>2
      <4>. QED BY <4>1 DEF EndsAreLast
    <3>. QED BY <1>1, <2>1, <3>1, ReportedFacts DEF CronInv
  <2>2. CASE Begin(w)
    BY <2>1, <2>2 DEF Begin
  <2>3. CASE Report(w)
    <3>1. life'[w] = "Gone"
      BY <2>3 DEF Report, Gone, Set, CronInv, TypeOK
    <3>. QED BY <2>1, <2>3, <3>1 DEF Report
  <2>4. CASE ~Begin(w) /\ ~Report(w)
    BY <1>1, <1>3, <2>4 DEF JobLoop, ExecuteBegins, ExecuteEnds, UpdateSchedule, Fail, PostStop, Die, Fire
  <2>. QED BY <2>2, <2>3, <2>4
<1>4. CASE \E n \in Name, s \in Schedule : Start(n, s) \/ (SetSchedule(n, s) /\ ~Exit)
  BY <1>1, <1>4 DEF Start, SetSchedule
<1>. QED BY <1>2, <1>3, <1>4, NextSplit

\* The manager lets go of a job only after it asked it to end, or heard that it has.
LEMMA AdministersEnds ==
    ASSUME CronAssumption, EndsInv, Administers, NEW v \in Job PROVE UnderWay(v)'
<1> USE DEF managerVars, jobVars
<1>0. /\ UNCHANGED life /\ TypeOK /\ OneName /\ UnderWay(v)
      /\ asked[v] # "No" => \A W : Asked(W)[v] # "No"
  BY AdministersFrame DEF EndsInv, CronInv, Asked
<1>1. ASSUME NEW n \in Name, Stop(n) PROVE UnderWay(v)'
  <2>1. /\ n \in DOMAIN jobs /\ jobs' = Removed(n) /\ asked' = Asked({jobs[n].job})
        /\ UNCHANGED <<sup, spawned>>
    BY <1>1 DEF Stop
  <2>2. Listed(v)' <=> Listed(v) /\ v # jobs[n].job
    BY <1>0, <2>1 DEF Listed, Removed, Restrict, OneName
  <2>3. asked'[v] # "No" \/ (v # jobs[n].job /\ asked'[v] = asked[v])
    BY <2>1 DEF Asked
  <2>4. EndSent(v)' <=> EndSent(v)
    BY <2>1 DEF EndSent
  <2>. QED BY <1>0, <2>2, <2>3, <2>4 DEF UnderWay, Alive
<1>2. CASE StopManager \/ \E s \in Subscriber : Subscribe(s) \/ Unsubscribe(s)
  <2>1. UNCHANGED <<jobs, sup, asked>>
    BY <1>2 DEF StopManager, Subscribe, Unsubscribe
  <2>. QED BY <1>0, <2>1 DEF UnderWay, Alive, Listed, EndSent
<1>3. CASE ManagerPostStop
  <2>1. ~Listed(v)'
    BY <1>3 DEF ManagerPostStop, Listed, NoJobs
  <2>2. Alive(v) => asked'[v] # "No"
    <3>1. CASE Listed(v)
      BY <1>3, <3>1 DEF ManagerPostStop, Asked, Listed
    <3>2. CASE ~Listed(v)
      BY <1>0, <1>3, <3>2 DEF ManagerPostStop, UnderWay
    <3>. QED BY <3>1, <3>2
  <2>. QED BY <1>0, <2>1, <2>2 DEF UnderWay, Alive
<1>4. CASE Exit
  <2>1. ~Listed(v)' /\ (Alive(v) => asked'[v] # "No")
    BY <1>4 DEF Exit, Listed, NoJobs
  <2>. QED BY <1>0, <2>1 DEF UnderWay, Alive
<1>5. CASE HandleSupervisorEvt
  <2>0. PICK w : w = Head(sup).job
    OBVIOUS
  <2>1. /\ sup # <<>> /\ sup' = Tail(sup) /\ UNCHANGED asked
        /\ Head(sup) = sup[1] /\ w \in Job /\ sup[1].job = w
        /\ 1 \in 1 .. Len(sup) /\ Len(sup) \in Nat /\ Len(sup') = Len(sup) - 1
        /\ \A i \in 1 .. Len(sup') : sup'[i] = sup[i + 1]
    BY <1>0, <1>5, <2>0, SupFacts DEF HandleSupervisorEvt
  <2>2. ASSUME v # w \/ sup[1].type = "ActorStarted", EndSent(v) PROVE EndSent(v)'
    <3>1. PICK i \in 1 .. Len(sup) : sup[i].job = v /\ sup[i].type # "ActorStarted"
      BY <2>2 DEF EndSent
    <3>2. i - 1 \in 1 .. Len(sup') /\ (i - 1) + 1 = i
      BY <2>1, <2>2, <3>1
    <3>3. sup'[i - 1] = sup[i]
      BY <2>1, <3>2
    <3>. QED BY <3>1, <3>2, <3>3 DEF EndSent
  <2>3. CASE NamesOf(w) = {} /\ UNCHANGED jobs
    <3>1. ~Listed(w) /\ (Listed(v)' <=> Listed(v))
      BY <2>3 DEF NamesOf, Listed
    <3>. QED BY <1>0, <2>1, <2>2, <3>1 DEF UnderWay, Alive
  <2>4. CASE sup[1].type = "ActorStarted" /\ UNCHANGED jobs
    <3>1. Listed(v)' <=> Listed(v)
      BY <2>4 DEF Listed
    <3>. QED BY <1>0, <2>1, <2>2, <2>4, <3>1, UnderWayKept
  <2>5. ASSUME NEW n \in NamesOf(w), sup[1].type # "ActorStarted", jobs' = Removed(n)
        PROVE  UnderWay(v)'
    <3>1. n \in DOMAIN jobs /\ jobs[n].job = w
      BY DEF NamesOf
    <3>2. Listed(v)' <=> Listed(v) /\ v # w
      BY <1>0, <2>5, <3>1 DEF Listed, Removed, Restrict, OneName
    <3>3. life[w] = "Gone"
      BY <2>1, <2>5 DEF EndsInv, EndsAreLast
    <3>. QED BY <1>0, <2>1, <2>2, <3>2, <3>3 DEF UnderWay, Alive
  <2>. QED BY <1>5, <2>0, <2>1, <2>3, <2>4, <2>5 DEF HandleSupervisorEvt
<1>. QED BY <1>1, <1>2, <1>3, <1>4, <1>5 DEF Administers

\* A job on the table ends with a report, since it was not killed.
LEMMA JobEnds ==
    ASSUME CronAssumption, EndsInv, NEW w \in Job, JobLoop(w) \/ Fire(w), NEW v \in Job
    PROVE  UnderWay(v)'
<1> USE DEF managerVars, timerVars, Set
<1>0. /\ TypeOK /\ UnderWay(v) /\ UNCHANGED jobs /\ Len(sup) \in Nat
      /\ \A u \in Job \ {w} : life'[u] = life[u]
      /\ Alive(w)' => Alive(w)
  BY JobFrame, SupFacts DEF EndsInv, CronInv
<1>1. Listed(v)' <=> Listed(v)
  BY <1>0 DEF Listed
<1>2. EndSent(v) => EndSent(v)'
  <2>1. ASSUME sup' = sup \/ \A i \in 1 .. Len(sup) : i \in 1 .. Len(sup') /\ sup'[i] = sup[i]
        PROVE  EndSent(v) => EndSent(v)'
    BY <2>1 DEF EndSent
  <2>2. ASSUME NEW type \in {"ActorStarted", "ActorFailed", "ActorTerminated"},
               sup' = Reported(type, w)
        PROVE  sup' = sup \/ \A i \in 1 .. Len(sup) : i \in 1 .. Len(sup') /\ sup'[i] = sup[i]
    <3>1. \/ sup' = sup
          \/ /\ Len(sup') = Len(sup) + 1
             /\ \A i \in 1 .. Len(sup) : sup'[i] = sup[i]
      BY <1>0, <2>2, ReportedFacts
    <3>. QED BY <1>0, <3>1
  <2>3. \/ sup' = sup
        \/ \E type \in {"ActorStarted", "ActorFailed", "ActorTerminated"} : sup' = Reported(type, w)
    BY <1>0, JobSup
  <2>. QED BY <2>1, <2>2, <2>3
<1>3. \A u \in Job : u # w \/ Alive(u)' => asked'[u] = asked[u]
  BY <1>0 DEF JobLoop, Fire, Begin, ExecuteBegins, ExecuteEnds, UpdateSchedule, Fail, PostStop, Die, Report,
              Gone, Alive, TypeOK
<1>4. CASE v # w
  BY <1>0, <1>1, <1>2, <1>3, <1>4, UnderWayKept
<1>5. CASE v = w
  <2>1. Alive(v)' /\ ~Listed(v)' => asked'[v] # "No"
    BY <1>0, <1>1, <1>3, <1>5 DEF UnderWay
  <2>2. ASSUME Listed(v), ~Alive(v)' PROVE life'[v] \in {"Failed", "Terminated"} \/ EndSent(v)'
    <3>1. manager # "Down" /\ asked[v] # "Kill"
      BY <2>2 DEF EndsInv, KilledLast, Listed
    <3>2. CASE Report(w)
      <4> PICK type \in {"ActorFailed", "ActorTerminated"} : sup' = Reported(type, w)
        BY <3>2 DEF Report
      <4>1. sup \in Seq(SupervisionEvent) /\ [type |-> type, job |-> w] \in SupervisionEvent
        BY <1>0, MessageTypes DEF TypeOK
      <4>2. sup' = Append(sup, [type |-> type, job |-> w])
        BY <3>1 DEF Reported
      <4>3. /\ Len(sup) + 1 \in 1 .. Len(sup') /\ sup'[Len(sup) + 1] = [type |-> type, job |-> w]
        BY <1>0, <4>1, <4>2, AppendProperties
      <4>. QED BY <1>5, <4>3 DEF EndSent
    <3>3. CASE ~Report(w) /\ Alive(w)
      BY <1>0, <1>5, <2>2, <3>1, <3>3 DEF JobLoop, Fire, Begin, ExecuteBegins, ExecuteEnds, UpdateSchedule,
                                          Fail, PostStop, Die, Alive, TypeOK
    <3>4. CASE ~Report(w) /\ ~Alive(w)
      <4>1. UNCHANGED life
        BY <3>4 DEF JobLoop, Fire, Begin, ExecuteBegins, Receive, ExecuteEnds, UpdateSchedule, PostStop, Die,
                    Alive
      <4>. QED BY <1>0, <1>2, <1>5, <2>2, <3>4, <4>1 DEF UnderWay
    <3>. QED BY <3>2, <3>3, <3>4
  <2>. QED BY <1>1, <2>1, <2>2 DEF UnderWay
<1>. QED BY <1>4, <1>5

LEMMA EndsStep == ASSUME CronAssumption, EndsInv, [Next]_vars PROVE EndsInv'
<1>0. CronInv' /\ KilledLast'
  BY CronStep, KilledLastStep DEF EndsInv, CronInv
<1>1. CASE UNCHANGED vars
  <2>1. UNCHANGED <<jobs, sup, life, asked>>
    BY <1>1 DEF vars, managerVars, jobVars
  <2>. QED BY <1>0, <2>1 DEF EndsInv, EndsAreLast, UnderWay, Alive, Listed, EndSent
<1>2. CASE Next
  <2>1. EndsAreLast'
    BY <1>2, EndsAreLastStep DEF EndsInv
  <2>2. ASSUME NEW v \in Job PROVE UnderWay(v)'
    <3>0. UnderWay(v)
      BY DEF EndsInv
    <3>1. ASSUME NEW n \in Name, NEW s \in Schedule, Start(n, s) PROVE UnderWay(v)'
      <4> PICK w : w = spawned + 1
        OBVIOUS
      <4>1. /\ w \in Job /\ n \notin DOMAIN jobs
            /\ DOMAIN jobs' = DOMAIN jobs \cup {n} /\ jobs'[n].job = w
            /\ \A m \in DOMAIN jobs : jobs'[m] = jobs[m]
            /\ life'[w] = "Starting" /\ \A u \in Job \ {w} : life'[u] = life[u]
            /\ UNCHANGED <<sup, asked>>
        <5>1. TypeOK /\ OneName
          BY DEF EndsInv, CronInv
        <5>2. UNCHANGED asked
          BY <3>1 DEF Start
        <5>3. Started(n, s, w)
          BY <3>1, <5>1, <5>2, StartFacts
        <5>. QED BY <5>2, <5>3 DEF Started
      <4>2. CASE v = w
        BY <4>1, <4>2 DEF UnderWay, Alive, Listed
      <4>3. CASE v # w
        BY <3>0, <4>1, <4>3 DEF UnderWay, Alive, Listed, EndSent
      <4>. QED BY <4>2, <4>3
    <3>2. ASSUME NEW n \in Name, NEW s \in Schedule, SetSchedule(n, s), ~Exit PROVE UnderWay(v)'
      <4> PICK w : w = jobs[n].job
        OBVIOUS
      <4>1. /\ n \in DOMAIN jobs /\ DOMAIN jobs' = DOMAIN jobs /\ jobs'[n].job = w
            /\ \A m \in DOMAIN jobs \ {n} : jobs'[m] = jobs[m]
            /\ UNCHANGED <<life, sup, asked>>
        <5>1. Adjusted(n, s, w)
          BY <3>2, SetScheduleFacts DEF EndsInv, CronInv
        <5>. QED BY <3>2, <5>1 DEF Adjusted, SetSchedule
      <4>2. Listed(v)' <=> Listed(v)
        BY <4>1 DEF Listed
      <4>. QED BY <3>0, <4>1, <4>2 DEF UnderWay, Alive, EndSent
    <3>. QED BY <1>2, <3>1, <3>2, AdministersEnds, JobEnds, NextSplit
  <2>. QED BY <1>0, <2>1, <2>2 DEF EndsInv
<1>. QED BY <1>1, <1>2

\* A job that lives and is off the table was told to end; the exit of one on the table
\* that has ended is on its way to the manager.
THEOREM EndsGetThrough == Spec => []EndsAreUnderWay
<1>1. Init => EndsInv
  <2> SUFFICES ASSUME Init PROVE EndsInv
    OBVIOUS
  <2>1. CronInv /\ KilledLast
    BY InitCron, CronAssumption DEF Init, KilledLast
  <2>2. EndsAreLast
    BY EmptySeq DEF Init, EndsAreLast
  <2>3. \A w \in Job : UnderWay(w)
    BY DEF Init, UnderWay, Alive, Listed, NoJobs
  <2>. QED BY <2>1, <2>2, <2>3 DEF EndsInv
<1>2. EndsInv /\ [Next]_vars => EndsInv'
  BY EndsStep, CronAssumption
<1>3. EndsInv => EndsAreUnderWay
  BY UnderWayIs DEF EndsInv, CronInv
<1>. QED BY <1>1, <1>2, <1>3, PTL DEF Spec
=============================================================================
