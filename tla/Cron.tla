-------------------------------- MODULE Cron --------------------------------
(***************************************************************************)
(* Cron jobs (time/cron/mod.rs, time/cron/worker.rs): the CronManager with *)
(* its table of jobs and its subscribers, and the linked Cron actor of     *)
(* each job, driven by Execute messages that its own timers send.          *)
(*                                                                         *)
(* Time is left out: a pending timer fires whenever it likes.  Of the      *)
(* timers of a job one belongs to the JoinHandle the job keeps; those      *)
(* whose handle was overwritten are detached, and only counted.            *)
(*                                                                         *)
(* Requests to the manager come from anybody at any time, so that they are *)
(* not queued; its supervision events are, and it serves them first.       *)
(* ListJobs and GetSchedule, a Start for a name in use and a Start whose   *)
(* pre_start fails only answer the caller.                                 *)
(***************************************************************************)
EXTENDS Naturals, Sequences, Functions

CONSTANTS
    Name,       \* what Job::id may return
    Schedule,   \* the schedules
    Finite,     \* those with a last date: upcoming may have nothing left
    Subscriber, \* the actors that may subscribe
    Instances,  \* bound: how many jobs are started
    Changes     \* bound: how many schedules and subscriptions are changed

ASSUME CronAssumption ==
    /\ Schedule # {} /\ Finite \subseteq Schedule
    /\ Instances \in Nat /\ Changes \in Nat

Job == 1 .. Instances   \* the Cron actors, in the order they are spawned

VARIABLES
    manager,   \* "Running", "Stopping" (asked to), "Exiting" (after post_stop) or "Down"
    jobs,      \* its table, a function on the names in use
    subs,      \* its subscribers
    sup,       \* its supervision port
    spawned,   \* how many Cron actors there have been
    life,      \* of each of them
    asked,     \* whether it was told to end: "No", "Stop" or "Kill"
    schedule,  \* CronState::schedule
    handle,    \* next_schedule_handle: "None", or its timer is "Pending" or "Spent"
    detached,  \* how many other timers of the job are pending
    busy,      \* whether Job::work runs
    inbox,     \* the messages of the job
    told,      \* history: what each subscriber heard of each job
    changes    \* changes still to be made

managerVars == <<manager, jobs, subs, spawned>>
timerVars == <<handle, detached>>
jobVars == <<life, asked, schedule, timerVars, busy, inbox>>
vars == <<managerVars, sup, jobVars, told, changes>>

Life == {"Unborn", "Starting", "Running", "Failed", "Terminated", "Gone"}
Entry == [schedule : Schedule, job : Job]
Execute == [type |-> "Execute"]
Message == {Execute} \cup [type : {"UpdateSchedule"}, schedule : Schedule]
SupervisionEvent == [type : {"ActorStarted", "ActorFailed", "ActorTerminated"}, job : Job]
Notification == {"started", "stopped", "failed"}

TypeOK ==
    /\ manager \in {"Running", "Stopping", "Exiting", "Down"}
    /\ DOMAIN jobs \subseteq Name /\ jobs \in [DOMAIN jobs -> Entry]
    /\ subs \subseteq Subscriber
    /\ sup \in Seq(SupervisionEvent)
    /\ spawned \in 0 .. Instances
    /\ life \in [Job -> Life]
    /\ asked \in [Job -> {"No", "Stop", "Kill"}]
    /\ schedule \in [Job -> Schedule]
    /\ handle \in [Job -> {"None", "Pending", "Spent"}]
    /\ detached \in [Job -> Nat]
    /\ busy \in [Job -> BOOLEAN]
    /\ inbox \in [Job -> Seq(Message)]
    /\ told \in [Subscriber -> [Job -> Seq(Notification)]]
    /\ changes \in Nat

Default == CHOOSE s \in Schedule : TRUE
NoJobs == [n \in {} |-> 0]

Init ==
    /\ manager = "Running" /\ jobs = NoJobs /\ subs = {} /\ sup = <<>>
    /\ spawned = 0
    /\ life = [w \in Job |-> "Unborn"] /\ asked = [w \in Job |-> "No"]
    /\ schedule = [w \in Job |-> Default]
    /\ handle = [w \in Job |-> "None"] /\ detached = [w \in Job |-> 0]
    /\ busy = [w \in Job |-> FALSE] /\ inbox = [w \in Job |-> <<>>]
    /\ told = [s \in Subscriber |-> [w \in Job |-> <<>>]]
    /\ changes = Changes

Set(f, w, v) == f' = [f EXCEPT ![w] = v]

-----------------------------------------------------------------------------
(* The manager's handlers.                                                 *)

\* A supervision event is served before any request, a stop before both.
Free == manager = "Running" /\ sup = <<>>
Change == Free /\ changes > 0 /\ changes' = changes - 1

Alive(w) == life[w] \in {"Starting", "Running"}

\* Schedule::upcoming: there is a next date, except after a last one.
Upcoming(s) == {"Pending"} \cup IF s \in Finite THEN {"None"} ELSE {}

\* Mutant: the table is keyed by the actor's id.
InsertedById(n, e) == [m \in DOMAIN jobs \cup {e.job} |-> IF m = e.job THEN e ELSE jobs[m]]

Inserted(n, e) == [m \in DOMAIN jobs \cup {n} |-> IF m = n THEN e ELSE jobs[m]]

\* Mutant: a job stays on the table until it has exited.
RemovedNot(n) == IF Alive(jobs[n].job) THEN jobs ELSE Restrict(jobs, DOMAIN jobs \ {n})

Removed(n) == Restrict(jobs, DOMAIN jobs \ {n})

\* Every subscriber is called; told is what they have heard of job w.
Notified(w, what) ==
    [s \in Subscriber |->
        IF s \in subs THEN [told[s] EXCEPT ![w] = Append(@, what)] ELSE told[s]]

\* The first timer is armed before the job has taken a message.
PreStart(w, s) ==
    /\ Set(schedule, w, s)
    /\ \E h \in Upcoming(s) : Set(handle, w, h)

\* spawn_linked runs the job's pre_start.
Start(n, s) ==
    /\ Free /\ n \notin DOMAIN jobs /\ spawned < Instances
    /\ LET w == spawned + 1
       IN  /\ Set(life, w, "Starting")
           /\ PreStart(w, s)
           /\ jobs' = Inserted(n, [schedule |-> s, job |-> w])
    /\ spawned' = spawned + 1
    /\ UNCHANGED <<manager, subs, sup, asked, detached, busy, inbox, told, changes>>

\* ActorRef::stop on the jobs in W.
Asked(W) == [w \in Job |-> IF w \in W /\ asked[w] = "No" THEN "Stop" ELSE asked[w]]

Stop(n) ==
    /\ Free /\ n \in DOMAIN jobs
    /\ jobs' = Removed(n)
    /\ asked' = Asked({jobs[n].job})
    /\ told' = Notified(jobs[n].job, "stopped")
    /\ UNCHANGED <<manager, subs, sup, spawned, life, schedule, timerVars, busy, inbox, changes>>

\* What is left of a manager that has gone: nothing; its children are killed.
Exit ==
    /\ manager' = "Down"
    /\ jobs' = NoJobs /\ subs' = {} /\ sup' = <<>>
    /\ asked' = [w \in Job |-> IF Alive(w) THEN "Kill" ELSE asked[w]]
    /\ UNCHANGED <<spawned, life, schedule, timerVars, busy, inbox, told>>

\* The table changes first; a job that has exited, and whose exit the manager has
\* not heard of, makes the cast fail, and with it the manager.
SetSchedule(n, s) ==
    /\ Change /\ n \in DOMAIN jobs
    /\ \/ /\ Alive(jobs[n].job)
          /\ jobs' = Inserted(n, [schedule |-> s, job |-> jobs[n].job])
          /\ Set(inbox, jobs[n].job,
                 Append(inbox[jobs[n].job], [type |-> "UpdateSchedule", schedule |-> s]))
          /\ UNCHANGED <<manager, subs, sup, spawned, life, asked, schedule, timerVars, busy,
                         told>>
       \/ ~Alive(jobs[n].job) /\ Exit

Subscribe(s) ==
    /\ Change /\ subs' = subs \cup {s}
    /\ UNCHANGED <<manager, jobs, spawned, sup, jobVars, told>>

Unsubscribe(s) ==
    /\ Change /\ subs' = subs \ {s}
    /\ UNCHANGED <<manager, jobs, spawned, sup, jobVars, told>>

\* Mutant: whoever exited, the job that has the name now is meant.
NamesOfAny(w) == DOMAIN jobs

\* Jobs are found by the id of their actor, not by their name.
NamesOf(w) == {n \in DOMAIN jobs : jobs[n].job = w}

HandleSupervisorEvt ==
    /\ manager = "Running" /\ sup # <<>>
    /\ sup' = Tail(sup)
    /\ LET w == Head(sup).job
           type == Head(sup).type
       IN  \/ NamesOf(w) = {} /\ UNCHANGED <<jobs, told>>
           \/ /\ NamesOf(w) # {} /\ type = "ActorStarted"
              /\ told' = Notified(w, "started") /\ UNCHANGED jobs
           \/ \E n \in NamesOf(w) :
                 /\ type # "ActorStarted"
                 /\ told' = Notified(w, IF type = "ActorFailed" THEN "failed" ELSE "stopped")
                 /\ jobs' = Removed(n)
    /\ UNCHANGED <<manager, subs, spawned, jobVars, changes>>

StopManager ==
    /\ manager = "Running" /\ manager' = "Stopping"
    /\ UNCHANGED <<jobs, subs, spawned, sup, jobVars, told, changes>>

ManagerPostStop ==
    /\ manager = "Stopping" /\ manager' = "Exiting"
    /\ asked' = Asked({jobs[n].job : n \in DOMAIN jobs})
    /\ jobs' = NoJobs
    /\ UNCHANGED <<subs, spawned, sup, life, schedule, timerVars, busy, inbox, told, changes>>

ManagerExit == manager = "Exiting" /\ Exit /\ UNCHANGED changes

-----------------------------------------------------------------------------
(* A job.                                                                  *)

\* Nothing is left of a job that is gone: what its timers send is lost.
Gone(w) ==
    /\ Set(life, w, "Gone") /\ Set(asked, w, "No")
    /\ Set(schedule, w, Default)
    /\ Set(handle, w, "None") /\ Set(detached, w, 0)
    /\ Set(inbox, w, <<>>) /\ Set(busy, w, FALSE)

\* The job's loop begins: its supervisor hears of it, unless it is gone.
Reported(type, w) ==
    IF manager = "Down" THEN sup ELSE Append(sup, [type |-> type, job |-> w])

Begin(w) ==
    /\ life[w] = "Starting" /\ asked[w] # "Kill"
    /\ Set(life, w, "Running")
    /\ sup' = Reported("ActorStarted", w)
    /\ UNCHANGED <<managerVars, asked, schedule, timerVars, busy, inbox, told, changes>>

\* CronState::schedule_next: the handle is overwritten, whatever it held.
ScheduleNext(w, s) ==
    /\ \E h \in Upcoming(s) : Set(handle, w, h)
    /\ Set(detached, w, detached[w] + IF handle[w] = "Pending" THEN 1 ELSE 0)

Receive(w, type) ==
    /\ life[w] = "Running" /\ asked[w] = "No" /\ ~busy[w]
    /\ inbox[w] # <<>> /\ Head(inbox[w]).type = type

ExecuteBegins(w) ==
    /\ Receive(w, "Execute")
    /\ Set(inbox, w, Tail(inbox[w])) /\ Set(busy, w, TRUE)
    /\ UNCHANGED <<managerVars, sup, life, asked, schedule, timerVars, told, changes>>

\* A handler error or a panic: no post_stop, the timers stay.
Fail(w) ==
    /\ Set(life, w, "Failed")
    /\ Set(inbox, w, <<>>) /\ Set(busy, w, FALSE)
    /\ UNCHANGED <<managerVars, sup, asked, schedule, timerVars, told, changes>>

\* Mutant: a job whose work has failed is not scheduled again.
RescheduledUnlessFailed(w) ==
    ScheduleNext(w, schedule[w]) \/ UNCHANGED timerVars

Rescheduled(w) == ScheduleNext(w, schedule[w])

\* Job::work returned; its own error is only logged, a panic fails the job, and so
\* does a next date that has passed by the time the period is computed.
ExecuteEnds(w) ==
    /\ life[w] = "Running" /\ busy[w] /\ asked[w] # "Kill"
    /\ \/ /\ Rescheduled(w)
          /\ Set(busy, w, FALSE)
          /\ UNCHANGED <<managerVars, sup, life, asked, schedule, inbox, told, changes>>
       \/ Fail(w)

\* Mutant: the schedule is only taken over when the running timer is the old one.
AdoptedLate(w, s) == IF handle[w] = "Pending" THEN s ELSE schedule[w]

Adopted(w, s) == s

\* The timer is aborted, the next one armed: here no handle is overwritten.
UpdateSchedule(w) ==
    /\ Receive(w, "UpdateSchedule")
    /\ LET s == Adopted(w, Head(inbox[w]).schedule)
       IN  \/ /\ Set(inbox, w, Tail(inbox[w]))
              /\ Set(schedule, w, s)
              /\ \E h \in Upcoming(s) : Set(handle, w, h)
              /\ UNCHANGED <<managerVars, sup, life, asked, detached, busy, told, changes>>
           \/ Fail(w)

PostStop(w) ==
    /\ life[w] = "Running" /\ asked[w] = "Stop" /\ ~busy[w]
    /\ Set(life, w, "Terminated")
    /\ Set(handle, w, "None") /\ Set(inbox, w, <<>>)
    /\ UNCHANGED <<managerVars, sup, asked, schedule, detached, busy, told, changes>>

\* A kill also interrupts Job::work at its next await.
Die(w) ==
    /\ asked[w] = "Kill" /\ Alive(w)
    /\ Gone(w)
    /\ UNCHANGED <<managerVars, sup, told, changes>>

\* The ports are closed before the supervisor is told.
Report(w) ==
    /\ life[w] \in {"Failed", "Terminated"}
    /\ Gone(w)
    /\ sup' = Reported(IF life[w] = "Failed" THEN "ActorFailed" ELSE "ActorTerminated", w)
    /\ UNCHANGED <<managerVars, told, changes>>

JobLoop(w) ==
    \/ Begin(w) \/ ExecuteBegins(w) \/ ExecuteEnds(w) \/ UpdateSchedule(w)
    \/ PostStop(w) \/ Die(w) \/ Report(w)

\* The send_after task: a job that is gone does not get the message.
Delivered(w) == Set(inbox, w, IF Alive(w) THEN Append(inbox[w], Execute) ELSE inbox[w])

Fire(w) ==
    /\ \/ handle[w] = "Pending" /\ Set(handle, w, "Spent") /\ UNCHANGED detached
       \/ detached[w] > 0 /\ Set(detached, w, detached[w] - 1) /\ UNCHANGED handle
    /\ Delivered(w)
    /\ UNCHANGED <<managerVars, sup, life, asked, schedule, busy, told, changes>>

-----------------------------------------------------------------------------
Next ==
    \/ \E n \in Name, s \in Schedule : Start(n, s) \/ SetSchedule(n, s)
    \/ \E n \in Name : Stop(n)
    \/ \E s \in Subscriber : Subscribe(s) \/ Unsubscribe(s)
    \/ HandleSupervisorEvt \/ StopManager \/ ManagerPostStop \/ ManagerExit
    \/ \E w \in Job : JobLoop(w) \/ Fire(w)

\* The runtime runs the actors and their timers, and Job::work returns; nobody has
\* to send a request.
Fairness ==
    /\ WF_vars(HandleSupervisorEvt \/ ManagerPostStop \/ ManagerExit)
    /\ \A w \in Job : WF_vars(JobLoop(w)) /\ WF_vars(Fire(w))

Spec == Init /\ [][Next]_vars /\ Fairness

-----------------------------------------------------------------------------
(* Properties.                                                             *)

Queued(w, type) == \E i \in DOMAIN inbox[w] : inbox[w][i].type = type

\* A job never loses its beat: unless its schedule has nothing more to come it has
\* a timer still to fire, an Execute to handle, or it executes, whatever was set,
\* fired or aborted in between (worker.rs schedule_next, update_schedule).
KeepsBeating ==
    \A w \in Job : Alive(w) /\ handle[w] # "None" =>
        \/ handle[w] = "Pending" \/ detached[w] > 0 \/ Queued(w, "Execute") \/ busy[w]

\* What the job will run on, once it has caught up with its messages.
LastSchedule(w) ==
    IF Queued(w, "UpdateSchedule")
    THEN LET U == {i \in DOMAIN inbox[w] : inbox[w][i].type = "UpdateSchedule"}
         IN  inbox[w][CHOOSE i \in U : \A j \in U : j <= i].schedule
    ELSE schedule[w]

\* The schedule that the manager lists is the one the job runs on, or is about to
\* (mod.rs set_schedule keeps a copy).
ScheduleAgreed ==
    \A n \in DOMAIN jobs :
        Alive(jobs[n].job) => jobs[n].schedule = LastSchedule(jobs[n].job)

\* A subscriber hears of the end of a job at most once, although a Stop, the exit it
\* causes and a failure all announce it, and it hears nothing of that job later.
OneEnding ==
    \A s \in Subscriber, w \in Job : \A i, j \in DOMAIN told[s][w] :
        i < j => told[s][w][i] = "started" /\ told[s][w][j] # "started"

Listed(w) == \E n \in DOMAIN jobs : jobs[n].job = w

\* A job that lives and is off the table was told to end, and if one on the table has
\* ended, its exit is still on the way to the manager, wherever the two were
\* interrupted (mod.rs stop, post_stop, handle_supervisor_evt; exit of either actor).
EndsAreUnderWay ==
    \A w \in Job :
        /\ Alive(w) /\ ~Listed(w) => asked[w] # "No"
        /\ Listed(w) /\ ~Alive(w) =>
              \/ life[w] \in {"Failed", "Terminated"}
              \/ \E i \in DOMAIN sup : sup[i].job = w /\ sup[i].type # "ActorStarted"

\* The jobs on the table whose ActorStarted was handled.
Announced ==
    {w \in Job : /\ Listed(w) /\ life[w] \notin {"Unborn", "Starting"}
                 /\ \A i \in DOMAIN sup : sup[i] # [type |-> "ActorStarted", job |-> w]}

\* The table is a JobBoard: also when the exit of a job is reported late, its name is
\* in use again by then, and it was stopped besides, every subscriber is told of each
\* start and of each removal, once, and of the job that is meant
\* (mod.rs:193 stop, mod.rs:253 handle_supervisor_evt).
TheBoard == INSTANCE JobBoard WITH
    board <- jobs, fresh <- {w \in Job : w > spawned}, started <- Announced

ImplementsJobBoard == TheBoard!Spec

\* The table follows the jobs and the jobs the table: a job that failed is taken off
\* (mod.rs:439), one that is taken off, or whose manager is gone, ends; also when
\* its name is already in use again.
TableFollowsJobs == \A w \in Job : (Listed(w) # Alive(w)) ~> (Listed(w) = Alive(w))

\* A job executes again and again, until it ends or its schedule does.
Executes ==
    \A w \in Job : Alive(w) ~> (busy[w] \/ ~Alive(w) \/ handle[w] = "None")

\* worker.rs:75 "we're exiting, cleanup any pending send action".
NothingPending ==
    [][\A w \in Job : PostStop(w) => handle'[w] # "Pending" /\ detached'[w] = 0]_vars
=============================================================================
