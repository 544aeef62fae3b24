------------------------------- MODULE JobBoard -------------------------------
(***************************************************************************)
(* What a CronManager promises (time/cron/mod.rs): a board on which jobs   *)
(* are put under a name, given other schedules, and taken off.  Whoever    *)
(* subscribes is told when a job on the board starts, once, and when it    *)
(* is taken off, for whatever reason; nobody is told when the board is.    *)
(***************************************************************************)
EXTENDS Sequences

CONSTANTS Name, Schedule, Job, Subscriber

VARIABLES
    board,   \* the schedule and the job under each name in use
    subs,    \* the subscribers
    told,    \* what each of them was told of each job
    fresh,   \* the jobs that have not been on the board
    started  \* those on the board whose start was told

vars == <<board, subs, told, fresh, started>>

Empty == [n \in {} |-> 0]

Init ==
    /\ board = Empty /\ subs = {} /\ fresh = Job /\ started = {}
    /\ told = [s \in Subscriber |-> [w \in Job |-> <<>>]]

Tell(w, what) ==
    told' = [s \in Subscriber |->
        IF s \in subs THEN [told[s] EXCEPT ![w] = Append(@, what)] ELSE told[s]]

Put(n, w, s) ==
    /\ n \notin DOMAIN board /\ w \in fresh
    /\ board' = [m \in DOMAIN board \cup {n} |->
                    IF m = n THEN [schedule |-> s, job |-> w] ELSE board[m]]
    /\ fresh' = fresh \ {w}
    /\ UNCHANGED <<subs, told, started>>

Reschedule(n, s) ==
    /\ n \in DOMAIN board
    /\ board' = [board EXCEPT ![n].schedule = s]
    /\ UNCHANGED <<subs, told, fresh, started>>

Begin(n) ==
    /\ n \in DOMAIN board /\ board[n].job \notin started
    /\ started' = started \cup {board[n].job}
    /\ Tell(board[n].job, "started")
    /\ UNCHANGED <<board, subs, fresh>>

TakeOff(n) ==
    /\ n \in DOMAIN board
    /\ board' = [m \in DOMAIN board \ {n} |-> board[m]]
    /\ started' = started \ {board[n].job}
    /\ \E what \in {"stopped", "failed"} : Tell(board[n].job, what)
    /\ UNCHANGED <<subs, fresh>>

Subscribe ==
    /\ subs' \in SUBSET Subscriber
    /\ UNCHANGED <<board, told, fresh, started>>

Close ==
    /\ board' = Empty /\ started' = {} /\ subs' \in {subs, {}}
    /\ UNCHANGED <<told, fresh>>

Next ==
    \/ \E n \in Name, s \in Schedule : (\E w \in Job : Put(n, w, s)) \/ Reschedule(n, s)
    \/ \E n \in Name : Begin(n) \/ TakeOff(n)
    \/ Subscribe \/ Close

Spec == Init /\ [][Next]_vars
=============================================================================
