------------------------------- MODULE PubSub -------------------------------
(***************************************************************************)
(* The Broadcaster (sync/broadcast/mod.rs) and the FileWatcher             *)
(* (filewatcher/mod.rs): an actor with a table of boxes, a BroadcastTarget *)
(* or a FileWatcherSubscriber each, keyed by the id of the actor behind    *)
(* it, through all of which every message goes.  They differ in the        *)
(* answers, and in what ends them.                                         *)
(*                                                                         *)
(* A handler awaits nothing, so that it is one step; what a target does    *)
(* while the loop runs it might as well have done before or after.         *)
(* ListTargets only answers.                                               *)
(***************************************************************************)
EXTENDS Naturals, Sequences, Functions, FiniteSets

CONSTANTS
    Actor,    \* the actors behind the boxes
    Targets,  \* the possible values of initial_targets, as sequences of actors
    Calls,    \* bound: the boxes and requests there are
    Messages  \* bound: the messages and events there are

ASSUME PubSubAssumption ==
    /\ Calls \in Nat /\ Messages \in Nat
    /\ \A s \in Targets : s \in Seq(Actor) /\ Len(s) <= Calls

Box == 1 .. Calls   \* a box has the number of the request that brings it

VARIABLES
    kind,      \* "Broadcaster" or "FileWatcher"
    patient,   \* continue_with_dead_targets
    status,    \* "Running", "Stopped" or "Failed"
    inbox,     \* the actor's messages
    table,     \* targets, or subscriptions
    alive,     \* the actors that are
    calls,     \* history: the requests and their answers; first the initial targets
    published, \* how many messages there have been
    handled,   \* history: the last of them that was handled
    got        \* history: what went through each box

config == <<kind, patient>>
vars == <<config, status, inbox, table, alive, calls, published, handled, got>>

Item == [type : {"Message", "Call", "FwError"}, n : Nat]
Answer == {"None", "Waiting", "Ok", "Duplicate", "NotFound", "Error"}
Call == [op : {"Join", "Leave"}, who : Actor, answer : Answer]

TypeOK ==
    /\ kind \in {"Broadcaster", "FileWatcher"} /\ patient \in BOOLEAN
    /\ status \in {"Running", "Stopped", "Failed"}
    /\ inbox \in Seq(Item)
    /\ DOMAIN table \subseteq Actor /\ Range(table) \subseteq DOMAIN calls
    /\ alive \subseteq Actor
    /\ calls \in Seq(Call) /\ Len(calls) <= Calls
    /\ published \in 0 .. Messages /\ handled \in 0 .. published
    /\ got \in [Box -> Seq(1 .. Messages)]

\* collect: of several pairs with one key the last stays.
Initial(s) ==
    [a \in Range(s) |->
        CHOOSE i \in DOMAIN s : s[i] = a /\ \A j \in i + 1 .. Len(s) : s[j] # a]

Init ==
    /\ \/ kind = "FileWatcher" /\ patient = TRUE /\ calls = <<>>
       \/ /\ kind = "Broadcaster" /\ patient \in BOOLEAN
          /\ \E s \in Targets :
                calls = [i \in DOMAIN s |-> [op |-> "Join", who |-> s[i], answer |-> "None"]]
    /\ table = Initial([i \in DOMAIN calls |-> calls[i].who])
    /\ status = "Running" /\ inbox = <<>> /\ alive = Actor
    /\ published = 0 /\ handled = 0
    /\ got = [b \in Box |-> <<>>]

-----------------------------------------------------------------------------
(* What comes from outside.                                                *)

Sent(type, n) == inbox' = Append(inbox, [type |-> type, n |-> n])

\* A message of anybody, or an event of the notify thread, which has an end with
\* the actor.
Publish ==
    /\ status = "Running" /\ published < Messages
    /\ published' = published + 1
    /\ Sent("Message", published + 1)
    /\ UNCHANGED <<config, status, table, alive, calls, handled, got>>

\* AddTarget and RemoveTarget are cast, Subscribe and Unsubscribe wait for an answer.
Ask(op, who) ==
    /\ Len(calls) < Calls
    /\ \/ /\ status = "Running" /\ Sent("Call", Len(calls) + 1)
          /\ calls' = Append(calls, [op |-> op, who |-> who,
                answer |-> IF kind = "Broadcaster" THEN "None" ELSE "Waiting"])
       \/ /\ status # "Running" /\ UNCHANGED inbox
          /\ calls' = Append(calls, [op |-> op, who |-> who, answer |-> "Error"])
    /\ UNCHANGED <<config, status, table, alive, published, handled, got>>

WatchFails ==
    /\ kind = "FileWatcher" /\ status = "Running"
    /\ \A i \in DOMAIN inbox : inbox[i].type # "FwError"
    /\ Sent("FwError", 0)
    /\ UNCHANGED <<config, status, table, alive, calls, published, handled, got>>

Die(a) ==
    /\ a \in alive /\ alive' = alive \ {a}
    /\ UNCHANGED <<config, status, inbox, table, calls, published, handled, got>>

-----------------------------------------------------------------------------
(* The actor.                                                              *)

\* The state is dropped, the watcher with it, and every reply port still queued.
Exit(s) ==
    /\ status' = s /\ inbox' = <<>> /\ table' = <<>>
    /\ calls' = [c \in DOMAIN calls |->
        IF calls[c].answer = "Waiting" THEN [calls[c] EXCEPT !.answer = "Error"] ELSE calls[c]]

Stop ==
    /\ status = "Running" /\ Exit("Stopped")
    /\ UNCHANGED <<config, alive, published, handled, got>>

Receive(type) == status = "Running" /\ inbox # <<>> /\ Head(inbox).type = type

\* The message goes to the actors in A.
Through(A) ==
    /\ handled' = Head(inbox).n
    /\ got' = [b \in Box |-> IF \E a \in A \cap DOMAIN table : table[a] = b
                             THEN Append(got[b], handled') ELSE got[b]]

\* Mutant: the loop ends at the first dead target whatever the flag says.
BroadcastStopsEarly ==
    /\ Receive("Message")
    /\ \E A \in SUBSET alive :
        /\ DOMAIN table \subseteq alive => A = alive
        /\ Through(A)
    /\ inbox' = Tail(inbox)
    /\ UNCHANGED <<config, status, table, alive, calls, published>>

\* Every box in the order of a hash map; an error of one ends an impatient actor.
Broadcast ==
    /\ Receive("Message")
    /\ \/ /\ patient \/ DOMAIN table \subseteq alive
          /\ Through(alive)
          /\ inbox' = Tail(inbox) /\ UNCHANGED <<status, table, calls>>
       \/ /\ ~patient /\ ~ DOMAIN table \subseteq alive
          /\ \E A \in SUBSET alive : Through(A)
          /\ Exit("Failed")
    /\ UNCHANGED <<config, alive, published>>

\* Mutant: boxes are keyed by themselves.
InsertedByBox(a, b) == [x \in DOMAIN table \cup {b} |-> IF x = b THEN b ELSE table[x]]

\* Mutant: who is in the table stays.
InsertedOnce(a, b) == [x \in DOMAIN table \cup {a} |-> IF x \in DOMAIN table THEN table[x] ELSE b]

Inserted(a, b) == [x \in DOMAIN table \cup {a} |-> IF x = a THEN b ELSE table[x]]

\* Mutant: a second subscription is welcome too.
JoinAnswerOk(a) == "Ok"

JoinAnswer(a) == IF a \in DOMAIN table THEN "Duplicate" ELSE "Ok"

LeaveAnswer(a) == IF a \in DOMAIN table THEN "Ok" ELSE "NotFound"

\* Mutant: the reply port is dropped where there is nothing to do.
AnsweredOk(c, answer) ==
    calls' = [calls EXCEPT ![c].answer = IF answer = "Ok" THEN answer ELSE "Error"]

Answered(c, answer) ==
    calls' = IF kind = "FileWatcher" THEN [calls EXCEPT ![c].answer = answer] ELSE calls

Join ==
    /\ Receive("Call")
    /\ LET c == Head(inbox).n
           who == calls[c].who
       IN  /\ calls[c].op = "Join"
           /\ table' = Inserted(who, c)
           /\ Answered(c, JoinAnswer(who))
    /\ inbox' = Tail(inbox)
    /\ UNCHANGED <<config, status, alive, published, handled, got>>

Leave ==
    /\ Receive("Call")
    /\ LET c == Head(inbox).n
           who == calls[c].who
       IN  /\ calls[c].op = "Leave"
           /\ table' = Restrict(table, DOMAIN table \ {who})
           /\ Answered(c, LeaveAnswer(who))
    /\ inbox' = Tail(inbox)
    /\ UNCHANGED <<config, status, alive, published, handled, got>>

\* Mutant: the watcher's error is only logged.
FwErrorLogged ==
    /\ Receive("FwError") /\ inbox' = Tail(inbox)
    /\ UNCHANGED <<config, status, table, alive, calls, published, handled, got>>

FilewatcherError ==
    /\ Receive("FwError") /\ Exit("Failed")
    /\ UNCHANGED <<config, alive, published, handled, got>>

Handle == Broadcast \/ Join \/ Leave \/ FilewatcherError

Next ==
    \/ Publish \/ WatchFails \/ Stop
    \/ \E a \in Actor : Ask("Join", a) \/ Ask("Leave", a) \/ Die(a)
    \/ Broadcast \/ Join \/ Leave \/ FilewatcherError

\* The runtime runs the actor; nobody has to ask, publish, stop or die.
Spec == Init /\ [][Next]_vars /\ WF_vars(Handle)

-----------------------------------------------------------------------------
(* Properties.                                                             *)

Queued(type, n) == \E i \in DOMAIN inbox : inbox[i] = [type |-> type, n |-> n]

\* The requests of the actor that were handled.
Handled(a) == {c \in DOMAIN calls : calls[c].who = a /\ ~Queued("Call", c)}
IsLast(c, C) == c \in C /\ \A d \in C : d <= c

\* An actor is served through the box of the last request handled for it, if that
\* was not to leave: one box at most, and never one that was replaced, whatever
\* the answers said (broadcast add_target, pre_start; filewatcher subscribe).
ServedThroughLatest ==
    status = "Running" =>
        \A a \in Actor, c \in Box :
            a \in DOMAIN table /\ table[a] = c
                <=> IsLast(c, Handled(a)) /\ calls[c].op = "Join"

\* The answers add up: of an actor's requests, those to join that were answered Ok
\* are as many as those to leave, and one more while it is subscribed; so whoever
\* counts its answers knows whether it is (filewatcher subscribe, unsubscribe).
AnswersAddUp ==
    kind = "FileWatcher" /\ status = "Running" =>
        \A a \in Actor :
            LET Ok(op) == {c \in Handled(a) : calls[c].op = op /\ calls[c].answer = "Ok"}
            IN  Cardinality(Ok("Join")) =
                    Cardinality(Ok("Leave")) + (IF a \in DOMAIN table THEN 1 ELSE 0)

\* The boxes of living actors in the table are the group of a Topic: none misses a
\* message between two it gets, gets one twice, or gets one after it was replaced
\* or removed; and where one dead target ends the broadcast, that is the last
\* message anybody gets (broadcast, event).
Members == {table[a] : a \in alive \cap DOMAIN table}
Past == {c \in DOMAIN calls : ~Queued("Call", c)} \ Members

TheTopic == INSTANCE Topic WITH
    members <- Members, past <- Past, last <- handled, over <- status # "Running"

ImplementsTopic == TheTopic!Spec

Waits(c) == c \in DOMAIN calls /\ calls[c].answer = "Waiting"

\* Every caller gets an answer, and an error only from an actor that is gone, also
\* when a watch error or a stop comes before its request (subscribe, unsubscribe,
\* filewatcher_error).
CallsReturn ==
    \A c \in Box :
        Waits(c) ~> /\ c \in DOMAIN calls /\ ~Waits(c)
                    /\ calls[c].answer = "Error" => status # "Running"

\* A message is handled, or the actor ends; and a watch error ends it, whatever
\* was queued before (filewatcher_error, broadcast).
Served ==
    /\ \A n \in 1 .. Messages : published >= n ~> handled >= n \/ status # "Running"
    /\ Queued("FwError", 0) ~> status # "Running"
=============================================================================
