------------------------------ MODULE Registry ------------------------------
(***************************************************************************)
(* What a watchdog promises (watchdog/mod.rs): a registry of actors, each  *)
(* with what is done to it when it is late.  It is done once for each      *)
(* entry, which is used up by it, and to nobody who has none.  Calls are   *)
(* answered one by one.  Only an actor that dies can close the registry.   *)
(* When an actor is late is left open.                                     *)
(***************************************************************************)
EXTENDS Naturals

CONSTANTS Actor, Linked

VARIABLES
    open,   \* whether the registry is there
    entry,  \* the strategy of each registered actor
    kills,  \* how often each strategy was carried out
    stops,
    life,   \* of each actor
    call    \* the call each actor is in

vars == <<open, entry, kills, stops, life, call>>

Empty == [a \in {} |-> "Kill"]

Init ==
    /\ open = TRUE /\ entry = Empty /\ kills = 0 /\ stops = 0
    /\ life = [a \in Actor |-> "Running"] /\ call = [a \in Actor |-> "No"]

Without(a) == [b \in DOMAIN entry \ {a} |-> entry[b]]

Enter(a, s) ==
    /\ open
    /\ entry' = [b \in DOMAIN entry \cup {a} |-> IF b = a THEN s ELSE entry[b]]
    /\ UNCHANGED <<open, kills, stops, life, call>>

Leave(a) ==
    /\ open /\ entry' = Without(a)
    /\ UNCHANGED <<open, kills, stops, life, call>>

Punish(a) ==
    /\ open /\ a \in DOMAIN entry /\ entry' = Without(a)
    /\ \/ /\ entry[a] = "Kill" /\ kills' = kills + 1 /\ UNCHANGED stops
          /\ life' = [life EXCEPT ![a] = IF @ = "Dead" THEN @ ELSE "Killed"]
       \/ /\ entry[a] = "Stop" /\ stops' = stops + 1 /\ UNCHANGED kills
          /\ life' = [life EXCEPT ![a] = IF @ = "Running" THEN "Stopping" ELSE @]
    /\ UNCHANGED <<open, call>>

Ask(a, kind) ==
    /\ open /\ life[a] # "Dead" /\ call[a] = "No"
    /\ call' = [call EXCEPT ![a] = kind]
    /\ UNCHANGED <<open, entry, kills, stops, life>>

Answer(a, kind) ==
    /\ open /\ call[a] = kind
    /\ call' = [call EXCEPT ![a] = "No"]
    /\ UNCHANGED <<open, entry, kills, stops, life>>

End(a) ==
    /\ life[a] # "Dead"
    /\ life' = [life EXCEPT ![a] = "Dead"] /\ call' = [call EXCEPT ![a] = "No"]
    /\ UNCHANGED <<open, entry, kills, stops>>

Close(a) ==
    /\ open /\ life[a] = "Dead"
    /\ open' = FALSE /\ entry' = Empty /\ call' = [b \in Actor |-> "No"]
    /\ life' = [b \in Actor |-> IF b \in Linked /\ life[b] # "Dead" THEN "Killed" ELSE life[b]]
    /\ UNCHANGED <<kills, stops>>

Next ==
    \E a \in Actor :
        \/ \E s \in {"Kill", "Stop"} : Enter(a, s)
        \/ \E kind \in {"Ping", "Stats"} : Ask(a, kind) \/ Answer(a, kind)
        \/ Leave(a) \/ Punish(a) \/ End(a) \/ Close(a)

Spec == Init /\ [][Next]_vars
=============================================================================
