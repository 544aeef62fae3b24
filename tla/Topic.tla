-------------------------------- MODULE Topic --------------------------------
(***************************************************************************)
(* What an actor that hands every message to a changing group promises     *)
(* (module docs of sync/broadcast and filewatcher): a member gets, in      *)
(* order and each once, all the messages of the time it is a member, and   *)
(* who has left does not come back.  Only the message on which the actor   *)
(* ends may reach some members and not others.                             *)
(***************************************************************************)
EXTENDS Naturals, Sequences

CONSTANT Box  \* what may become a member

VARIABLES
    members, \* the group
    past,    \* what cannot become a member any more
    got,     \* what each has been handed
    last,    \* the last message
    over     \* whether the actor is gone

vars == <<members, past, got, last, over>>

Init ==
    /\ members \in SUBSET Box /\ past \in SUBSET (Box \ members)
    /\ got = [b \in Box |-> <<>>]
    /\ last = 0 /\ over = FALSE

Reaches(boxes) ==
    /\ last' = last + 1
    /\ got' = [b \in Box |-> IF b \in boxes THEN Append(got[b], last') ELSE got[b]]

Deliver == ~over /\ Reaches(members) /\ UNCHANGED <<members, past, over>>

Change ==
    /\ members' \in SUBSET (Box \ past')
    /\ past \cup (members \ members') \subseteq past' /\ past' \in SUBSET Box
    /\ over => members' = {}
    /\ UNCHANGED <<got, last, over>>

Quit ==
    /\ ~over /\ over'
    /\ members' = {} /\ past \cup members \subseteq past' /\ past' \in SUBSET Box
    /\ \/ UNCHANGED <<got, last>>
       \/ \E boxes \in SUBSET members : Reaches(boxes)

Next == Deliver \/ Change \/ Quit

Spec == Init /\ [][Next]_vars
=============================================================================
