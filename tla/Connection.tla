------------------------------ MODULE Connection ------------------------------
(***************************************************************************)
(* What two TCP sessions promise their owners (net/tcp/session.rs): while  *)
(* a session is open it accepts frames, and hands over those of the other  *)
(* side in the order in which they were accepted there, each of them once. *)
(* A session ends for good, whether or not the other one has, and frames   *)
(* that are under way may be lost then, but only the last ones.            *)
(***************************************************************************)
EXTENDS Naturals, Sequences

CONSTANT Side

VARIABLES
    open,      \* the sessions that have not ended
    sent,      \* how many frames each of them has accepted
    received   \* the frames handed over on each side, by their number on the other

vars == <<open, sent, received>>

Other(s) == CHOOSE p \in Side : p # s

Init ==
    /\ open = Side
    /\ sent = [s \in Side |-> 0]
    /\ received = [s \in Side |-> <<>>]

Send(s) ==
    /\ s \in open
    /\ sent' = [sent EXCEPT ![s] = @ + 1]
    /\ UNCHANGED <<open, received>>

FrameReady(s) ==
    /\ s \in open /\ Len(received[s]) < sent[Other(s)]
    /\ received' = [received EXCEPT ![s] = Append(@, Len(@) + 1)]
    /\ UNCHANGED <<open, sent>>

End(s) ==
    /\ s \in open /\ open' = open \ {s}
    /\ UNCHANGED <<sent, received>>

Next == \E s \in Side : Send(s) \/ FrameReady(s) \/ End(s)

Spec == Init /\ [][Next]_vars
=============================================================================
