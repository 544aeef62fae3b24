------------------------------ MODULE Multicast ------------------------------
(***************************************************************************)
(* What a stream multiplexer promises (streams/mux/mod.rs, module docs):   *)
(* every target still served receives the items of the stream in order and *)
(* each once, a target that fails may be dropped, and the end of the       *)
(* stream is announced once, when nobody is left behind.                   *)
(***************************************************************************)
EXTENDS Naturals, Sequences

CONSTANTS Target,  \* the downstream targets
          Length   \* the number of items in the stream

VARIABLES
    received,  \* the items each target was handed
    served,    \* the targets that still get items
    announced, \* whether end_of_stream was called
    over       \* whether the multiplexer is gone

vars == <<received, served, announced, over>>

Init ==
    /\ received = [t \in Target |-> <<>>]
    /\ served = Target
    /\ announced = FALSE
    /\ over = FALSE

\* One more item for everybody served; those who fail may be dropped, and the
\* last one to be dropped ends the stream.
Deliver(item) ==
    /\ ~announced /\ ~over
    /\ \A t \in served : Len(received[t]) = item - 1
    /\ received' = [t \in Target |-> IF t \in served THEN Append(received[t], item)
                                                     ELSE received[t]]
    /\ served' \in SUBSET served
    /\ announced' \in (IF served' = {} THEN BOOLEAN ELSE {FALSE})
    /\ UNCHANGED over

\* The end is announced to targets that have everything.
Announce ==
    /\ ~announced /\ ~over
    /\ \A t \in served : Len(received[t]) = Length
    /\ announced' = TRUE
    /\ UNCHANGED <<received, served, over>>

Quit == ~over /\ over' = TRUE /\ UNCHANGED <<received, served, announced>>

Next == (\E item \in 1 .. Length : Deliver(item)) \/ Announce \/ Quit

Spec == Init /\ [][Next]_vars
=============================================================================
