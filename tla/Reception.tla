------------------------------ MODULE Reception ------------------------------
(***************************************************************************)
(* What a TCP server promises (net/tcp/listener.rs, examples/tcp.rs): who  *)
(* comes to it is let in one by one, in the order of coming, and becomes a *)
(* guest or is turned away; a guest has a port to itself, and stays when   *)
(* the reception closes.  That is closed when it is asked to, when         *)
(* something it needs is broken, or when a guest has the port of the one   *)
(* at the door; once asked it lets in one more at most.                    *)
(***************************************************************************)
EXTENDS Naturals, Sequences, Functions

CONSTANTS Client, Port

VARIABLES
    port,   \* of each client
    open,   \* whether clients may come
    asked,  \* whether the reception is asked to close
    extra,  \* how many it has let in since
    broken, \* whether something it needs is
    line,   \* the clients that wait
    door,   \* the one that has been let in
    life    \* of each client: "None", "Running" (a guest) or "Gone"

rest == <<port, open, asked, extra, broken>>
vars == <<rest, line, door, life>>

Init ==
    /\ port \in [Client -> Port]
    /\ open = TRUE /\ asked = FALSE /\ extra = 0 /\ broken = FALSE
    /\ line = <<>> /\ door = <<>>
    /\ life = [c \in Client |-> "None"]

Join(c) ==
    /\ open /\ life[c] = "None" /\ c \notin Range(line) \cup Range(door)
    /\ line' = Append(line, c)
    /\ UNCHANGED <<rest, door, life>>

Admit ==
    /\ open /\ door = <<>> /\ line # <<>> /\ (asked => extra = 0)
    /\ door' = <<Head(line)>> /\ line' = Tail(line)
    /\ extra' = IF asked THEN extra + 1 ELSE extra
    /\ UNCHANGED <<port, open, asked, broken, life>>

PortTaken(c) == \E d \in Client : life[d] = "Running" /\ port[d] = port[c]

Serve(c) ==
    /\ open /\ door = <<c>> /\ life[c] = "None" /\ ~PortTaken(c)
    /\ door' = <<>> /\ life' = [life EXCEPT ![c] = "Running"]
    /\ UNCHANGED <<rest, line>>

TurnAway ==
    /\ open /\ door # <<>> /\ door' = <<>>
    /\ UNCHANGED <<rest, line, life>>

End(c) ==
    /\ life[c] = "Running" /\ life' = [life EXCEPT ![c] = "Gone"]
    /\ UNCHANGED <<rest, line, door>>

Ask == asked' = TRUE /\ UNCHANGED <<port, open, extra, broken, line, door, life>>

Break == broken' = TRUE /\ UNCHANGED <<port, open, asked, extra, line, door, life>>

Close ==
    /\ open /\ open' = FALSE
    /\ asked \/ broken' \/ \E c \in Client : door = <<c>> /\ PortTaken(c)
    /\ broken => broken'
    /\ extra' = 0 /\ line' = <<>> /\ door' = <<>>
    /\ UNCHANGED <<port, asked, life>>

Next ==
    \/ \E c \in Client : Join(c) \/ Serve(c) \/ End(c)
    \/ Admit \/ TurnAway \/ Ask \/ Break \/ Close

Spec == Init /\ [][Next]_vars
=============================================================================
