------------------------------ MODULE StreamMux ------------------------------
(***************************************************************************)
(* The stream multiplexer (streams/mux/mod.rs) with the stream pump that   *)
(* feeds it (streams/pump/mod.rs), a Loop actor (streams/looping/mod.rs)   *)
(* linked to it.                                                           *)
(*                                                                         *)
(* The pump casts every item of the stream, and None at its end, into the  *)
(* unbounded inbox of the mux.  ractor serves a stop request before        *)
(* supervision events and these before messages; an actor that stops or    *)
(* fails kills its children and drops what is queued; a draining actor     *)
(* finishes what is queued and accepts no new message.                     *)
(***************************************************************************)
EXTENDS Naturals, Sequences

CONSTANTS
    Target,    \* the targets, identified by get_id
    Length,    \* the number of items in the stream: item i is its position
    Failing,   \* the targets that may fail to take an item
    Outside    \* what may come from outside: "Stop", "Drain", "Panic" (of the stream)

ASSUME StreamMuxAssumption ==
    /\ Length \in Nat
    /\ Failing \subseteq Target
    /\ Outside \subseteq {"Stop", "Drain", "Panic"}

VARIABLES
    stopOnFailure, \* stop_processing_target_on_failure, as configured by the owner
    env,      \* what does come from outside in this run
    read,     \* how many casts the pump made: the items, then None
    pump,     \* "Looping", "Stopping" after its last cast, or "Gone"
    mux,      \* "Starting" (in pre_start), "Running", "Draining", "Stopped", "Failed"
    stopping, \* a request in the stop port of the mux
    inbox,    \* its message port
    sup,      \* its supervision port: how the pump ended
    targets,  \* the targets still served
    received, \* history: the items each target was handed
    failures, \* history: target_failed callbacks for each target
    eos       \* history: end_of_stream callbacks

pumpVars == <<read, pump>>
portVars == <<stopping, inbox, sup>>
configVars == <<stopOnFailure, env>>
stateVars == <<configVars, targets, received, failures, eos>>
vars == <<pumpVars, mux, portVars, stateVars>>

None == 0     \* the Option::None the pump casts at the end of the stream
Drained == Length + 1  \* the marker that drain leaves in the message port

Alive == mux \in {"Starting", "Running", "Draining"}

TypeOK ==
    /\ stopOnFailure \in BOOLEAN /\ env \subseteq Outside
    /\ read \in 0 .. Length + 1
    /\ pump \in {"Looping", "Stopping", "Gone"}
    /\ mux \in {"Starting", "Running", "Draining", "Stopped", "Failed"}
    /\ stopping \in BOOLEAN
    /\ inbox \in Seq(0 .. Length + 1)
    /\ sup \in Seq({"Terminated", "Failed"})
    /\ targets \subseteq Target
    /\ received \in [Target -> Seq(1 .. Length)]
    /\ failures \in [Target -> Nat]
    /\ eos \in Nat

\* The mux is in pre_start and has spawned the pump, whose own pre_start cast
\* the message that starts the loop.
Init ==
    /\ stopOnFailure \in BOOLEAN /\ env \in SUBSET Outside
    /\ read = 0 /\ pump = "Looping"
    /\ mux = "Starting"
    /\ stopping = FALSE /\ inbox = <<>> /\ sup = <<>>
    /\ targets = Target
    /\ received = [t \in Target |-> <<>>]
    /\ failures = [t \in Target |-> 0]
    /\ eos = 0

-----------------------------------------------------------------------------
(* The pump.                                                               *)

\* The supervisor hears how the pump ended, if it is still there.
PumpEnds(how) ==
    /\ pump' = "Gone"
    /\ sup' = IF Alive THEN Append(sup, how) ELSE sup

\* Mutant: the end of the stream is not recognised.
CastForever == read + 1

\* What the next cast carries.
Cast == IF read < Length THEN read + 1 ELSE None

\* Streamer::work in Loop::handle.  A cast the mux does not accept is an error
\* of the iteration, and that ends the pump.
PumpWork ==
    /\ pump = "Looping"
    /\ \/ /\ mux \in {"Starting", "Running"}
          /\ inbox' = Append(inbox, Cast)
          /\ read' = read + 1
          /\ pump' = IF Cast = None THEN "Stopping" ELSE "Looping"
          /\ UNCHANGED sup
       \/ /\ mux = "Draining"
          /\ PumpEnds("Failed")
          /\ UNCHANGED <<read, inbox>>
    /\ UNCHANGED <<mux, stopping, stateVars>>

PumpExit ==
    /\ pump = "Stopping"
    /\ PumpEnds("Terminated")
    /\ UNCHANGED <<read, mux, stopping, inbox, stateVars>>

\* The stream panics while the next item is awaited.
PumpPanic ==
    /\ "Panic" \in env
    /\ pump = "Looping" /\ Alive
    /\ PumpEnds("Failed")
    /\ UNCHANGED <<read, mux, stopping, inbox, stateVars>>

-----------------------------------------------------------------------------
(* The mux.                                                                *)

Start == mux = "Starting" /\ mux' = "Running" /\ UNCHANGED <<pumpVars, portVars, stateVars>>

\* The loop of the mux takes the next thing from its ports, by priority.
Serving == mux \in {"Running", "Draining"} /\ ~stopping
Receive == Serving /\ sup = <<>> /\ inbox # <<>> /\ inbox' = Tail(inbox)

\* What the mux does on its way out, whatever the reason.
Exit(how) ==
    /\ mux' = how
    /\ pump' = "Gone"
    /\ stopping' = FALSE /\ inbox' = <<>> /\ sup' = <<>>
    /\ UNCHANGED <<read, stateVars>>

\* Mutant: the failed targets are kept until the next item.
RetainedLate(bad) == {t \in targets : failures[t] = 0}

\* targets.retain
Retained(bad) == IF stopOnFailure THEN targets \ bad ELSE targets

\* Mutant: an item is handed out once more.
HandedTwice(t) == received[t] \o <<Head(inbox), Head(inbox)>>

Handed(t) == Append(received[t], Head(inbox))

\* Mutant: the loop over the targets stops at the first failure.
ServedUntilFailure(bad) == IF bad = {} THEN targets ELSE bad

\* for target in &state.targets: the failure of one does not keep an item from the others.
ServedNow(bad) == targets

\* Mutant: the mux announces the end but goes on.
HaltOnlyTold == eos' = eos + 1 /\ UNCHANGED stopping

\* stop(None) and end_of_stream
Halt == stopping' = TRUE /\ eos' = eos + 1

ItemReceived(bad) ==
    /\ Receive /\ Head(inbox) \in 1 .. Length
    /\ received' = [t \in Target |-> IF t \in ServedNow(bad) THEN Handed(t) ELSE received[t]]
    /\ failures' = [t \in Target |-> IF t \in bad THEN failures[t] + 1 ELSE failures[t]]
    /\ targets' = Retained(bad)
    /\ IF stopOnFailure /\ targets' = {}
       THEN Halt
       ELSE UNCHANGED <<stopping, eos>>
    /\ UNCHANGED <<pumpVars, mux, sup, configVars>>

EndOfStream ==
    /\ Receive /\ Head(inbox) = None
    /\ Halt
    /\ UNCHANGED <<pumpVars, mux, sup, configVars, targets, received, failures>>

\* Mutant: the exit of the pump ends the mux like a failure.
BubbledAlways(event) == TRUE

\* Panics and errors of the pump bubble up; its regular exit does not.
Bubbled(event) == event = "Failed"

HandleSupervisorEvt ==
    /\ Serving /\ sup # <<>>
    /\ \/ Bubbled(Head(sup)) /\ Exit("Failed")
       \/ /\ ~Bubbled(Head(sup))
          /\ sup' = Tail(sup)
          /\ UNCHANGED <<pumpVars, mux, stopping, inbox, stateVars>>

\* The stop request is taken before anything else; post_stop is the default.
StopHandled == mux \in {"Running", "Draining"} /\ stopping /\ Exit("Stopped")

DrainHandled == Serving /\ sup = <<>> /\ inbox # <<>> /\ Head(inbox) = Drained /\ Exit("Stopped")

MuxLoop ==
    \/ Start \/ StopHandled \/ HandleSupervisorEvt
    \/ \E bad \in SUBSET (targets \cap Failing) : ItemReceived(bad)
    \/ EndOfStream \/ DrainHandled

-----------------------------------------------------------------------------
(* The owner of the ActorCell that mux_stream returned.                    *)

Stop ==
    /\ "Stop" \in env
    /\ Alive /\ ~stopping
    /\ stopping' = TRUE
    /\ UNCHANGED <<pumpVars, mux, inbox, sup, stateVars>>

Drain ==
    /\ "Drain" \in env
    /\ mux = "Running"
    /\ mux' = "Draining"
    /\ inbox' = Append(inbox, Drained)
    /\ UNCHANGED <<pumpVars, stopping, sup, stateVars>>

-----------------------------------------------------------------------------
Next == PumpWork \/ PumpExit \/ PumpPanic \/ MuxLoop \/ Stop \/ Drain

\* Both actors are tasks the runtime runs; the stream yields its next item
\* eventually.  Nobody has to stop or drain the mux, and the stream need not panic.
Fairness == WF_vars(PumpWork) /\ WF_vars(PumpExit) /\ WF_vars(MuxLoop)

Spec == Init /\ [][Next]_vars /\ Fairness

-----------------------------------------------------------------------------
(* Properties.                                                             *)

\* Two paths announce the end: the None in the inbox and the loss of the last
\* target.  Whatever their order, the owner is told once (mux/mod.rs end_of_stream).
EosOnce == eos <= 1

\* A target that failed is never handed another item, though items queue up behind
\* the one it failed on (mux/mod.rs:34, stop_processing_target_on_failure).
DroppedForGood ==
    [][stopOnFailure =>
          \A t \in Target : failures[t] > 0 => received'[t] = received[t]]_vars

\* The multiplexer is a multicast of the stream: items arrive in order, once, at
\* every target served, and the end is announced to targets that got everything.
Promise == INSTANCE Multicast WITH served <- targets, announced <- eos > 0, over <- ~Alive

ImplementsMulticast == Promise!Spec

Ended == mux \in {"Stopped", "Failed"}

\* Whatever the owner and the stream do, both actors end.
MuxEnds == <>[](Ended /\ pump = "Gone")

\* Left alone, the mux outlives the pump until its queue is worked off: it ends
\* by announcing the end, and no target misses an item because of another one.
StreamProcessed ==
    env = {} =>
    <>(/\ mux = "Stopped" /\ eos = 1
       /\ \A t \in Target : failures[t] = 0 => Len(received[t]) = Length)

\* examples/streammux.rs:115 "The muxer should die after the stream ends", of a mux
\* that is drained right after it was started.
DiesAfterStream == Ended => eos = 1
=============================================================================
