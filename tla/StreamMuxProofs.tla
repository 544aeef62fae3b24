-------------------------- MODULE StreamMuxProofs --------------------------
(***************************************************************************)
(* Proofs about StreamMux for every set of targets, every length of the    *)
(* stream, every choice of failing targets and of what comes from outside. *)
(***************************************************************************)
EXTENDS StreamMux, SequenceTheorems, TLAPS

\* The pump loops no further than the end of the stream, which bounds what it read.
PumpInBounds == pump = "Looping" => read <= Length

-----------------------------------------------------------------------------
(* Types.                                                                  *)

\* What is in the message port is handled or dropped as what it was cast as.
LEMMA ReceiveKeeps ==
    ASSUME TypeOK, Receive
    PROVE  /\ Head(inbox) \in 0 .. Length + 1 /\ Head(inbox) = inbox[1]
           /\ inbox' \in Seq(0 .. Length + 1)
           /\ Len(inbox) \in Nat \ {0} /\ Len(inbox') = Len(inbox) - 1
           /\ \A i \in 1 .. Len(inbox') : inbox'[i] = inbox[i + 1]
<1>1. inbox \in Seq(0 .. Length + 1) /\ inbox # <<>> /\ inbox' = Tail(inbox)
  BY DEF TypeOK, Receive
<1>2. Head(inbox) = inbox[1] /\ Len(inbox) \in Nat \ {0}
  BY <1>1, EmptySeq, LenProperties
<1>. QED BY <1>1, <1>2, HeadTailProperties

LEMMA SendKeeps ==
    ASSUME TypeOK, NEW m \in 0 .. Length + 1, inbox' = Append(inbox, m)
    PROVE  /\ inbox' \in Seq(0 .. Length + 1)
           /\ Len(inbox) \in Nat /\ Len(inbox') = Len(inbox) + 1
           /\ inbox'[Len(inbox) + 1] = m
           /\ \A i \in 1 .. Len(inbox) : inbox'[i] = inbox[i]
<1>1. inbox \in Seq(0 .. Length + 1) /\ Len(inbox) \in Nat
  BY LenProperties DEF TypeOK
<1>. QED BY <1>1, AppendProperties

\* An actor on its way out leaves empty ports.
LEMMA ExitTypeOK == ASSUME TypeOK, NEW how \in {"Stopped", "Failed"}, Exit(how) PROVE TypeOK'
<1>1. inbox' \in Seq(0 .. Length + 1) /\ sup' \in Seq({"Terminated", "Failed"})
  BY EmptySeq DEF Exit
<1>. QED BY <1>1 DEF TypeOK, Exit, stateVars, configVars

LEMMA PumpTypeOK ==
    ASSUME StreamMuxAssumption, TypeOK, PumpInBounds, PumpWork \/ PumpExit \/ PumpPanic
    PROVE  TypeOK' /\ PumpInBounds'
<1> USE DEF stateVars, configVars
<1>1. ASSUME NEW how \in {"Terminated", "Failed"}, PumpEnds(how)
      PROVE  pump' = "Gone" /\ sup' \in Seq({"Terminated", "Failed"})
  BY <1>1, AppendProperties DEF PumpEnds, TypeOK
<1>2. CASE PumpWork
  <2>1. CASE mux = "Draining"
    BY <1>1, <1>2, <2>1 DEF PumpWork, TypeOK, PumpInBounds
  <2>2. CASE mux \in {"Starting", "Running"}
    <3>1. /\ pump = "Looping" /\ inbox' = Append(inbox, Cast) /\ read' = read + 1
          /\ pump' = IF Cast = None THEN "Stopping" ELSE "Looping"
          /\ UNCHANGED <<sup, mux, stopping, stateVars>>
      BY <1>2, <2>2 DEF PumpWork
    <3>2. Cast \in 0 .. Length + 1 /\ (Cast # None => read < Length)
      BY StreamMuxAssumption DEF Cast, None, TypeOK
    <3>3. inbox' \in Seq(0 .. Length + 1)
      BY <3>1, <3>2, SendKeeps
    <3>4. read' \in 0 .. Length + 1 /\ PumpInBounds'
      BY <3>1, <3>2, StreamMuxAssumption DEF TypeOK, PumpInBounds
    <3>. QED BY <3>1, <3>3, <3>4 DEF TypeOK
  <2>. QED BY <1>2, <2>1, <2>2 DEF PumpWork
<1>3. CASE PumpExit
  BY <1>1, <1>3 DEF PumpExit, TypeOK, PumpInBounds
<1>4. CASE PumpPanic
  BY <1>1, <1>4 DEF PumpPanic, TypeOK, PumpInBounds
<1>. QED BY <1>2, <1>3, <1>4

LEMMA MuxTypeOK == ASSUME StreamMuxAssumption, TypeOK, MuxLoop PROVE TypeOK'
<1> USE DEF pumpVars, portVars, stateVars, configVars
<1>1. CASE Start
  BY <1>1 DEF Start, TypeOK
<1>2. CASE StopHandled \/ DrainHandled
  BY <1>2, ExitTypeOK DEF StopHandled, DrainHandled
<1>3. CASE HandleSupervisorEvt
  <2>1. CASE Exit("Failed")
    BY <2>1, ExitTypeOK
  <2>2. CASE sup' = Tail(sup) /\ UNCHANGED <<pumpVars, mux, stopping, inbox, stateVars>>
    BY <1>3, <2>2, HeadTailProperties DEF HandleSupervisorEvt, TypeOK
  <2>. QED BY <1>3, <2>1, <2>2 DEF HandleSupervisorEvt
<1>4. ASSUME NEW bad \in SUBSET (targets \cap Failing), ItemReceived(bad) PROVE TypeOK'
  <2>1. /\ Receive /\ Head(inbox) \in 1 .. Length
        /\ UNCHANGED <<pumpVars, mux, sup, configVars>>
    BY <1>4 DEF ItemReceived
  <2>2. inbox' \in Seq(0 .. Length + 1)
    BY <2>1, ReceiveKeeps
  <2>3. received' \in [Target -> Seq(1 .. Length)]
    <3>1. \A t \in Target : Handed(t) \in Seq(1 .. Length)
      BY <2>1, AppendProperties DEF Handed, TypeOK
    <3>. QED BY <1>4, <3>1 DEF ItemReceived, TypeOK
  <2>4. failures' \in [Target -> Nat]
    BY <1>4 DEF ItemReceived, TypeOK
  <2>5. targets' \subseteq Target
    BY <1>4 DEF ItemReceived, Retained, TypeOK
  <2>6. stopping' \in BOOLEAN /\ eos' \in Nat
    <3>1. Halt \/ UNCHANGED <<stopping, eos>>
      BY <1>4, Zenon DEF ItemReceived
    <3>2. stopping' \in BOOLEAN
      BY <3>1, Zenon DEF Halt, TypeOK
    <3>3. eos' \in Nat
      BY <3>1 DEF Halt, TypeOK
    <3>. QED BY <3>2, <3>3
  <2>. QED BY <2>1, <2>2, <2>3, <2>4, <2>5, <2>6 DEF TypeOK
<1>5. CASE EndOfStream
  <2>1. inbox' \in Seq(0 .. Length + 1)
    BY <1>5, ReceiveKeeps DEF EndOfStream
  <2>. QED BY <1>5, <2>1 DEF EndOfStream, Halt, TypeOK
<1>. QED BY <1>1, <1>2, <1>3, <1>4, <1>5 DEF MuxLoop

LEMMA OwnerTypeOK == ASSUME StreamMuxAssumption, TypeOK, Stop \/ Drain PROVE TypeOK'
<1> USE DEF pumpVars, portVars, stateVars, configVars
<1>1. CASE Stop
  BY <1>1 DEF Stop, TypeOK
<1>2. CASE Drain
  <2>1. inbox' \in Seq(0 .. Length + 1)
    BY <1>2, SendKeeps, StreamMuxAssumption DEF Drain, Drained
  <2>. QED BY <1>2, <2>1 DEF Drain, TypeOK
<1>. QED BY <1>1, <1>2

\* The pump is left alone by the mux and its owner, or killed with the mux.
LEMMA OthersKeepPumpInBounds ==
    ASSUME PumpInBounds, MuxLoop \/ Stop \/ Drain PROVE PumpInBounds'
<1>1. UNCHANGED pumpVars \/ \E how \in {"Stopped", "Failed"} : Exit(how)
  <2>1. CASE Stop \/ Drain \/ Start \/ EndOfStream
    BY <2>1, Zenon DEF Stop, Drain, Start, EndOfStream
  <2>2. CASE StopHandled \/ DrainHandled
    BY <2>2, Zenon DEF StopHandled, DrainHandled
  <2>3. CASE HandleSupervisorEvt
    BY <2>3, Zenon DEF HandleSupervisorEvt
  <2>4. ASSUME NEW bad \in SUBSET (targets \cap Failing), ItemReceived(bad)
        PROVE  UNCHANGED pumpVars
    BY <2>4 DEF ItemReceived
  <2>. QED BY <2>1, <2>2, <2>3, <2>4 DEF MuxLoop
<1>. QED BY <1>1 DEF PumpInBounds, pumpVars, Exit

LEMMA InitTypeOK == ASSUME StreamMuxAssumption, Init PROVE TypeOK /\ PumpInBounds
<1>1. received \in [Target -> Seq(1 .. Length)] /\ failures \in [Target -> Nat]
  BY EmptySeq DEF Init
<1>2. inbox \in Seq(0 .. Length + 1) /\ sup \in Seq({"Terminated", "Failed"})
  BY EmptySeq DEF Init
<1>3. read \in 0 .. Length + 1 /\ PumpInBounds
  BY StreamMuxAssumption DEF Init, PumpInBounds
<1>. QED BY <1>1, <1>2, <1>3 DEF Init, TypeOK

LEMMA TypeStep ==
    ASSUME StreamMuxAssumption, TypeOK, PumpInBounds, [Next]_vars
    PROVE  TypeOK' /\ PumpInBounds'
<1>1. CASE UNCHANGED vars
  BY <1>1 DEF TypeOK, PumpInBounds, vars, pumpVars, portVars, stateVars, configVars
<1>2. CASE Next
  BY <1>2, PumpTypeOK, MuxTypeOK, OwnerTypeOK, OthersKeepPumpInBounds DEF Next
<1>. QED BY <1>1, <1>2

\* TypeOK holds in every state (every variable of the mux, its pump and its owner).
THEOREM TypeCorrect == Spec => []TypeOK
<1>1. Init => TypeOK /\ PumpInBounds
  BY InitTypeOK, StreamMuxAssumption
<1>2. TypeOK /\ PumpInBounds /\ [Next]_vars => TypeOK' /\ PumpInBounds'
  BY TypeStep, StreamMuxAssumption
<1>. QED BY <1>1, <1>2, PTL DEF Spec

-----------------------------------------------------------------------------
(* The end is announced once.                                              *)

\* Who announces the end has asked the mux to stop in the same step, and a mux that
\* was asked to stop handles nothing more.
AnnouncedLast == eos <= 1 /\ (eos = 1 => stopping \/ ~Alive)

LEMMA AnnouncedLastStep ==
    ASSUME TypeOK, AnnouncedLast, [Next]_vars PROVE AnnouncedLast'
<1> USE DEF pumpVars, portVars, stateVars, configVars, AnnouncedLast
<1>1. ASSUME UNCHANGED <<eos, stopping, mux>> PROVE AnnouncedLast'
  BY <1>1 DEF Alive
<1>2. ASSUME NEW how \in {"Stopped", "Failed"}, Exit(how) PROVE AnnouncedLast'
  BY <1>2 DEF Exit, Alive
<1>3. ASSUME Receive, Halt \/ UNCHANGED <<stopping, eos>>, UNCHANGED mux
      PROVE  AnnouncedLast'
  <2>1. CASE Halt
    <3>1. eos = 0
      BY <1>3 DEF Receive, Serving, Alive, TypeOK
    <3>. QED BY <2>1, <3>1 DEF Halt
  <2>. QED BY <1>1, <1>3, <2>1
<1>4. CASE PumpWork \/ PumpExit \/ PumpPanic
  BY <1>1, <1>4 DEF PumpWork, PumpExit, PumpPanic
<1>5. CASE Start
  BY <1>5 DEF Start, Alive
<1>6. CASE StopHandled \/ DrainHandled
  BY <1>2, <1>6 DEF StopHandled, DrainHandled
<1>7. CASE HandleSupervisorEvt
  BY <1>1, <1>2, <1>7 DEF HandleSupervisorEvt
<1>8. ASSUME NEW bad \in SUBSET (targets \cap Failing), ItemReceived(bad)
      PROVE  AnnouncedLast'
  <2>1. Receive /\ UNCHANGED mux
    BY <1>8 DEF ItemReceived
  <2>2. Halt \/ UNCHANGED <<stopping, eos>>
    BY <1>8, Zenon DEF ItemReceived
  <2>. QED BY <1>3, <2>1, <2>2
<1>9. CASE EndOfStream
  BY <1>3, <1>9 DEF EndOfStream
<1>10. CASE Stop
  BY <1>10 DEF Stop, Alive
<1>11. CASE Drain
  BY <1>11 DEF Drain, Alive
<1>12. CASE UNCHANGED vars
  BY <1>1, <1>12 DEF vars
<1>. QED BY <1>4, <1>5, <1>6, <1>7, <1>8, <1>9, <1>10, <1>11, <1>12 DEF Next, MuxLoop

\* The end of the stream is announced at most once, whether the last target fails
\* before or after the None is queued (mux/mod.rs item_received, end_of_stream).
THEOREM AnnouncedOnce == Spec => []EosOnce
<1>1. Init => AnnouncedLast
  BY DEF Init, AnnouncedLast
<1>2. TypeOK /\ AnnouncedLast /\ [Next]_vars => AnnouncedLast'
  BY AnnouncedLastStep
<1>3. AnnouncedLast => EosOnce
  BY DEF AnnouncedLast, EosOnce
<1>. QED BY <1>1, <1>2, <1>3, TypeCorrect, PTL DEF Spec

-----------------------------------------------------------------------------
(* The multiplexer is a multicast.                                         *)

\* How many messages of the pump the mux has handled: those it cast, less those
\* that are queued in front of the marker of a drain.
Seen == read - Len(inbox) + IF mux = "Draining" THEN 1 ELSE 0

\* The k-th message in the port, counted from the start of the stream, of which the
\* pump has cast the first n.
Item(k, n) == IF k > n THEN Drained ELSE IF k <= Length THEN k ELSE None

\* The queue continues the stream where the targets are: nothing is lost, doubled or
\* overtaken on the way, and everybody who is served has everything handled so far.
InOrder ==
    Alive =>
        /\ Seen >= 0
        /\ \A i \in 1 .. Len(inbox) : inbox[i] = Item(Seen + i, read)
        /\ eos = 0 => \A t \in targets : Len(received[t]) = Seen

\* A message that is handled is the next one of the stream.
LEMMA NextInOrder ==
    ASSUME StreamMuxAssumption, TypeOK, InOrder, AnnouncedLast,
           Receive, UNCHANGED <<read, mux>>
    PROVE  /\ Alive /\ eos = 0
           /\ Seen \in Nat /\ Seen' = Seen + 1
           /\ Head(inbox) = Item(Seen + 1, read)
           /\ \A i \in 1 .. Len(inbox') : inbox'[i] = Item(Seen' + i, read')
           /\ \A t \in targets : Len(received[t]) = Seen
<1>1. /\ Head(inbox) = inbox[1]
      /\ Len(inbox) \in Nat \ {0} /\ Len(inbox') = Len(inbox) - 1
      /\ \A i \in 1 .. Len(inbox') : inbox'[i] = inbox[i + 1]
  BY ReceiveKeeps
<1>2. Alive /\ eos = 0
  BY DEF Receive, Serving, Alive, AnnouncedLast, TypeOK
<1>3. Seen \in Nat /\ Seen' = Seen + 1
  BY <1>1, <1>2 DEF Seen, InOrder, TypeOK
<1>4. \A i \in 1 .. Len(inbox) : inbox[i] = Item(Seen + i, read)
  BY <1>2 DEF InOrder
<1>5. ASSUME NEW i \in 1 .. Len(inbox') PROVE inbox'[i] = Item(Seen' + i, read')
  <2>1. inbox'[i] = inbox[i + 1] /\ i + 1 \in 1 .. Len(inbox)
    BY <1>1, <1>5
  <2>2. inbox[i + 1] = Item(Seen + (i + 1), read)
    BY <1>4, <2>1
  <2>3. Seen + (i + 1) = Seen' + i
    BY <1>3, <1>5
  <2>4. read' = read
    OBVIOUS
  <2>. QED BY <2>1, <2>2, <2>3, <2>4
<1>. QED BY <1>1, <1>2, <1>3, <1>4, <1>5 DEF InOrder

LEMMA PumpInOrder ==
    ASSUME StreamMuxAssumption, TypeOK, PumpInBounds, InOrder, PumpWork PROVE InOrder'
<1> USE DEF stateVars, configVars
<1>1. CASE UNCHANGED <<read, inbox, mux, targets, received, eos>>
  BY <1>1 DEF InOrder, Seen, Item, Alive, Drained, None
<1>2. CASE mux \in {"Starting", "Running"} /\ inbox' = Append(inbox, Cast) /\ read' = read + 1
           /\ UNCHANGED <<mux, targets, received, eos>> /\ pump = "Looping"
  <2>1. Cast \in 0 .. Length + 1 /\ read \in Nat /\ read <= Length
    BY <1>2, StreamMuxAssumption DEF Cast, None, TypeOK, PumpInBounds
  <2>2. /\ Len(inbox) \in Nat /\ Len(inbox') = Len(inbox) + 1
        /\ inbox'[Len(inbox) + 1] = Cast
        /\ \A i \in 1 .. Len(inbox) : inbox'[i] = inbox[i]
    BY <1>2, <2>1, SendKeeps
  <2>3. Alive /\ Seen \in Nat /\ Seen' = Seen /\ Seen + Len(inbox) = read
    BY <1>2, <2>1, <2>2 DEF Alive, Seen, InOrder
  <2>4. ASSUME NEW i \in 1 .. Len(inbox') PROVE inbox'[i] = Item(Seen' + i, read')
    <3>1. CASE i = Len(inbox) + 1
      <4>1. Item(Seen' + i, read') = IF read + 1 <= Length THEN read + 1 ELSE None
        BY <1>2, <2>1, <2>2, <2>3, <3>1 DEF Item, None
      <4>. QED BY <2>1, <2>2, <3>1, <4>1, StreamMuxAssumption DEF Cast
    <3>2. CASE i \in 1 .. Len(inbox)
      <4>1. inbox'[i] = Item(Seen + i, read) /\ Seen + i <= read
        BY <2>2, <2>3, <3>2 DEF InOrder
      <4>. QED BY <1>2, <2>1, <2>3, <3>2, <4>1 DEF Item, None
    <3>. QED BY <2>2, <2>4, <3>1, <3>2
  <2>. QED BY <1>2, <2>3, <2>4 DEF InOrder, Alive
<1>. QED BY <1>1, <1>2 DEF PumpWork

LEMMA DrainInOrder == ASSUME StreamMuxAssumption, TypeOK, InOrder, Drain PROVE InOrder'
<1>1. /\ mux = "Running" /\ mux' = "Draining" /\ inbox' = Append(inbox, Drained)
      /\ UNCHANGED <<read, targets, received, eos>>
  BY DEF Drain, pumpVars, stateVars
<1>2. /\ Len(inbox) \in Nat /\ Len(inbox') = Len(inbox) + 1
      /\ inbox'[Len(inbox) + 1] = Drained
      /\ \A i \in 1 .. Len(inbox) : inbox'[i] = inbox[i]
  BY <1>1, SendKeeps, StreamMuxAssumption DEF Drained
<1>3. Alive /\ Seen \in Nat /\ Seen' = Seen /\ Seen + Len(inbox) = read
  BY <1>1, <1>2 DEF Alive, Seen, InOrder, TypeOK
<1>4. ASSUME NEW i \in 1 .. Len(inbox') PROVE inbox'[i] = Item(Seen' + i, read')
  <2>1. CASE i = Len(inbox) + 1
    BY <1>1, <1>2, <1>3, <2>1 DEF Item, Drained, TypeOK
  <2>2. CASE i \in 1 .. Len(inbox)
    <3>1. inbox'[i] = Item(Seen + i, read)
      BY <1>2, <1>3, <2>2 DEF InOrder
    <3>. QED BY <1>1, <1>3, <3>1 DEF Item, Drained, None
  <2>. QED BY <1>2, <1>4, <2>1, <2>2
<1>. QED BY <1>1, <1>3, <1>4 DEF InOrder, Alive

LEMMA ItemInOrder ==
    ASSUME StreamMuxAssumption, TypeOK, InOrder, AnnouncedLast,
           NEW bad \in SUBSET (targets \cap Failing), ItemReceived(bad)
    PROVE  InOrder'
<1>1. /\ Receive /\ Head(inbox) \in 1 .. Length /\ UNCHANGED <<read, mux>>
      /\ targets' \subseteq targets /\ targets \subseteq Target
      /\ received' = [t \in Target |-> IF t \in targets THEN Handed(t) ELSE received[t]]
  BY DEF ItemReceived, pumpVars, ServedNow, Retained, TypeOK
<1>2. \A t \in targets : Len(received'[t]) = Len(received[t]) + 1
  <2>1. \A t \in targets : received[t] \in Seq(1 .. Length)
    BY <1>1 DEF TypeOK
  <2>2. ASSUME NEW t \in targets PROVE Len(received'[t]) = Len(received[t]) + 1
    <3>1. received'[t] = Append(received[t], Head(inbox))
      BY <1>1 DEF Handed
    <3>. QED BY <1>1, <2>1, <3>1, AppendProperties
  <2>. QED BY <2>2
<1>3. /\ Alive /\ Seen \in Nat /\ Seen' = Seen + 1
      /\ \A i \in 1 .. Len(inbox') : inbox'[i] = Item(Seen' + i, read')
      /\ \A t \in targets : Len(received[t]) = Seen
  BY <1>1, NextInOrder
<1>4. \A t \in targets' : Len(received'[t]) = Seen'
  BY <1>1, <1>2, <1>3
<1>5. Seen' >= 0
  BY <1>3
<1>. QED BY <1>3, <1>4, <1>5, Zenon DEF InOrder

LEMMA EndInOrder ==
    ASSUME StreamMuxAssumption, TypeOK, InOrder, AnnouncedLast, EndOfStream PROVE InOrder'
<1>1. Receive /\ UNCHANGED <<read, mux, targets, received>> /\ eos' = eos + 1
  BY DEF EndOfStream, pumpVars, Halt
<1>2. /\ eos = 0 /\ Seen \in Nat /\ Seen' = Seen + 1
      /\ \A i \in 1 .. Len(inbox') : inbox'[i] = Item(Seen' + i, read')
  BY <1>1, NextInOrder
<1>. QED BY <1>1, <1>2 DEF InOrder

LEMMA InOrderStep ==
    ASSUME StreamMuxAssumption, TypeOK, PumpInBounds, AnnouncedLast, InOrder, [Next]_vars
    PROVE  InOrder'
<1> USE DEF pumpVars, portVars, stateVars, configVars
<1>1. ASSUME UNCHANGED <<read, inbox, targets, received, eos>>,
             mux' = mux \/ (mux = "Starting" /\ mux' = "Running")
      PROVE  InOrder'
  BY <1>1 DEF InOrder, Seen, Alive
<1>2. ASSUME NEW how \in {"Stopped", "Failed"}, Exit(how) PROVE InOrder'
  BY <1>2 DEF Exit, InOrder, Alive
<1>3. CASE PumpExit \/ PumpPanic
  BY <1>1, <1>3 DEF PumpExit, PumpPanic
<1>4. CASE Start
  BY <1>1, <1>4 DEF Start
<1>5. CASE StopHandled \/ DrainHandled
  BY <1>2, <1>5 DEF StopHandled, DrainHandled
<1>6. CASE HandleSupervisorEvt
  BY <1>1, <1>2, <1>6 DEF HandleSupervisorEvt
<1>7. CASE Stop
  BY <1>1, <1>7 DEF Stop
<1>8. CASE UNCHANGED vars
  BY <1>1, <1>8 DEF vars
<1>. QED BY <1>3, <1>4, <1>5, <1>6, <1>7, <1>8, PumpInOrder, ItemInOrder, EndInOrder, DrainInOrder
     DEF Next, MuxLoop

-----------------------------------------------------------------------------
(* Steps of the multicast.                                                 *)

LEMMA DeliverStep ==
    ASSUME StreamMuxAssumption, TypeOK, InOrder, AnnouncedLast,
           NEW bad \in SUBSET (targets \cap Failing), ItemReceived(bad)
    PROVE  Promise!Next
<1> DEFINE item == Head(inbox)
<1>1. /\ Receive /\ item \in 1 .. Length /\ UNCHANGED <<read, mux>>
      /\ received' = [t \in Target |-> IF t \in targets THEN Append(received[t], item)
                                                       ELSE received[t]]
      /\ targets' \in SUBSET targets
  BY DEF ItemReceived, pumpVars, ServedNow, Handed, Retained
<1>2. /\ Alive /\ eos = 0 /\ Seen \in Nat /\ item = Item(Seen + 1, read)
      /\ \A t \in targets : Len(received[t]) = Seen
  BY <1>1, NextInOrder
<1>3. item = Seen + 1
  BY <1>1, <1>2, StreamMuxAssumption DEF Item, Drained, None
<1>4. \A t \in targets : Len(received[t]) = item - 1
  BY <1>2, <1>3
<1>5. UNCHANGED Alive
  BY <1>1 DEF Alive
<1>6. (eos' > 0) \in (IF targets' = {} THEN BOOLEAN ELSE {FALSE})
  <2>1. CASE targets' = {}
    BY <2>1
  <2>2. CASE targets' # {}
    <3>1. eos' = eos
      BY <2>2, Zenon DEF ItemReceived
    <3>2. (eos' > 0) = FALSE
      BY <1>2, <3>1
    <3>. QED BY <2>2, <3>2, Zenon
  <2>. QED BY <2>1, <2>2
<1>7. ~(eos > 0)
  BY <1>2
<1>8. Promise!Deliver(item)
  BY <1>1, <1>2, <1>4, <1>5, <1>6, <1>7, Zenon DEF Promise!Deliver
<1>. QED BY <1>1, <1>8 DEF Promise!Next

LEMMA AnnounceStep ==
    ASSUME StreamMuxAssumption, TypeOK, InOrder, AnnouncedLast, EndOfStream
    PROVE  Promise!Next
<1>1. /\ Receive /\ Head(inbox) = None /\ eos' = eos + 1
      /\ UNCHANGED <<read, mux, targets, received>>
  BY DEF EndOfStream, pumpVars, Halt
<1>2. /\ Alive /\ eos = 0 /\ Seen \in Nat /\ None = Item(Seen + 1, read)
      /\ \A t \in targets : Len(received[t]) = Seen
  BY <1>1, NextInOrder
<1>3. Seen = Length
  BY <1>2, StreamMuxAssumption DEF Item, Drained, None, TypeOK
<1>4. ~(eos > 0) /\ eos' > 0
  BY <1>1, <1>2
<1>5. UNCHANGED Alive
  BY <1>1 DEF Alive
<1>6. Promise!Announce
  BY <1>1, <1>2, <1>3, <1>4, <1>5 DEF Promise!Announce
<1>. QED BY <1>6 DEF Promise!Next

LEMMA MulticastStep ==
    ASSUME StreamMuxAssumption, TypeOK, AnnouncedLast, InOrder, [Next]_vars
    PROVE  [Promise!Next]_(Promise!vars)
<1> USE DEF pumpVars, portVars, stateVars, configVars
<1>1. ASSUME UNCHANGED <<received, targets, eos>>, Alive' = Alive
      PROVE  UNCHANGED Promise!vars
  BY <1>1 DEF Promise!vars
<1>2. ASSUME NEW how \in {"Stopped", "Failed"}, Exit(how), Alive PROVE Promise!Next
  <2>1. UNCHANGED <<received, targets, eos>> /\ ~Alive'
    BY <1>2 DEF Exit, Alive
  <2>2. Promise!Quit
    BY <1>2, <2>1 DEF Promise!Quit
  <2>. QED BY <2>2 DEF Promise!Next
<1>3. CASE PumpWork \/ PumpExit \/ PumpPanic
  BY <1>1, <1>3 DEF PumpWork, PumpExit, PumpPanic, Alive
<1>4. CASE Start \/ Stop \/ Drain
  BY <1>1, <1>4 DEF Start, Stop, Drain, Alive
<1>5. CASE StopHandled \/ DrainHandled
  BY <1>2, <1>5 DEF StopHandled, DrainHandled, Serving, Alive
<1>6. CASE HandleSupervisorEvt
  BY <1>1, <1>2, <1>6 DEF HandleSupervisorEvt, Serving, Alive
<1>7. CASE UNCHANGED vars
  BY <1>1, <1>7 DEF vars, Alive
<1>. QED BY <1>3, <1>4, <1>5, <1>6, <1>7, DeliverStep, AnnounceStep DEF Next, MuxLoop

\* Whatever the targets and the owner do, the targets served receive the stream in
\* order and without gaps, and the end is announced to targets that have it all.
THEOREM MuxIsMulticast == Spec => ImplementsMulticast
<1>1. Init => AnnouncedLast /\ InOrder /\ Promise!Init
  <2> SUFFICES ASSUME Init PROVE AnnouncedLast /\ InOrder /\ Promise!Init
    OBVIOUS
  <2>1. AnnouncedLast /\ Promise!Init
    BY DEF Init, AnnouncedLast, Promise!Init, Alive
  <2>2. Len(inbox) = 0 /\ \A t \in Target : Len(received[t]) = 0
    BY EmptySeq DEF Init
  <2>3. Seen = 0
    <3>1. read = 0 /\ mux # "Draining"
      BY DEF Init
    <3>. QED BY <2>2, <3>1 DEF Seen
  <2>4. InOrder
    BY <2>2, <2>3 DEF Init, InOrder
  <2>. QED BY <2>1, <2>4
<1>2. Init => TypeOK /\ PumpInBounds
  BY InitTypeOK, StreamMuxAssumption
<1>3. TypeOK /\ PumpInBounds /\ AnnouncedLast /\ InOrder /\ [Next]_vars
        => TypeOK' /\ PumpInBounds' /\ AnnouncedLast' /\ InOrder'
  BY TypeStep, AnnouncedLastStep, InOrderStep, StreamMuxAssumption
<1>4. TypeOK /\ AnnouncedLast /\ InOrder /\ [Next]_vars => [Promise!Next]_(Promise!vars)
  BY MulticastStep, StreamMuxAssumption
<1>. QED BY <1>1, <1>2, <1>3, <1>4, PTL DEF Spec, ImplementsMulticast, Promise!Spec

-----------------------------------------------------------------------------
(* A target that failed is dropped for good.                               *)

\* With stop_processing_target_on_failure a target that failed is served no more.
Dropped == stopOnFailure => \A t \in Target : failures[t] > 0 => t \notin targets

LEMMA DroppedStep ==
    ASSUME TypeOK, Dropped, [Next]_vars
    PROVE  /\ Dropped'
           /\ stopOnFailure =>
                 \A t \in Target : failures[t] > 0 => received'[t] = received[t]
<1> USE DEF pumpVars, portVars, stateVars, configVars
<1>1. ASSUME UNCHANGED <<stopOnFailure, failures, targets, received>>
      PROVE  /\ Dropped'
             /\ \A t \in Target : received'[t] = received[t]
  BY <1>1 DEF Dropped
<1>2. ASSUME NEW bad \in SUBSET (targets \cap Failing), ItemReceived(bad)
      PROVE  /\ Dropped'
             /\ stopOnFailure =>
                   \A t \in Target : failures[t] > 0 => received'[t] = received[t]
  <2>1. /\ failures' = [t \in Target |-> IF t \in bad THEN failures[t] + 1 ELSE failures[t]]
        /\ received' = [t \in Target |-> IF t \in targets THEN Handed(t) ELSE received[t]]
        /\ targets' = (IF stopOnFailure THEN targets \ bad ELSE targets)
        /\ UNCHANGED stopOnFailure
    BY <1>2 DEF ItemReceived, ServedNow, Retained
  <2>. QED BY <2>1 DEF Dropped
<1>3. ASSUME NEW how, Exit(how)
      PROVE  UNCHANGED <<stopOnFailure, failures, targets, received>>
  BY <1>3 DEF Exit
<1>4. CASE PumpWork \/ PumpExit \/ PumpPanic \/ Stop \/ Drain \/ Start \/ EndOfStream
           \/ UNCHANGED vars
  BY <1>1, <1>4 DEF PumpWork, PumpExit, PumpPanic, Stop, Drain, Start, EndOfStream, vars
<1>5. CASE StopHandled \/ DrainHandled \/ HandleSupervisorEvt
  BY <1>1, <1>3, <1>5 DEF StopHandled, DrainHandled, HandleSupervisorEvt
<1>. QED BY <1>1, <1>2, <1>4, <1>5 DEF Next, MuxLoop

\* A target that failed on one item is never handed another one, however many are
\* queued behind it (mux/mod.rs item_received, retain).
THEOREM FailedIsDropped == Spec => DroppedForGood
<1>1. Init => Dropped
  BY DEF Init, Dropped
<1>2. TypeOK /\ Dropped /\ [Next]_vars
        => /\ Dropped'
           /\ stopOnFailure =>
                 \A t \in Target : failures[t] > 0 => received'[t] = received[t]
  BY DroppedStep
<1>. QED BY <1>1, <1>2, TypeCorrect, PTL DEF Spec, DroppedForGood

-----------------------------------------------------------------------------
(* Neither actor is left behind.                                           *)

\* A mux whose pump has made its last cast, or is gone, has in one of its ports what
\* ends it: a stop, a failure of the pump, the None or the marker of a drain.  A mux
\* that is gone has left no pump behind.  This is the safety half of MuxEnds.
EndIsUnderWay ==
    /\ Alive /\ pump # "Looping" =>
          \/ stopping
          \/ \E i \in 1 .. Len(sup) : sup[i] = "Failed"
          \/ \E i \in 1 .. Len(inbox) : inbox[i] \in {None, Drained}
    /\ ~Alive => pump = "Gone"

\* What is at the end of a port stays until it is taken.
LEMMA AppendKeeps ==
    ASSUME NEW S, NEW q \in Seq(S), NEW e \in S
    PROVE  /\ \A x : (\E i \in 1 .. Len(q) : q[i] = x)
                        => \E i \in 1 .. Len(Append(q, e)) : Append(q, e)[i] = x
           /\ \E i \in 1 .. Len(Append(q, e)) : Append(q, e)[i] = e
<1>1. /\ Len(q) \in Nat /\ Len(Append(q, e)) = Len(q) + 1 /\ Append(q, e)[Len(q) + 1] = e
      /\ \A i \in 1 .. Len(q) : Append(q, e)[i] = q[i]
  BY AppendProperties, LenProperties
<1>2. Len(q) + 1 \in 1 .. Len(Append(q, e)) /\ 1 .. Len(q) \subseteq 1 .. Len(Append(q, e))
  BY <1>1
<1>. QED BY <1>1, <1>2

LEMMA TailKeeps ==
    ASSUME NEW S, NEW q \in Seq(S), q # <<>>, NEW i \in 1 .. Len(q), q[i] # Head(q)
    PROVE  \E j \in 1 .. Len(Tail(q)) : Tail(q)[j] = q[i]
<1>1. /\ Len(q) \in Nat /\ Head(q) = q[1] /\ Len(Tail(q)) = Len(q) - 1
      /\ \A j \in 1 .. Len(Tail(q)) : Tail(q)[j] = q[j + 1]
  BY HeadTailProperties, LenProperties
<1>2. i # 1 /\ i \in Nat /\ i <= Len(q)
  BY <1>1
<1>3. i - 1 \in 1 .. Len(Tail(q)) /\ (i - 1) + 1 = i
  BY <1>1, <1>2
<1>. QED BY <1>1, <1>3

LEMMA PumpEndsUnderWay ==
    ASSUME StreamMuxAssumption, TypeOK, PumpInBounds, EndIsUnderWay,
           PumpWork \/ PumpExit \/ PumpPanic
    PROVE  EndIsUnderWay'
<1> USE DEF stateVars, configVars
<1>1. UNCHANGED <<mux, stopping>> /\ (Alive' <=> Alive)
  BY DEF PumpWork, PumpExit, PumpPanic, Alive
<1>2. CASE PumpEnds("Failed") /\ Alive
  <2>1. sup \in Seq({"Terminated", "Failed"}) /\ sup' = Append(sup, "Failed")
    BY <1>2 DEF PumpEnds, TypeOK
  <2>2. \E i \in 1 .. Len(sup') : sup'[i] = "Failed"
    BY <2>1, AppendKeeps
  <2>. QED BY <1>1, <1>2, <2>2 DEF EndIsUnderWay
<1>3. CASE pump = "Stopping" /\ PumpEnds("Terminated") /\ UNCHANGED inbox
  <2>1. sup \in Seq({"Terminated", "Failed"}) /\ pump' = "Gone"
    BY <1>3 DEF PumpEnds, TypeOK
  <2>2. CASE Alive
    <3>1. sup' = Append(sup, "Terminated")
      BY <1>3, <2>2 DEF PumpEnds
    <3>2. (\E i \in 1 .. Len(sup) : sup[i] = "Failed")
            => \E i \in 1 .. Len(sup') : sup'[i] = "Failed"
      BY <2>1, <3>1, AppendKeeps
    <3>. QED BY <1>1, <1>3, <2>2, <3>2 DEF EndIsUnderWay
  <2>3. CASE ~Alive
    BY <1>1, <2>1, <2>3 DEF EndIsUnderWay
  <2>. QED BY <2>2, <2>3
<1>4. CASE /\ mux \in {"Starting", "Running"} /\ inbox' = Append(inbox, Cast) /\ UNCHANGED sup
           /\ pump = "Looping" /\ pump' = IF Cast = None THEN "Stopping" ELSE "Looping"
  <2>1. Alive
    BY <1>4 DEF Alive
  <2>2. CASE Cast = None
    <3>1. inbox \in Seq(0 .. Length + 1) /\ None \in 0 .. Length + 1
      BY StreamMuxAssumption DEF TypeOK, None
    <3>2. \E i \in 1 .. Len(inbox') : inbox'[i] = None
      BY <1>4, <2>2, <3>1, AppendKeeps
    <3>. QED BY <1>1, <2>1, <3>2 DEF EndIsUnderWay
  <2>3. CASE Cast # None
    BY <1>1, <1>4, <2>1, <2>3 DEF EndIsUnderWay
  <2>. QED BY <2>2, <2>3
<1>5. CASE PumpWork
  BY <1>2, <1>4, <1>5 DEF PumpWork, Alive
<1>6. CASE PumpExit
  BY <1>3, <1>6 DEF PumpExit
<1>7. CASE PumpPanic
  BY <1>2, <1>7 DEF PumpPanic
<1>. QED BY <1>5, <1>6, <1>7

LEMMA EndIsUnderWayStep ==
    ASSUME StreamMuxAssumption, TypeOK, PumpInBounds, EndIsUnderWay, [Next]_vars
    PROVE  EndIsUnderWay'
<1> USE DEF pumpVars, portVars, stateVars, configVars
<1>1. ASSUME UNCHANGED <<pump, sup, inbox>>, Alive' <=> Alive, stopping => stopping'
      PROVE  EndIsUnderWay'
  BY <1>1 DEF EndIsUnderWay
<1>2. ASSUME NEW how \in {"Stopped", "Failed"}, Exit(how) PROVE EndIsUnderWay'
  BY <1>2 DEF Exit, EndIsUnderWay, Alive
<1>3. CASE Start \/ Stop \/ UNCHANGED vars
  BY <1>1, <1>3 DEF Start, Stop, vars, Alive
<1>4. CASE Drain
  <2>1. inbox \in Seq(0 .. Length + 1) /\ Drained \in 0 .. Length + 1
    BY StreamMuxAssumption DEF TypeOK, Drained
  <2>2. \E i \in 1 .. Len(inbox') : inbox'[i] = Drained
    BY <1>4, <2>1, AppendKeeps DEF Drain
  <2>3. Alive'
    BY <1>4 DEF Drain, Alive
  <2>. QED BY <2>2, <2>3 DEF EndIsUnderWay
<1>5. CASE StopHandled \/ DrainHandled
  BY <1>2, <1>5 DEF StopHandled, DrainHandled
<1>6. CASE HandleSupervisorEvt
  <2>1. CASE ~Bubbled(Head(sup)) /\ sup' = Tail(sup)
             /\ UNCHANGED <<pumpVars, mux, stopping, inbox, stateVars>>
    <3>1. sup \in Seq({"Terminated", "Failed"}) /\ sup # <<>> /\ Head(sup) # "Failed"
      BY <1>6, <2>1 DEF HandleSupervisorEvt, Bubbled, TypeOK
    <3>2. (\E i \in 1 .. Len(sup) : sup[i] = "Failed")
            => \E i \in 1 .. Len(sup') : sup'[i] = "Failed"
      BY <2>1, <3>1, TailKeeps
    <3>3. Alive' <=> Alive
      BY <2>1 DEF Alive
    <3>. QED BY <2>1, <3>2, <3>3 DEF EndIsUnderWay
  <2>. QED BY <1>2, <1>6, <2>1 DEF HandleSupervisorEvt
<1>7. CASE EndOfStream
  <2>1. stopping' /\ Alive /\ Alive'
    BY <1>7 DEF EndOfStream, Halt, Receive, Serving, Alive
  <2>. QED BY <2>1 DEF EndIsUnderWay
<1>8. ASSUME NEW bad \in SUBSET (targets \cap Failing), ItemReceived(bad) PROVE EndIsUnderWay'
  <2>1. /\ Receive /\ Head(inbox) \in 1 .. Length /\ UNCHANGED <<pump, mux, sup>>
        /\ Alive /\ Alive'
    BY <1>8 DEF ItemReceived, Receive, Serving, Alive
  <2>2. stopping => stopping'
    BY <2>1 DEF Receive, Serving
  <2>3. inbox \in Seq(0 .. Length + 1) /\ inbox # <<>> /\ inbox' = Tail(inbox)
    BY <2>1 DEF Receive, TypeOK
  <2>4. ASSUME NEW i \in 1 .. Len(inbox), inbox[i] \in {None, Drained}
        PROVE  \E j \in 1 .. Len(inbox') : inbox'[j] \in {None, Drained}
    <3>1. inbox[i] # Head(inbox)
      BY <2>1, <2>4, StreamMuxAssumption DEF None, Drained
    <3>. QED BY <2>3, <2>4, <3>1, TailKeeps
  <2>. QED BY <2>1, <2>2, <2>4 DEF EndIsUnderWay
<1>. QED BY <1>3, <1>4, <1>5, <1>6, <1>7, <1>8, PumpEndsUnderWay DEF Next, MuxLoop

\* The mux is never left waiting for a pump that will not cast again, and no pump
\* outlives its mux (mux/mod.rs handle_supervisor_evt, pre_start).
THEOREM NobodyIsLeft == Spec => []EndIsUnderWay
<1>1. Init => TypeOK /\ PumpInBounds /\ EndIsUnderWay
  BY InitTypeOK, StreamMuxAssumption DEF Init, EndIsUnderWay, Alive
<1>2. TypeOK /\ PumpInBounds /\ EndIsUnderWay /\ [Next]_vars
        => TypeOK' /\ PumpInBounds' /\ EndIsUnderWay'
  BY TypeStep, EndIsUnderWayStep, StreamMuxAssumption
<1>. QED BY <1>1, <1>2, PTL DEF Spec
=============================================================================
