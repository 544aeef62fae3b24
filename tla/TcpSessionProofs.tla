--------------------------- MODULE TcpSessionProofs ---------------------------
(***************************************************************************)
(* Proofs about TcpSession: whatever is stopped, killed, reset or fails,   *)
(* what a FrameReceiver is given is a prefix of what the other owner sent, *)
(* for any number of frames, any of them empty, and a wire of any length.  *)
(***************************************************************************)
EXTENDS TcpSession, SequenceTheorems, TLAPS

(***************************************************************************)
(* The invariant follows a frame from owner to owner: Sends in the inbox,  *)
(* the outbox, the two parts on the wire, the message of the reader,       *)
(* FrameReady in the other inbox.                                          *)
(***************************************************************************)

\* The messages of one type in q are the frames from m to k, in order.
Run(q, type, m, k) ==
    /\ \A i \in 1 .. Len(q) : q[i].type = type => q[i].frame \in m .. k
    /\ \A i, j \in 1 .. Len(q) :
        i < j /\ q[i].type = type /\ q[j].type = type => q[i].frame < q[j].frame
    /\ \A f \in m .. k : \E i \in 1 .. Len(q) : q[i] = [type |-> type, frame |-> f]

\* The part that follows a part in the byte stream.
After(t) ==
    IF t.part = "Length" /\ t.frame \notin Empty
    THEN Bytes("Payload", t.frame) ELSE Bytes("Length", t.frame + 1)

\* The part a reader at r waits for, and the part a writer at frame n writes next.
Due(r) == IF reading[r] = 0 THEN Bytes("Length", read[r] + 1)
                            ELSE After(Bytes("Length", reading[r]))
ToWrite(s, n) == IF written[s] THEN After(Bytes("Length", n)) ELSE Bytes("Length", n)

Reads(r) == reader[r] # "Gone"

\* The outbox begins with frame n, and the inbox goes on where the outbox ends.
Queued(s, n) ==
    /\ n \in Nat \ {0} /\ n + Len(outbox[s]) <= sent[s] + 1
    /\ \A i \in 1 .. Len(outbox[s]) : outbox[s][i] = n + i - 1
    /\ Run(inbox[s], "Send", n + Len(outbox[s]), sent[s])

\* What a writer writes next follows what is on the wire, or is what the reader wants.
Fits(s, n) ==
    reset[s] = "No" =>
        IF wire[s] # <<>> THEN ToWrite(s, n) = After(wire[s][Len(wire[s])])
        ELSE Reads(Peer(s)) => ToWrite(s, n) = Due(Peer(s))

Writing(s) == writer[s] # "Gone" => \E n \in Nat \ {0} : Queued(s, n) /\ Fits(s, n)

\* The wire is a stretch of the byte stream, from the part that the reader wants.
Stretch(s) ==
    /\ \A i \in 1 .. Len(wire[s]) : wire[s][i].frame \in 1 .. sent[s]
    /\ \A i \in 1 .. Len(wire[s]) - 1 : wire[s][i + 1] = After(wire[s][i])
    /\ wire[s] # <<>> /\ Reads(Peer(s)) => wire[s][1] = Due(Peer(s))

Reading(s) ==
    /\ reading[s] \in {0, read[s] + 1} /\ reading[s] <= sent[Peer(s)]
    /\ read[s] <= sent[Peer(s)]

Delivering(s) ==
    /\ received[s] = [i \in 1 .. Len(received[s]) |-> i]
    /\ Len(received[s]) <= read[s]
    /\ session[s] # "Down" => Run(inbox[s], "FrameReady", Len(received[s]) + 1, read[s])

\* Only a side with both halves closed resets the other one.
ResetByClosed(s) == reset[s] # "No" => Closed(Peer(s))

\* A payload still to be written is that of the first frame in the outbox.
HasHead(s) == writer[s] # "Gone" /\ written[s] => outbox[s] # <<>>

Typed == TypeOK /\ \A s \in Side : HasHead(s)

Flow(s) == Writing(s) /\ Stretch(s) /\ Reading(s) /\ Delivering(s) /\ ResetByClosed(s)

StreamInv == Typed /\ \A s \in Side : Flow(s)

-----------------------------------------------------------------------------
(* The two sides, and the messages of an inbox.                            *)

LEMMA PeerIsOther ==
    ASSUME TcpSessionAssumption, NEW s \in Side
    PROVE  /\ Peer(s) \in Side /\ Peer(s) # s /\ Peer(Peer(s)) = s
           /\ \A t \in Side : t # s => t = Peer(s)
BY DEF TcpSessionAssumption, Peer

LEMMA RunAppended ==
    ASSUME NEW q \in Seq(Message), NEW type, NEW m \in Nat, NEW k \in Nat, m <= k + 1,
           Run(q, type, m, k), [type |-> type, frame |-> k + 1] \in Message
    PROVE  Run(Append(q, [type |-> type, frame |-> k + 1]), type, m, k + 1)
<1> DEFINE msg == [type |-> type, frame |-> k + 1]
           p == Append(q, msg)
<1>1. /\ Len(p) = Len(q) + 1 /\ Len(q) \in Nat /\ p[Len(q) + 1] = msg
      /\ \A i \in 1 .. Len(q) : p[i] = q[i]
  BY AppendProperties, LenProperties
<1> HIDE DEF p
<1>2. \A i \in 1 .. Len(p) : p[i].type = type => p[i].frame \in m .. k + 1
  BY <1>1 DEF Run
<1>3. ASSUME NEW i \in 1 .. Len(p), NEW j \in 1 .. Len(p),
             i < j, p[i].type = type, p[j].type = type
      PROVE  p[i].frame < p[j].frame
  <2>1. i \in 1 .. Len(q) /\ p[i] = q[i] /\ p[i].frame \in m .. k
    BY <1>1, <1>3 DEF Run
  <2>2. CASE j = Len(q) + 1
    BY <1>1, <2>1, <2>2
  <2>3. CASE j \in 1 .. Len(q)
    BY <1>1, <1>3, <2>1, <2>3 DEF Run
  <2>. QED BY <1>1, <2>2, <2>3
<1>4. ASSUME NEW f \in m .. k + 1
      PROVE  \E i \in 1 .. Len(p) : p[i] = [type |-> type, frame |-> f]
  <2>1. CASE f = k + 1
    BY <1>1, <2>1
  <2>2. CASE f \in m .. k
    BY <1>1, <2>2 DEF Run
  <2>. QED BY <2>1, <2>2
<1>5. Run(p, type, m, k + 1)
  BY <1>2, <1>3, <1>4 DEF Run
<1>. QED BY <1>5 DEF p

LEMMA RunPassed ==
    ASSUME NEW q \in Seq(Message), NEW type, NEW m, NEW k,
           NEW msg \in Message, msg.type # type, Run(q, type, m, k)
    PROVE  Run(Append(q, msg), type, m, k)
<1> DEFINE p == Append(q, msg)
<1>1. /\ Len(p) = Len(q) + 1 /\ Len(q) \in Nat /\ p[Len(q) + 1] = msg
      /\ \A i \in 1 .. Len(q) : p[i] = q[i]
  BY AppendProperties, LenProperties
<1> HIDE DEF p
<1>2. Run(p, type, m, k)
  BY <1>1 DEF Run
<1>. QED BY <1>2 DEF p

LEMMA RunTaken ==
    ASSUME NEW q \in Seq(Message), q # <<>>, NEW type, NEW m \in Nat, NEW k \in Nat, m <= k + 1,
           Run(q, type, m, k), Head(q).type = type
    PROVE  Head(q).frame = m /\ m <= k /\ Run(Tail(q), type, m + 1, k)
<1>1. /\ Len(q) \in Nat \ {0} /\ Head(q) = q[1] /\ Len(Tail(q)) = Len(q) - 1
      /\ \A i \in 1 .. Len(Tail(q)) : Tail(q)[i] = q[i + 1]
  BY HeadTailProperties, EmptySeq
<1>2. q[1].frame \in m .. k
  BY <1>1 DEF Run
<1>3. PICK i \in 1 .. Len(q) : q[i] = [type |-> type, frame |-> m]
  BY <1>2 DEF Run
<1>4. i = 1
  BY <1>1, <1>2, <1>3 DEF Run
<1>5. \A h, j \in 1 .. Len(Tail(q)) :
        /\ q[h + 1].type = type => q[h + 1].frame \in m + 1 .. k
        /\ h < j /\ q[h + 1].type = type /\ q[j + 1].type = type
                => q[h + 1].frame < q[j + 1].frame
  <2> SUFFICES ASSUME NEW h \in 1 .. Len(Tail(q)), NEW j \in 1 .. Len(Tail(q))
               PROVE  /\ q[h + 1].type = type => q[h + 1].frame \in m + 1 .. k
                      /\ h < j /\ q[h + 1].type = type /\ q[j + 1].type = type
                            => q[h + 1].frame < q[j + 1].frame
    OBVIOUS
  <2>1. h + 1 \in 1 .. Len(q) /\ j + 1 \in 1 .. Len(q) /\ 1 < h + 1 /\ 1 \in 1 .. Len(q)
    BY <1>1
  <2>2. q[h + 1].type = type => q[1].frame < q[h + 1].frame /\ q[h + 1].frame \in m .. k
    BY <1>1, <2>1 DEF Run
  <2>3. h < j /\ q[h + 1].type = type /\ q[j + 1].type = type => q[h + 1].frame < q[j + 1].frame
    BY <2>1 DEF Run
  <2>. QED BY <1>3, <1>4, <2>2, <2>3
<1>6. ASSUME NEW f \in m + 1 .. k
      PROVE  \E j \in 1 .. Len(Tail(q)) : Tail(q)[j] = [type |-> type, frame |-> f]
  <2>1. PICK j \in 1 .. Len(q) : q[j] = [type |-> type, frame |-> f]
    BY DEF Run
  <2>2. j # 1
    BY <1>3, <1>4, <2>1
  <2>3. j - 1 \in 1 .. Len(Tail(q)) /\ Tail(q)[j - 1] = q[j]
    BY <1>1, <2>2
  <2>. QED BY <2>1, <2>3
<1>. QED BY <1>1, <1>3, <1>4, <1>5, <1>6 DEF Run

LEMMA RunSkipped ==
    ASSUME NEW q \in Seq(Message), q # <<>>, NEW type, NEW m, NEW k,
           Run(q, type, m, k), Head(q).type # type
    PROVE  Run(Tail(q), type, m, k)
<1>1. /\ Len(q) \in Nat \ {0} /\ Head(q) = q[1] /\ Len(Tail(q)) = Len(q) - 1
      /\ \A i \in 1 .. Len(Tail(q)) : Tail(q)[i] = q[i + 1]
  BY HeadTailProperties, EmptySeq
<1>2. \A i \in 1 .. Len(Tail(q)) : i + 1 \in 1 .. Len(q) /\ Tail(q)[i] = q[i + 1]
  BY <1>1
<1>3. ASSUME NEW f \in m .. k
      PROVE  \E j \in 1 .. Len(Tail(q)) : Tail(q)[j] = [type |-> type, frame |-> f]
  <2>1. PICK j \in 1 .. Len(q) : q[j] = [type |-> type, frame |-> f]
    BY DEF Run
  <2>2. j # 1
    BY <1>1, <2>1
  <2>3. j - 1 \in 1 .. Len(Tail(q)) /\ Tail(q)[j - 1] = q[j]
    BY <1>1, <2>2
  <2>. QED BY <2>1, <2>3
<1>. QED BY <1>2, <1>3 DEF Run

-----------------------------------------------------------------------------
(* Types.                                                                  *)

LEMMA MessageTypes ==
    /\ \A n \in Nat : [type |-> "Send", frame |-> n] \in Message
    /\ \A n \in Nat : [type |-> "FrameReady", frame |-> n] \in Message
    /\ \A n \in Nat : Bytes("Length", n) \in Token /\ Bytes("Payload", n) \in Token
    /\ \A m \in Message : m.frame \in Nat
    /\ \A t \in Token : t.frame \in Nat
    /\ \A S : <<>> \in Seq(S)
BY EmptySeq DEF Message, Token, Bytes

LEMMA InitTyped == ASSUME TcpSessionAssumption, Init PROVE Typed
BY MessageTypes, EmptySeq DEF TcpSessionAssumption, Init, Typed, TypeOK, HasHead, ChildState

LEMMA SideTypes ==
    ASSUME TypeOK, NEW s \in Side
    PROVE  /\ session[s] \in {"Running", "Stopping", "Down"}
           /\ inbox[s] \in Seq(Message) /\ outbox[s] \in Seq(Nat) /\ received[s] \in Seq(Nat)
           /\ writer[s] \in ChildState /\ reader[s] \in ChildState
           /\ reading[s] \in Nat /\ sent[s] \in Nat /\ read[s] \in Nat
           /\ wire[s] \in Seq(Token) /\ Len(wire[s]) <= Capacity
           /\ reset[s] \in {"No", "Fresh", "Seen"}
BY Zenon DEF TypeOK

LEMMA WireTypes ==
    ASSUME TypeOK, NEW s \in Side, NEW w \in Seq(Token), Len(w) <= Capacity,
           UNCHANGED wire \/ wire' = [wire EXCEPT ![s] = w]
    PROVE  wire' \in [Side -> Seq(Token)] /\ \A t \in Side : Len(wire'[t]) <= Capacity
<1>1. wire \in [Side -> Seq(Token)] /\ \A t \in Side : Len(wire[t]) <= Capacity
  BY Zenon DEF TypeOK
<1>2. wire' \in [Side -> Seq(Token)]
  BY <1>1, Zenon
<1>3. \A t \in Side : wire'[t] = w \/ wire'[t] = wire[t]
  BY <1>1, Zenon
<1>. QED BY <1>1, <1>2, <1>3, Zenon

LEMMA SessionTyped ==
    ASSUME TcpSessionAssumption, Typed, NEW s \in Side,
           CastSend(s) \/ StopSession(s) \/ SessionLoop(s)
    PROVE  Typed'
<1> USE DEF Typed, HasHead, runVars, sessionVars, writerVars, readerVars, Set
<1>1. CASE CastSend(s)
  <2>1. sent[s] + 1 \in Nat /\ inbox[s] \in Seq(Message)
    <3>1. sent[s] \in Nat /\ inbox[s] \in Seq(Message)
      BY SideTypes, Zenon
    <3>. QED BY <3>1
  <2>2. Append(inbox[s], [type |-> "Send", frame |-> sent[s] + 1]) \in Seq(Message)
    BY <2>1, MessageTypes, AppendProperties
  <2>. QED BY <1>1, <2>1, <2>2 DEF CastSend, TypeOK
<1>2. CASE StopSession(s)
  BY <1>2 DEF StopSession, TypeOK
<1>3. ASSUME Exit(s), received' = received PROVE Typed'
  BY <1>3, MessageTypes DEF Exit, ChildrenKilled, TypeOK, ChildState
<1>4. CASE HandleSupervisorEvt(s)
  BY <1>4 DEF HandleSupervisorEvt, Asked, TypeOK, ChildState
<1>5. CASE HandleSend(s)
  <2>1. /\ Head(inbox[s]) \in Message /\ Tail(inbox[s]) \in Seq(Message)
        /\ Head(inbox[s]).frame \in Nat /\ outbox[s] \in Seq(Nat)
    BY <1>5, HeadTailProperties, MessageTypes DEF HandleSend, Receive, TypeOK
  <2>2. /\ Append(outbox[s], Head(inbox[s]).frame) \in Seq(Nat)
        /\ Append(outbox[s], Head(inbox[s]).frame) # <<>>
    BY <2>1, AppendProperties
  <2>. QED BY <1>5, <2>1, <2>2 DEF HandleSend, TypeOK
<1>6. ASSUME Receive(s, "FrameReady"), Set(inbox, s, Tail(inbox[s])),
             Set(received, s, Append(received[s], Head(inbox[s]).frame)),
             UNCHANGED <<runVars, session, childExit, writerVars, readerVars, wire, reset, sent,
                         read>>
      PROVE  Typed'
  <2>1. /\ Head(inbox[s]) \in Message /\ Tail(inbox[s]) \in Seq(Message)
        /\ Head(inbox[s]).frame \in Nat /\ received[s] \in Seq(Nat)
    BY <1>6, HeadTailProperties, MessageTypes DEF Receive, TypeOK
  <2>2. Append(received[s], Head(inbox[s]).frame) \in Seq(Nat)
    BY <2>1, AppendProperties
  <2>. QED BY <1>6, <2>1, <2>2 DEF TypeOK
<1>. QED BY <1>1, <1>2, <1>3, <1>4, <1>5, <1>6 DEF SessionLoop, StopHandled, HandleFrameReady

LEMMA WriterTyped ==
    ASSUME TcpSessionAssumption, Typed, NEW s \in Side, WriterLoop(s) PROVE Typed'
<1> USE DEF Typed, HasHead, runVars, sessionVars, writerVars, readerVars, Set
<1>1. ASSUME WriterExit(s) PROVE Typed'
  BY <1>1, MessageTypes DEF WriterExit, TypeOK, ChildState
<1>2. ASSUME outbox[s] # <<>>
      PROVE  /\ Head(outbox[s]) \in Nat /\ Tail(outbox[s]) \in Seq(Nat)
             /\ \A part \in {"Length", "Payload"} : Room(s) =>
                    LET w == Append(wire[s], Bytes(part, Head(outbox[s])))
                    IN  w \in Seq(Token) /\ Len(w) <= Capacity
  <2>1. Head(outbox[s]) \in Nat /\ Tail(outbox[s]) \in Seq(Nat)
    BY <1>2, HeadTailProperties DEF TypeOK
  <2>2. wire[s] \in Seq(Token)
    BY DEF TypeOK
  <2>3. ASSUME NEW part \in {"Length", "Payload"}, Room(s)
        PROVE  LET w == Append(wire[s], Bytes(part, Head(outbox[s])))
               IN  w \in Seq(Token) /\ Len(w) <= Capacity
    <3>1. Bytes(part, Head(outbox[s])) \in Token
      BY <2>1, MessageTypes
    <3>2. Len(wire[s]) \in Nat /\ Len(wire[s]) + 1 <= Capacity
      BY <2>2, <2>3, LenProperties DEF Room, TcpSessionAssumption
    <3>. QED BY <2>2, <3>1, <3>2, AppendProperties
  <2>. QED BY <2>1, <2>3
<1>3. CASE WriteLength(s)
  <2>1. outbox[s] # <<>>
    BY <1>3 DEF WriteLength
  <2>2. wire' \in [Side -> Seq(Token)] /\ \A t \in Side : Len(wire'[t]) <= Capacity
    <3>1. CASE Room(s) /\ Put(s, "Length")
      BY <1>2, <2>1, <3>1, WireTypes DEF Put
    <3>2. CASE UNCHANGED wire
      BY <3>2, Zenon DEF TypeOK
    <3>. QED BY <1>3, <3>1, <3>2 DEF WriteLength
  <2>3. outbox' \in [Side -> Seq(Nat)]
    <3>1. outbox \in [Side -> Seq(Nat)] /\ outbox[s] \in Seq(Nat)
      BY Zenon DEF TypeOK
    <3>2. Tail(outbox[s]) \in Seq(Nat)
      BY <2>1, <3>1, HeadTailProperties
    <3>3. outbox' = outbox \/ outbox' = [outbox EXCEPT ![s] = Tail(outbox[s])]
      BY <1>3, Zenon DEF WriteLength
    <3>. QED BY <3>1, <3>2, <3>3, Zenon
  <2>5. written' \in [Side -> BOOLEAN]
    BY <1>3, Zenon DEF WriteLength, TypeOK
  <2>4. \A t \in Side : HasHead(t)'
    <3>1. CASE UNCHANGED <<writer, outbox>> /\ written' = [written EXCEPT ![s] = TRUE]
      <4>1. \A t \in Side : written'[t] = written[t] \/ t = s
        BY <3>1, Zenon DEF TypeOK
      <4>. QED BY <2>1, <3>1, <4>1
    <3>2. CASE UNCHANGED <<writer, written>> /\ outbox' = [outbox EXCEPT ![s] = Tail(outbox[s])]
      <4>1. ~written[s] /\ outbox \in [Side -> Seq(Nat)] /\ \A t \in Side : HasHead(t)
        BY <1>3, Zenon DEF WriteLength, TypeOK
      <4>2. \A t \in Side \ {s} : outbox'[t] = outbox[t]
        BY <3>2, <4>1
      <4>. QED BY <3>2, <4>1, <4>2
    <3>. QED BY <1>3, <3>1, <3>2 DEF WriteLength
  <2>. QED BY <1>3, <2>2, <2>3, <2>4, <2>5, Zenon DEF WriteLength, TypeOK
<1>4. CASE WritePayload(s)
  <2>1. outbox[s] # <<>>
    BY <1>4 DEF WritePayload
  <2>2. wire' \in [Side -> Seq(Token)] /\ \A t \in Side : Len(wire'[t]) <= Capacity
    <3>1. CASE Room(s) /\ Put(s, "Payload")
      BY <1>2, <2>1, <3>1, WireTypes DEF Put
    <3>2. CASE UNCHANGED wire
      BY <3>2, Zenon DEF TypeOK
    <3>. QED BY <1>4, <3>1, <3>2 DEF WritePayload
  <2>3. writer' \in [Side -> ChildState]
    BY <1>4 DEF WritePayload, TypeOK, ChildState
  <2>4. written' \in [Side -> BOOLEAN] /\ outbox' \in [Side -> Seq(Nat)]
    BY <1>2, <1>4, <2>1 DEF WritePayload, TypeOK
  <2>5. \A t \in Side : HasHead(t)'
    BY <1>4 DEF WritePayload, TypeOK
  <2>. QED BY <1>4, <2>2, <2>3, <2>4, <2>5, Zenon DEF WritePayload, TypeOK
<1>. QED BY <1>1, <1>3, <1>4 DEF WriterLoop, WriterStops, WriterFails

LEMMA ReaderTyped ==
    ASSUME TcpSessionAssumption, Typed, NEW s \in Side, ReaderLoop(s) PROVE Typed'
<1> USE DEF Typed, HasHead, runVars, sessionVars, writerVars, readerVars, Set, Then
<1>0. CASE ReaderStops(s)
  <2>1. reader' \in [Side -> ChildState]
    BY <1>0 DEF ReaderStops, TypeOK, ChildState
  <2>. QED BY <1>0, <2>1, Zenon DEF ReaderStops, TypeOK
<1>1. CASE Begin(s)
  BY <1>1, Zenon DEF Begin, TypeOK
<1>2. ASSUME Incoming(s) # <<>>
      PROVE  /\ Head(Incoming(s)) \in Token /\ Head(Incoming(s)).frame \in Nat
             /\ Tail(Incoming(s)) \in Seq(Token) /\ Len(Tail(Incoming(s))) <= Capacity
  <2>1. Incoming(s) \in Seq(Token) /\ Len(Incoming(s)) <= Capacity
    BY PeerIsOther DEF Incoming, TypeOK
  <2>2. Len(Tail(Incoming(s))) = Len(Incoming(s)) - 1 /\ Len(Incoming(s)) \in Nat
    BY <1>2, <2>1, HeadTailProperties, LenProperties
  <2>. QED BY <1>2, <2>1, <2>2, HeadTailProperties, MessageTypes DEF TcpSessionAssumption
<1>3. CASE ReadLength(s)
  <2>1. /\ wire' = [wire EXCEPT ![Peer(s)] = Tail(Incoming(s))] /\ Incoming(s) # <<>>
        /\ reading' = [reading EXCEPT ![s] = Head(Incoming(s)).frame]
        /\ busy' = [busy EXCEPT ![s] = FALSE]
    BY <1>3, Zenon DEF ReadLength, Consume
  <2>2. wire' \in [Side -> Seq(Token)] /\ \A t \in Side : Len(wire'[t]) <= Capacity
    BY <1>2, <2>1, PeerIsOther, WireTypes
  <2>3. reading' \in [Side -> Nat] /\ busy' \in [Side -> BOOLEAN]
    BY <1>2, <2>1, Zenon DEF TypeOK
  <2>. QED BY <1>3, <2>2, <2>3, Zenon DEF ReadLength, TypeOK
<1>4. CASE ReadPayload(s)
  <2>1. FrameRead(s) \in Nat /\ inbox[s] \in Seq(Message) /\ read[s] + 1 \in Nat
    <3>1. reading[s] \in Nat /\ read[s] \in Nat /\ inbox[s] \in Seq(Message)
      BY SideTypes, Zenon
    <3>. QED BY <3>1 DEF FrameRead
  <2>2. Append(inbox[s], [type |-> "FrameReady", frame |-> FrameRead(s)]) \in Seq(Message)
    BY <2>1, MessageTypes, AppendProperties
  <2>3. wire' \in [Side -> Seq(Token)] /\ \A t \in Side : Len(wire'[t]) <= Capacity
    <3>1. CASE Incoming(s) # <<>> /\ Consume(s)
      BY <1>2, <3>1, PeerIsOther, WireTypes DEF Consume
    <3>2. CASE UNCHANGED wire
      BY <3>2, Zenon DEF TypeOK
    <3>. QED BY <1>4, <3>1, <3>2 DEF ReadPayload
  <2>4. /\ inbox' \in [Side -> Seq(Message)] /\ read' \in [Side -> Nat]
        /\ reading' \in [Side -> Nat] /\ busy' \in [Side -> BOOLEAN]
    BY <1>4, <2>1, <2>2 DEF ReadPayload, NextMessage, TypeOK
  <2>. QED BY <1>4, <2>3, <2>4, Zenon DEF ReadPayload, TypeOK
<1>5. ASSUME Then(s, 0)
      PROVE  reading' \in [Side -> Nat] /\ busy' \in [Side -> BOOLEAN]
  <2>1. reading' \in [Side -> Nat]
    BY <1>5 DEF TypeOK
  <2>. QED BY <1>5, <2>1, Zenon DEF TypeOK
<1>6. CASE ReadEof(s)
  <2>1. reader' \in [Side -> ChildState]
    BY <1>6 DEF ReadEof, StopAtEof, TypeOK, ChildState
  <2>. QED BY <1>5, <1>6, <2>1, Zenon DEF ReadEof, TypeOK
<1>7. CASE ReadError(s)
  <2>1. reset' \in [Side -> {"No", "Fresh", "Seen"}]
    BY <1>7 DEF ReadError, TypeOK
  <2>. QED BY <1>5, <1>7, <2>1, Zenon DEF ReadError, NextMessage, TypeOK
<1>. QED BY <1>0, <1>1, <1>3, <1>4, <1>6, <1>7 DEF ReaderLoop

LEMMA CutTypes ==
    ASSUME NEW w \in Seq(Token), NEW n \in 0 .. Len(w)
    PROVE  /\ SubSeq(w, 1, n) \in Seq(Token) /\ Len(SubSeq(w, 1, n)) = n
           /\ \A i \in 1 .. n : SubSeq(w, 1, n)[i] = w[i]
<1>1. Len(w) \in Nat /\ \A i \in 1 .. n : w[i] \in Token
  BY LenProperties, ElementOfSeq
<1>. QED BY <1>1, SubSeqProperties

LEMMA ResetTyped ==
    ASSUME TcpSessionAssumption, Typed, NEW s \in Side, Reset(s) PROVE Typed'
<1> USE DEF Typed, HasHead, runVars, sessionVars, writerVars, readerVars, Set
<1>1. PICK n \in 0 .. Len(wire[s]) :
        wire' = [wire EXCEPT ![s] = SubSeq(@, 1, n), ![Peer(s)] = <<>>]
  BY DEF Reset
<1>2. /\ SubSeq(wire[s], 1, n) \in Seq(Token) /\ Len(SubSeq(wire[s], 1, n)) <= Capacity
      /\ <<>> \in Seq(Token) /\ Len(<<>>) <= Capacity
  <2>1. wire[s] \in Seq(Token) /\ Len(wire[s]) <= Capacity /\ Len(wire[s]) \in Nat
    BY LenProperties DEF TypeOK
  <2>. QED BY <2>1, CutTypes, EmptySeq DEF TcpSessionAssumption
<1>3. wire' \in [Side -> Seq(Token)] /\ \A t \in Side : Len(wire'[t]) <= Capacity
  <2>1. wire \in [Side -> Seq(Token)] /\ \A t \in Side : Len(wire[t]) <= Capacity
    BY Zenon DEF TypeOK
  <2>2. wire' \in [Side -> Seq(Token)]
    BY <1>1, <1>2, <2>1, Zenon
  <2>3. \A t \in Side : wire'[t] \in {wire[t], SubSeq(wire[s], 1, n), <<>>}
    BY <1>1, <2>1, Zenon
  <2>. QED BY <1>2, <2>1, <2>2, <2>3, Zenon
<1>4. reset' \in [Side -> {"No", "Fresh", "Seen"}]
  BY Zenon DEF Reset, TypeOK
<1>. QED BY <1>3, <1>4, Zenon DEF Reset, TypeOK

LEMMA TypedStep == ASSUME TcpSessionAssumption, Typed, [Next]_vars PROVE Typed'
<1>1. CASE UNCHANGED vars
  BY <1>1 DEF vars, runVars, sessionVars, writerVars, readerVars, Typed, HasHead, TypeOK
<1>. QED BY <1>1, SessionTyped, WriterTyped, ReaderTyped, ResetTyped DEF Next

\* The types.
THEOREM TypeCorrect == Spec => []TypeOK
<1>1. Init => Typed
  BY InitTyped, TcpSessionAssumption
<1>2. Typed /\ [Next]_vars => Typed'
  BY TypedStep, TcpSessionAssumption
<1>3. Typed => TypeOK
  BY DEF Typed
<1>. QED BY <1>1, <1>2, <1>3, PTL DEF Spec

-----------------------------------------------------------------------------
(* Frames from owner to owner.                                             *)

LEMMA InitFlow == ASSUME TcpSessionAssumption, Init PROVE \A s \in Side : Flow(s)
<1> SUFFICES ASSUME NEW s \in Side PROVE Flow(s)
  OBVIOUS
<1>1. Peer(s) \in Side
  BY PeerIsOther
<1>2. /\ inbox[s] = <<>> /\ outbox[s] = <<>> /\ wire[s] = <<>> /\ received[s] = <<>>
      /\ sent[s] = 0 /\ sent[Peer(s)] = 0 /\ read[s] = 0 /\ read[Peer(s)] = 0
      /\ reading[s] = 0 /\ reading[Peer(s)] = 0 /\ ~written[s] /\ reset[s] = "No"
      /\ Len(<<>>) = 0
  BY <1>1, EmptySeq DEF Init
<1>3. Run(<<>>, "Send", 1, 0) /\ Run(<<>>, "FrameReady", 1, 0)
  BY <1>2 DEF Run
<1>4. Queued(s, 1) /\ Fits(s, 1)
  BY <1>1, <1>2, <1>3 DEF Queued, Fits, ToWrite, Due
<1>5. Writing(s)
  BY <1>4 DEF Writing
<1>6. received[s] = [i \in 1 .. Len(received[s]) |-> i]
  BY <1>2, SeqEqual, EmptySeq
<1>. QED BY <1>2, <1>3, <1>5, <1>6 DEF Flow, Stretch, Reading, Delivering, ResetByClosed

\* What does not touch a direction leaves its flow as it was.
LEMMA WritingKept ==
    ASSUME NEW s \in Side, Writing(s),
           inbox'[s] = inbox[s], outbox'[s] = outbox[s], sent'[s] = sent[s],
           written'[s] = written[s], writer'[s] = "Gone" \/ writer[s] # "Gone",
           wire'[s] = wire[s], reset'[s] = reset[s],
           \/ ~Reads(Peer(s))'
           \/ Reads(Peer(s)) /\ Due(Peer(s))' = Due(Peer(s))
    PROVE  Writing(s)'
BY DEF Writing, Queued, Fits, ToWrite, After

LEMMA StretchKept ==
    ASSUME NEW s \in Side, Stretch(s), wire'[s] = wire[s], sent'[s] = sent[s],
           \/ ~Reads(Peer(s))'
           \/ Reads(Peer(s)) /\ Due(Peer(s))' = Due(Peer(s))
    PROVE  Stretch(s)'
BY DEF Stretch, After

LEMMA DeliveringKept ==
    ASSUME NEW s \in Side, Delivering(s), inbox'[s] = inbox[s], received'[s] = received[s],
           read'[s] = read[s], session'[s] = "Down" \/ session[s] # "Down"
    PROVE  Delivering(s)'
BY DEF Delivering

LEMMA SessionFlow ==
    ASSUME TcpSessionAssumption, StreamInv, NEW s \in Side,
           CastSend(s) \/ StopSession(s) \/ SessionLoop(s)
    PROVE  \A t \in Side : Flow(t)'
<1> DEFINE p == Peer(s)
<1> USE DEF runVars, sessionVars, writerVars, readerVars, Set
<1>1. p \in Side /\ p # s /\ Peer(s) = p /\ Peer(p) = s /\ \A t \in Side : t = s \/ t = p
  BY PeerIsOther
<1>2. TypeOK /\ Flow(s) /\ Flow(p)
  BY <1>1 DEF StreamInv, Typed
<1> HIDE DEF p
<1>3. CASE CastSend(s)
  <2>1. sent[s] \in Nat /\ inbox[s] \in Seq(Message) /\ sent'[s] = sent[s] + 1
    BY <1>2, <1>3, SideTypes DEF CastSend, TypeOK
  <2>2. /\ inbox'[s] = Append(inbox[s], [type |-> "Send", frame |-> sent[s] + 1])
        /\ [type |-> "Send", frame |-> sent[s] + 1] \in Message
        /\ \A t \in Side : t # s => inbox'[t] = inbox[t] /\ sent'[t] = sent[t]
        /\ UNCHANGED <<session, childExit, writerVars, readerVars, wire, reset, read, received>>
    <3>1. [type |-> "Send", frame |-> sent[s] + 1] \in Message
      BY <2>1, MessageTypes
    <3>2. /\ inbox'[s] = Append(inbox[s], [type |-> "Send", frame |-> sent[s] + 1])
          /\ \A t \in Side : t # s => inbox'[t] = inbox[t] /\ sent'[t] = sent[t]
      BY <1>2, <1>3 DEF CastSend, TypeOK
    <3>. QED BY <1>3, <3>1, <3>2 DEF CastSend
  <2>3. Writing(s)'
    <3>1. SUFFICES ASSUME writer[s] # "Gone"
                   PROVE  \E n \in Nat \ {0} : Queued(s, n)' /\ Fits(s, n)'
      BY <2>2 DEF Writing
    <3>2. PICK n \in Nat \ {0} : Queued(s, n) /\ Fits(s, n)
      BY <1>2, <3>1 DEF Flow, Writing
    <3>3. Len(outbox[s]) \in Nat
      BY <1>2, SideTypes, LenProperties
    <3>4. Run(inbox'[s], "Send", n + Len(outbox[s]), sent[s] + 1)
      BY <2>1, <2>2, <3>2, <3>3, RunAppended DEF Queued
    <3>5. Queued(s, n)'
      BY <2>1, <2>2, <3>2, <3>3, <3>4 DEF Queued
    <3>6. Fits(s, n)'
      BY <2>2, <3>2 DEF Fits, ToWrite, Due, Reads
    <3>. QED BY <3>5, <3>6
  <2>4. Delivering(s)'
    <3>1. session[s] # "Down" => Run(inbox'[s], "FrameReady", Len(received[s]) + 1, read[s])
      BY <1>2, <2>1, <2>2, RunPassed DEF Flow, Delivering
    <3>. QED BY <1>2, <2>2, <3>1 DEF Flow, Delivering
  <2>5. Stretch(s)'
    <3>1. Stretch(s) /\ sent[s] \in Nat /\ sent'[s] = sent[s] + 1 /\ wire'[s] = wire[s]
      BY <1>2, <2>1, <2>2 DEF Flow
    <3>2. Reads(Peer(s))' = Reads(Peer(s)) /\ Due(Peer(s))' = Due(Peer(s))
      BY <2>2 DEF Reads, Due, After
    <3>3. \A i \in 1 .. Len(wire[s]) : wire[s][i].frame \in 1 .. sent'[s]
      BY <3>1 DEF Stretch
    <3>. QED BY <3>1, <3>2, <3>3 DEF Stretch, After
  <2>6. Reading(s)' /\ Reading(p)'
    <3>1. /\ sent[s] \in Nat /\ reading[p] \in Nat /\ read[p] \in Nat
          /\ sent'[p] = sent[p] /\ UNCHANGED <<reading, read>>
      BY <1>1, <1>2, <2>2, SideTypes
    <3>. QED BY <1>1, <1>2, <2>1, <3>1 DEF Flow, Reading
  <2>7. Writing(p)' /\ Stretch(p)' /\ Delivering(p)'
    BY <1>1, <1>2, <2>2, WritingKept, StretchKept, DeliveringKept DEF Flow, Reads, Due
  <2>8. ResetByClosed(s)' /\ ResetByClosed(p)'
    BY <1>2, <2>2 DEF Flow, ResetByClosed, Closed
  <2>. QED BY <1>1, <2>3, <2>4, <2>5, <2>6, <2>7, <2>8 DEF Flow
<1>4. CASE StopSession(s) \/ HandleSupervisorEvt(s)
  <2>1. /\ UNCHANGED <<inbox, outbox, written, reading, busy, wire, reset, sent, read, received>>
        /\ \A t \in Side : /\ (session'[t] = "Down") = (session[t] = "Down")
                           /\ (writer'[t] = "Gone") = (writer[t] = "Gone")
                           /\ (reader'[t] = "Gone") = (reader[t] = "Gone")
    BY <1>2, <1>4 DEF StopSession, HandleSupervisorEvt, Asked, TypeOK
  <2>2. \A t \in Side : Peer(t) \in Side
    BY PeerIsOther
  <2>3. ASSUME NEW t \in Side PROVE Flow(t)'
    <3>1. Flow(t) /\ Peer(t) \in Side
      BY <2>2 DEF StreamInv
    <3>2. Writing(t)'
      BY <2>1, <3>1, WritingKept DEF Flow, Reads, Due
    <3>3. Stretch(t)' /\ Delivering(t)'
      BY <2>1, <3>1, StretchKept, DeliveringKept DEF Flow, Reads, Due
    <3>. QED BY <2>1, <3>1, <3>2, <3>3 DEF Flow, Reading, ResetByClosed, Closed
  <2>. QED BY <2>3
<1>5. ASSUME Exit(s), received' = received PROVE \A t \in Side : Flow(t)'
  <2>1. /\ session'[s] = "Down" /\ writer'[s] = "Gone" /\ reader'[s] = "Gone" /\ reading'[s] = 0
        /\ \A t \in Side \ {s} :
            /\ session'[t] = session[t] /\ writer'[t] = writer[t] /\ reader'[t] = reader[t]
            /\ inbox'[t] = inbox[t] /\ outbox'[t] = outbox[t] /\ written'[t] = written[t]
            /\ reading'[t] = reading[t]
        /\ UNCHANGED <<wire, reset, sent, read, received>>
    BY <1>2, <1>5 DEF Exit, ChildrenKilled, TypeOK
  <2>2. Writing(s)' /\ Delivering(s)'
    BY <1>2, <2>1 DEF Flow, Writing, Delivering
  <2>6. Reading(s)'
    <3>1. sent[p] \in Nat
      BY <1>1, <1>2, SideTypes
    <3>. QED BY <1>1, <1>2, <2>1, <3>1 DEF Flow, Reading
  <2>3. Stretch(s)' /\ Stretch(p)'
    <3>1. Stretch(p)'
      BY <1>1, <1>2, <2>1, StretchKept DEF Flow, Reads
    <3>2. Reads(p)' = Reads(p) /\ Due(p)' = Due(p)
      BY <1>1, <2>1 DEF Reads, Due, After
    <3>3. Stretch(s) /\ wire'[s] = wire[s] /\ sent'[s] = sent[s] /\ Peer(s) = p
      BY <1>1, <1>2, <2>1 DEF Flow
    <3>4. ~Reads(Peer(s))' \/ (Reads(Peer(s)) /\ Due(Peer(s))' = Due(Peer(s)))
      BY <3>2, <3>3
    <3>. QED BY <3>1, <3>3, <3>4, StretchKept
  <2>4. Writing(p)' /\ Delivering(p)' /\ Reading(p)'
    BY <1>1, <1>2, <2>1, WritingKept, DeliveringKept DEF Flow, Reads, Reading
  <2>5. ResetByClosed(s)' /\ ResetByClosed(p)'
    BY <1>1, <1>2, <2>1 DEF Flow, ResetByClosed, Closed, p
  <2>. QED BY <1>1, <2>2, <2>3, <2>4, <2>5, <2>6 DEF Flow
<1>6. CASE HandleSend(s)
  <2>1. /\ inbox[s] \in Seq(Message) /\ inbox[s] # <<>> /\ Head(inbox[s]).type = "Send"
        /\ inbox'[s] = Tail(inbox[s])
        /\ outbox'[s] = IF writer[s] = "Gone" THEN outbox[s]
                        ELSE Append(outbox[s], Head(inbox[s]).frame)
        /\ \A t \in Side \ {s} : inbox'[t] = inbox[t] /\ outbox'[t] = outbox[t]
        /\ UNCHANGED <<session, writer, written, readerVars, wire, reset, sent, read, received>>
    BY <1>2, <1>6 DEF HandleSend, Receive, TypeOK
  <2>2. Writing(s)'
    <3>1. SUFFICES ASSUME writer[s] # "Gone"
                   PROVE  \E n \in Nat \ {0} : Queued(s, n)' /\ Fits(s, n)'
      BY <2>1 DEF Writing
    <3>2. PICK n \in Nat \ {0} : Queued(s, n) /\ Fits(s, n)
      BY <1>2, <3>1 DEF Flow, Writing
    <3> DEFINE m == n + Len(outbox[s])
    <3>3. outbox[s] \in Seq(Nat) /\ Len(outbox[s]) \in Nat /\ m \in Nat /\ sent[s] \in Nat
      <4>1. outbox[s] \in Seq(Nat) /\ sent[s] \in Nat
        BY <1>2, SideTypes
      <4>2. Len(outbox[s]) \in Nat
        BY <4>1, LenProperties
      <4>. QED BY <4>1, <4>2
    <3>4. Head(inbox[s]).frame = m /\ m <= sent[s] /\ Run(Tail(inbox[s]), "Send", m + 1, sent[s])
      <4>1. m <= sent[s] + 1 /\ Run(inbox[s], "Send", m, sent[s])
        BY <3>2 DEF Queued
      <4> HIDE DEF m
      <4>. QED BY <2>1, <3>3, <4>1, RunTaken
    <3>5. /\ outbox'[s] = Append(outbox[s], m) /\ Len(outbox'[s]) = Len(outbox[s]) + 1
          /\ outbox'[s][Len(outbox[s]) + 1] = m
          /\ \A i \in 1 .. Len(outbox[s]) : outbox'[s][i] = outbox[s][i]
      BY <2>1, <3>1, <3>3, <3>4, AppendProperties
    <3>6. Queued(s, n)'
      <4>1. \A i \in 1 .. Len(outbox'[s]) : outbox'[s][i] = n + i - 1
        BY <3>2, <3>3, <3>5 DEF Queued
      <4>2. n + Len(outbox'[s]) = m + 1 /\ m + 1 <= sent[s] + 1
        BY <3>3, <3>4, <3>5
      <4>. QED BY <2>1, <3>2, <3>4, <4>1, <4>2 DEF Queued
    <3>7. Fits(s, n)'
      BY <2>1, <3>2 DEF Fits, ToWrite, Due, Reads
    <3>. QED BY <3>6, <3>7
  <2>3. Delivering(s)'
    BY <1>2, <2>1, RunSkipped DEF Flow, Delivering
  <2>4. Stretch(s)' /\ Stretch(p)' /\ Writing(p)' /\ Delivering(p)'
    BY <1>1, <1>2, <2>1, WritingKept, StretchKept, DeliveringKept DEF Flow, Reads, Due
  <2>5. Reading(s)' /\ Reading(p)' /\ ResetByClosed(s)' /\ ResetByClosed(p)'
    BY <1>2, <2>1 DEF Flow, Reading, ResetByClosed, Closed
  <2>. QED BY <1>1, <2>2, <2>3, <2>4, <2>5 DEF Flow
<1>7. ASSUME Receive(s, "FrameReady"), Set(inbox, s, Tail(inbox[s])),
             Set(received, s, Append(received[s], Head(inbox[s]).frame)),
             UNCHANGED <<runVars, session, childExit, writerVars, readerVars, wire, reset, sent,
                         read>>
      PROVE  \A t \in Side : Flow(t)'
  <2>1. /\ inbox[s] \in Seq(Message) /\ inbox[s] # <<>> /\ Head(inbox[s]).type = "FrameReady"
        /\ inbox'[s] = Tail(inbox[s]) /\ session[s] = "Running"
        /\ received'[s] = Append(received[s], Head(inbox[s]).frame)
        /\ \A t \in Side \ {s} : inbox'[t] = inbox[t] /\ received'[t] = received[t]
    BY <1>2, <1>7 DEF Receive, TypeOK
  <2>2. Delivering(s)'
    <3> DEFINE m == Len(received[s])
    <3>1. received[s] \in Seq(Nat) /\ m \in Nat /\ read[s] \in Nat
      BY <1>2, SideTypes, LenProperties
    <3>2. /\ Run(inbox[s], "FrameReady", m + 1, read[s]) /\ m <= read[s]
          /\ received[s] = [i \in 1 .. m |-> i]
      BY <1>2, <2>1 DEF Flow, Delivering
    <3>3. /\ Head(inbox[s]).frame = m + 1 /\ m + 1 <= read[s]
          /\ Run(Tail(inbox[s]), "FrameReady", m + 2, read[s])
      BY <2>1, <3>1, <3>2, RunTaken
    <3>4. /\ received'[s] \in Seq(Nat) /\ Len(received'[s]) = m + 1
          /\ received'[s][m + 1] = m + 1
          /\ \A i \in 1 .. m : received'[s][i] = i
      BY <2>1, <3>1, <3>2, <3>3, AppendProperties
    <3>5. received'[s] = [i \in 1 .. Len(received'[s]) |-> i]
      <4>1. DOMAIN received'[s] = 1 .. m + 1 /\ received'[s] = [i \in 1 .. m + 1 |-> received'[s][i]]
        BY <3>4, LenProperties
      <4>2. \A i \in 1 .. m + 1 : received'[s][i] = i
        BY <3>1, <3>4
      <4>. QED BY <3>4, <4>1, <4>2
    <3>. QED BY <1>7, <2>1, <3>1, <3>3, <3>4, <3>5 DEF Delivering
  <2>3. Writing(s)'
    <3>1. ASSUME NEW n \in Nat \ {0}, Queued(s, n), Fits(s, n) PROVE Queued(s, n)' /\ Fits(s, n)'
      BY <1>7, <2>1, <3>1, RunSkipped DEF Queued, Fits, ToWrite, Due, Reads
    <3>. QED BY <1>2, <1>7, <3>1 DEF Flow, Writing
  <2>4. Stretch(s)' /\ Stretch(p)' /\ Writing(p)' /\ Delivering(p)'
    BY <1>1, <1>2, <1>7, <2>1, WritingKept, StretchKept, DeliveringKept DEF Flow, Reads, Due
  <2>5. Reading(s)' /\ Reading(p)' /\ ResetByClosed(s)' /\ ResetByClosed(p)'
    BY <1>2, <1>7 DEF Flow, Reading, ResetByClosed, Closed
  <2>. QED BY <1>1, <2>2, <2>3, <2>4, <2>5 DEF Flow
<1>. QED BY <1>3, <1>4, <1>5, <1>6, <1>7 DEF SessionLoop, StopHandled, HandleFrameReady

\* The first frame of the outbox is the next on the wire; without it the next one is.
LEMMA QueueFacts ==
    ASSUME TypeOK, NEW s \in Side, NEW n \in Nat \ {0}, Queued(s, n), outbox[s] # <<>>
    PROVE  /\ Head(outbox[s]) = n /\ n \in 1 .. sent[s]
           /\ outbox'[s] = Tail(outbox[s]) /\ inbox'[s] = inbox[s] /\ sent'[s] = sent[s]
                  => Queued(s, n + 1)'
<1>1. outbox[s] \in Seq(Nat) /\ sent[s] \in Nat
  BY SideTypes
<1>2. /\ Len(outbox[s]) \in Nat \ {0} /\ Head(outbox[s]) = outbox[s][1]
      /\ Len(Tail(outbox[s])) = Len(outbox[s]) - 1
      /\ \A i \in 1 .. Len(Tail(outbox[s])) : Tail(outbox[s])[i] = outbox[s][i + 1]
  BY <1>1, HeadTailProperties, EmptySeq
<1>3. Head(outbox[s]) = n /\ n \in 1 .. sent[s]
  BY <1>1, <1>2 DEF Queued
<1>4. ASSUME outbox'[s] = Tail(outbox[s]), inbox'[s] = inbox[s], sent'[s] = sent[s]
      PROVE  Queued(s, n + 1)'
  <2>1. \A i \in 1 .. Len(outbox'[s]) : outbox'[s][i] = (n + 1) + i - 1
    BY <1>2, <1>4 DEF Queued
  <2>2. (n + 1) + Len(outbox'[s]) = n + Len(outbox[s]) /\ n + 1 \in Nat \ {0}
    <3> DEFINE k == Len(outbox[s])
               h == Len(outbox'[s])
    <3>1. h = k - 1 /\ k \in Nat
      BY <1>2, <1>4
    <3> HIDE DEF k, h
    <3>2. (n + 1) + h = n + k /\ n + 1 \in Nat \ {0}
      BY <3>1
    <3>. QED BY <3>2 DEF k, h
  <2>3. n + Len(outbox[s]) <= sent[s] + 1 /\ Run(inbox[s], "Send", n + Len(outbox[s]), sent[s])
    BY DEF Queued
  <2>4. Run(inbox[s], "Send", (n + 1) + Len(outbox'[s]), sent[s])
    BY <2>2, <2>3
  <2>. QED BY <1>4, <2>1, <2>2, <2>3, <2>4 DEF Queued
<1>. QED BY <1>3, <1>4

\* The wire goes on with what the writer writes next.
LEMMA StretchGrows ==
    ASSUME TypeOK, NEW s \in Side, NEW n \in 1 .. sent[s], Stretch(s), Fits(s, n), reset[s] = "No",
           wire'[s] = Append(wire[s], ToWrite(s, n)), ToWrite(s, n).frame = n,
           sent'[s] = sent[s], Reads(Peer(s))' = Reads(Peer(s)), Due(Peer(s))' = Due(Peer(s))
    PROVE  /\ wire'[s] # <<>> /\ wire'[s][Len(wire'[s])] = ToWrite(s, n)
           /\ Stretch(s)'
<1> DEFINE w == wire[s]
           v == wire'[s]
           t == ToWrite(s, n)
<1>1. w \in Seq(Token)
  BY SideTypes
<1>2. /\ Len(w) \in Nat /\ Len(v) = Len(w) + 1 /\ v[Len(w) + 1] = t
      /\ \A i \in 1 .. Len(w) : v[i] = w[i]
      /\ (w = <<>>) = (Len(w) = 0) /\ v # <<>>
  BY <1>1, AppendProperties, EmptySeq
<1>3. \A i \in 1 .. Len(w) : w[i].frame \in 1 .. sent[s]
  BY DEF Stretch
<1>4. \A i \in 1 .. Len(w) - 1 : w[i + 1] = After(w[i])
  BY DEF Stretch
<1>5. w # <<>> => t = After(w[Len(w)])
  BY DEF Fits
<1>6. Reads(Peer(s)) => v[1] = Due(Peer(s))
  BY <1>2 DEF Fits, Stretch
<1> HIDE DEF w, v, t
<1>7. \A i \in 1 .. Len(v) : v[i].frame \in 1 .. sent[s]
  BY <1>2, <1>3 DEF t
<1>8. ASSUME NEW i \in 1 .. Len(v) - 1 PROVE v[i + 1] = After(v[i])
  BY <1>2, <1>4, <1>5
<1>. QED BY <1>2, <1>6, <1>7, <1>8 DEF Stretch, After, v, t

LEMMA WriterFlow ==
    ASSUME TcpSessionAssumption, StreamInv, NEW s \in Side, WriterLoop(s)
    PROVE  \A t \in Side : Flow(t)'
<1> DEFINE p == Peer(s)
<1> USE DEF runVars, sessionVars, writerVars, readerVars, Set
<1>1. p \in Side /\ p # s /\ Peer(s) = p /\ Peer(p) = s /\ \A t \in Side : t = s \/ t = p
  BY PeerIsOther
<1>2. TypeOK /\ Flow(s) /\ Flow(p)
  BY <1>1 DEF StreamInv, Typed
<1> HIDE DEF p
\* Whatever the writer of s does, it concerns what s sends only.
<1>3. ASSUME UNCHANGED <<inbox, reader, reading, reset, sent, read, received, session>>,
             outbox'[p] = outbox[p], written'[p] = written[p], writer'[p] = writer[p],
             wire'[p] = wire[p], writer[s] = "Gone" => writer'[s] = "Gone",
             Writing(s)', Stretch(s)'
      PROVE  \A t \in Side : Flow(t)'
  <2>1. Reads(s)' = Reads(s) /\ Due(s)' = Due(s)
    BY <1>3 DEF Reads, Due, After
  <2>2. Writing(p)'
    BY <1>1, <1>2, <1>3, <2>1, WritingKept DEF Flow, Reads
  <2>3. Stretch(p)'
    BY <1>1, <1>2, <1>3, <2>1, StretchKept DEF Flow, Reads
  <2>4. Delivering(s)' /\ Delivering(p)'
    BY <1>1, <1>2, <1>3, DeliveringKept DEF Flow
  <2>5. Reading(s)' /\ Reading(p)'
    BY <1>2, <1>3 DEF Flow, Reading
  <2>6. ResetByClosed(s)' /\ ResetByClosed(p)'
    BY <1>1, <1>2, <1>3 DEF Flow, ResetByClosed, Closed
  <2>. QED BY <1>1, <1>3, <2>2, <2>3, <2>4, <2>5, <2>6 DEF Flow
<1>4. ASSUME WriterExit(s) PROVE \A t \in Side : Flow(t)'
  <2>1. /\ writer'[s] = "Gone" /\ writer'[p] = writer[p] /\ outbox'[p] = outbox[p]
        /\ UNCHANGED <<inbox, reader, reading, reset, sent, read, received, session, written, wire>>
    BY <1>1, <1>2, <1>4 DEF WriterExit, TypeOK
  <2>2. Writing(s)'
    BY <2>1 DEF Writing
  <2>3. Stretch(s)'
    BY <1>2, <2>1, StretchKept DEF Flow, Reads, Due, After
  <2>. QED BY <1>3, <2>1, <2>2, <2>3
<1>5. ASSUME writer[s] # "Gone", outbox[s] # <<>>
      PROVE  \E n \in Nat \ {0} :
                /\ Queued(s, n) /\ Fits(s, n) /\ Head(outbox[s]) = n /\ n \in 1 .. sent[s]
                /\ outbox'[s] = Tail(outbox[s]) /\ inbox'[s] = inbox[s] /\ sent'[s] = sent[s]
                       => Queued(s, n + 1)'
  <2>1. PICK n \in Nat \ {0} : Queued(s, n) /\ Fits(s, n)
    BY <1>2, <1>5 DEF Flow, Writing
  <2>. QED BY <1>2, <1>5, <2>1, QueueFacts
<1>6. CASE WriteLength(s)
  <2>1. /\ writer[s] = "Running" /\ ~written[s] /\ outbox[s] # <<>>
        /\ UNCHANGED <<inbox, reader, reading, reset, sent, read, received, session, writer>>
    BY <1>6 DEF WriteLength
  <2>2. PICK n \in Nat \ {0} :
                /\ Queued(s, n) /\ Fits(s, n) /\ Head(outbox[s]) = n /\ n \in 1 .. sent[s]
                /\ outbox'[s] = Tail(outbox[s]) /\ inbox'[s] = inbox[s] /\ sent'[s] = sent[s]
                       => Queued(s, n + 1)'
    BY <1>5, <2>1
  <2>3. Reads(p)' = Reads(p) /\ Due(p)' = Due(p)
    BY <2>1 DEF Reads, Due, After
  <2>4. CASE reset[s] = "No" /\ Put(s, "Length") /\ Set(written, s, TRUE) /\ UNCHANGED outbox
    <3>1. /\ wire'[s] = Append(wire[s], ToWrite(s, n)) /\ wire'[p] = wire[p]
          /\ ToWrite(s, n) = Bytes("Length", n)
      BY <1>1, <1>2, <2>1, <2>2, <2>4 DEF Put, ToWrite, TypeOK
    <3>2. written'[s] /\ written'[p] = written[p]
      BY <1>1, <1>2, <2>4, Zenon DEF TypeOK
    <3>3. /\ wire'[s] # <<>> /\ wire'[s][Len(wire'[s])] = ToWrite(s, n)
          /\ Stretch(s)'
      <4>1. Stretch(s) /\ ToWrite(s, n).frame = n /\ sent'[s] = sent[s]
        BY <1>2, <2>1, <3>1 DEF Flow, Bytes
      <4>. QED BY <1>1, <1>2, <2>2, <2>3, <2>4, <3>1, <4>1, StretchGrows
    <3>4. Queued(s, n)'
      BY <2>1, <2>2, <2>4 DEF Queued
    <3>5. Fits(s, n)'
      BY <3>1, <3>2, <3>3 DEF Fits, ToWrite, After
    <3>6. Writing(s)'
      BY <3>4, <3>5 DEF Writing
    <3>. QED BY <1>3, <2>1, <2>4, <3>1, <3>2, <3>3, <3>6
  <2>5. CASE reset[s] # "No" /\ Set(outbox, s, Tail(outbox[s])) /\ UNCHANGED <<written, wire>>
    <3>1. outbox'[s] = Tail(outbox[s]) /\ outbox'[p] = outbox[p]
      BY <1>1, <1>2, <2>5 DEF TypeOK
    <3>2. Queued(s, n + 1)' /\ n + 1 \in Nat \ {0}
      BY <2>1, <2>2, <3>1
    <3>3. Fits(s, n + 1)'
      BY <2>1, <2>5 DEF Fits
    <3>4. Writing(s)'
      BY <3>2, <3>3 DEF Writing
    <3>5. Stretch(s)'
      BY <1>1, <1>2, <2>1, <2>3, <2>5, StretchKept DEF Flow
    <3>. QED BY <1>3, <2>1, <2>5, <3>1, <3>4, <3>5
  <2>. QED BY <1>6, <2>4, <2>5 DEF WriteLength
<1>7. CASE WritePayload(s)
  <2>1. /\ writer[s] # "Gone" /\ written[s] /\ outbox[s] # <<>>
        /\ UNCHANGED <<inbox, reader, reading, reset, sent, read, received, session>>
    BY <1>7 DEF WritePayload, StreamInv, Typed, HasHead
  <2>2. PICK n \in Nat \ {0} :
                /\ Queued(s, n) /\ Fits(s, n) /\ Head(outbox[s]) = n /\ n \in 1 .. sent[s]
                /\ outbox'[s] = Tail(outbox[s]) /\ inbox'[s] = inbox[s] /\ sent'[s] = sent[s]
                       => Queued(s, n + 1)'
    BY <1>5, <2>1
  <2>3. Reads(p)' = Reads(p) /\ Due(p)' = Due(p)
    BY <2>1 DEF Reads, Due, After
  <2>4. outbox'[s] = Tail(outbox[s]) /\ outbox'[p] = outbox[p]
    BY <1>1, <1>2, <1>7 DEF WritePayload, TypeOK
  <2>5. ~written'[s] /\ written'[p] = written[p]
    BY <1>1, <1>2, <1>7, Zenon DEF WritePayload, TypeOK
  <2>6. Queued(s, n + 1)' /\ n + 1 \in Nat \ {0} /\ ToWrite(s, n + 1)' = Bytes("Length", n + 1)
    BY <2>1, <2>2, <2>4, <2>5 DEF ToWrite
  <2>7. CASE n \in Empty /\ UNCHANGED <<writer, wire>>
    <3>1. ToWrite(s, n) = Bytes("Length", n + 1)
      BY <2>1, <2>7 DEF ToWrite, After, Bytes
    <3>2. Fits(s, n + 1)'
      BY <1>1, <2>1, <2>2, <2>3, <2>6, <2>7, <3>1 DEF Fits, After
    <3>3. Writing(s)'
      BY <2>6, <3>2 DEF Writing
    <3>4. Stretch(s)'
      BY <1>1, <1>2, <2>1, <2>3, <2>7, StretchKept DEF Flow
    <3>. QED BY <1>3, <2>1, <2>4, <2>5, <2>7, <3>3, <3>4
  <2>8. CASE reset[s] = "No" /\ n \notin Empty /\ Put(s, "Payload") /\ UNCHANGED writer
    <3>1. ToWrite(s, n) = Bytes("Payload", n) /\ After(ToWrite(s, n)) = Bytes("Length", n + 1)
      BY <2>1, <2>8 DEF ToWrite, After, Bytes
    <3>2. wire'[s] = Append(wire[s], ToWrite(s, n)) /\ wire'[p] = wire[p]
      BY <1>1, <1>2, <2>2, <2>8, <3>1 DEF Put, TypeOK
    <3>3. /\ wire'[s] # <<>> /\ wire'[s][Len(wire'[s])] = ToWrite(s, n)
          /\ Stretch(s)'
      <4>1. Stretch(s) /\ ToWrite(s, n).frame = n /\ sent'[s] = sent[s]
        BY <1>2, <2>1, <3>1 DEF Flow, Bytes
      <4>. QED BY <1>1, <1>2, <2>2, <2>3, <2>8, <3>2, <4>1, StretchGrows
    <3>4. Fits(s, n + 1)'
      BY <2>6, <3>1, <3>3 DEF Fits, After
    <3>5. Writing(s)'
      BY <2>6, <3>4 DEF Writing
    <3>. QED BY <1>3, <2>1, <2>4, <2>5, <2>8, <3>2, <3>3, <3>5
  <2>9. CASE reset[s] # "No" /\ Set(writer, s, "Stopping") /\ UNCHANGED wire
    <3>1. writer'[p] = writer[p]
      BY <1>1, <1>2, <2>9 DEF TypeOK
    <3>2. Fits(s, n + 1)'
      BY <2>1, <2>9 DEF Fits
    <3>3. Writing(s)'
      BY <2>6, <3>2 DEF Writing
    <3>4. Stretch(s)'
      BY <1>1, <1>2, <2>1, <2>3, <2>9, StretchKept DEF Flow
    <3>. QED BY <1>3, <2>1, <2>4, <2>5, <2>9, <3>1, <3>3, <3>4
  <2>. QED BY <1>7, <2>2, <2>7, <2>8, <2>9 DEF WritePayload
<1>. QED BY <1>4, <1>6, <1>7 DEF WriterLoop, WriterStops, WriterFails

\* When the reader takes the part that is due, the wire goes on with the one after it.
LEMMA StretchShrinks ==
    ASSUME TypeOK, NEW s \in Side, Stretch(s), wire[s] # <<>>, wire'[s] = Tail(wire[s]),
           Reads(Peer(s)), Due(Peer(s))' = After(Due(Peer(s))),
           sent'[s] = sent[s], written'[s] = written[s], reset'[s] = reset[s]
    PROVE  /\ Head(wire[s]) = Due(Peer(s)) /\ wire[s][1].frame \in 1 .. sent[s]
           /\ Stretch(s)'
           /\ \A n \in Nat \ {0} : Fits(s, n) => Fits(s, n)'
<1> DEFINE w == wire[s]
           v == wire'[s]
           d == Due(Peer(s))
<1>1. w \in Seq(Token) /\ Len(w) \in Nat \ {0} /\ v \in Seq(Token)
  BY SideTypes, HeadTailProperties, EmptySeq
<1>2. /\ Head(w) = w[1] /\ Len(v) = Len(w) - 1 /\ (v = <<>>) = (Len(v) = 0)
      /\ \A i \in 1 .. Len(v) : v[i] = w[i + 1]
  <2>1. Head(w) = w[1] /\ Len(v) = Len(w) - 1 /\ \A i \in 1 .. Len(v) : v[i] = w[i + 1]
    BY <1>1, HeadTailProperties
  <2>2. (v = <<>>) = (Len(v) = 0)
    BY <1>1, EmptySeq
  <2>. QED BY <2>1, <2>2
<1>3. \A i \in 1 .. Len(w) : w[i].frame \in 1 .. sent[s]
  BY DEF Stretch
<1>4. \A i \in 1 .. Len(w) - 1 : w[i + 1] = After(w[i])
  BY DEF Stretch
<1>5. w[1] = d
  BY DEF Stretch
<1> HIDE DEF w, v, d
<1>6. Head(w) = d /\ w[1].frame \in 1 .. sent[s]
  BY <1>1, <1>2, <1>3, <1>5
<1>7. \A i \in 1 .. Len(v) : v[i].frame \in 1 .. sent[s]
  <2> SUFFICES ASSUME NEW i \in 1 .. Len(v) PROVE v[i].frame \in 1 .. sent[s]
    OBVIOUS
  <2>1. i + 1 \in 1 .. Len(w) /\ v[i] = w[i + 1]
    BY <1>1, <1>2
  <2>. QED BY <1>3, <2>1
<1>8. \A i \in 1 .. Len(v) - 1 : v[i + 1] = After(v[i])
  <2> SUFFICES ASSUME NEW i \in 1 .. Len(v) - 1 PROVE v[i + 1] = After(v[i])
    OBVIOUS
  <2>1. /\ i \in 1 .. Len(v) /\ i + 1 \in 1 .. Len(v) /\ i + 1 \in 1 .. Len(w) - 1
    BY <1>1, <1>2
  <2>2. v[i] = w[i + 1] /\ v[i + 1] = w[(i + 1) + 1]
    BY <1>2, <2>1
  <2>. QED BY <1>4, <2>1, <2>2
<1>9. v # <<>> => v[1] = After(d)
  BY <1>1, <1>2, <1>4, <1>5
<1>10. Stretch(s)'
  BY <1>7, <1>8, <1>9 DEF Stretch, After, v, d
<1>11. IF v # <<>> THEN v[Len(v)] = w[Len(w)] ELSE After(w[Len(w)]) = After(d)
  BY <1>1, <1>2, <1>5
<1>12. ASSUME NEW n \in Nat \ {0}, Fits(s, n) PROVE Fits(s, n)'
  <2>1. ToWrite(s, n)' = ToWrite(s, n)
    BY DEF ToWrite, After
  <2>2. reset[s] = "No" => ToWrite(s, n) = After(w[Len(w)])
    BY <1>12 DEF Fits, w
  <2>3. reset[s] = "No" => IF v # <<>> THEN ToWrite(s, n)' = After(v[Len(v)])
                                       ELSE ToWrite(s, n)' = After(d)
    BY <1>11, <2>1, <2>2
  <2>. QED BY <2>3 DEF Fits, After, v, d
<1>. QED BY <1>6, <1>10, <1>12 DEF w, d

LEMMA ReaderFlow ==
    ASSUME TcpSessionAssumption, StreamInv, NEW s \in Side, ReaderLoop(s)
    PROVE  \A t \in Side : Flow(t)'
<1> DEFINE p == Peer(s)
<1> USE DEF runVars, sessionVars, writerVars, readerVars, Set, Then
<1>1. p \in Side /\ p # s /\ Peer(s) = p /\ Peer(p) = s /\ \A t \in Side : t = s \/ t = p
  BY PeerIsOther
<1>2. TypeOK /\ Flow(s) /\ Flow(p)
  BY <1>1 DEF StreamInv, Typed
<1>3. /\ reading[s] \in Nat /\ read[s] \in Nat /\ read[p] \in Nat /\ sent[p] \in Nat
      /\ inbox[s] \in Seq(Message)
  BY <1>1, <1>2, SideTypes
<1> HIDE DEF p
\* Whatever the reader of s does, it concerns what s receives only.
<1>4. ASSUME UNCHANGED <<writer, outbox, written, session, sent, received>>,
             wire'[s] = wire[s], reader'[p] = reader[p], reading'[p] = reading[p],
             read'[p] = read[p], inbox'[p] = inbox[p],
             reader[s] = "Gone" => reader'[s] = "Gone",
             reset'[p] = reset[p], reset'[s] = "No" <=> reset[s] = "No",
             Writing(s)', Reading(s)', Delivering(s)', Writing(p)', Stretch(p)'
      PROVE  \A t \in Side : Flow(t)'
  <2>1. Reads(p)' = Reads(p) /\ Due(p)' = Due(p)
    BY <1>4 DEF Reads, Due, After
  <2>2. Stretch(s)'
    BY <1>1, <1>2, <1>4, <2>1, StretchKept DEF Flow
  <2>3. Delivering(p)'
    BY <1>1, <1>2, <1>4, DeliveringKept DEF Flow
  <2>4. Reading(p)'
    BY <1>1, <1>2, <1>4 DEF Flow, Reading
  <2>5. ResetByClosed(s)' /\ ResetByClosed(p)'
    BY <1>1, <1>2, <1>4 DEF Flow, ResetByClosed, Closed
  <2>. QED BY <1>1, <1>4, <2>2, <2>3, <2>4, <2>5 DEF Flow
\* As long as what is due stays, so does the direction to s.
<1>5. ASSUME UNCHANGED <<writer, outbox, written, session, sent, received, inbox, wire>>,
             reader'[p] = reader[p], reading'[p] = reading[p], read'[p] = read[p],
             reset'[s] = "No" <=> reset[s] = "No"
      PROVE  Writing(s)'
  <2>1. Reads(p)' = Reads(p) /\ Due(p)' = Due(p)
    BY <1>5 DEF Reads, Due, After
  <2>2. ASSUME NEW n \in Nat \ {0}, Queued(s, n), Fits(s, n) PROVE Queued(s, n)' /\ Fits(s, n)'
    BY <1>1, <1>5, <2>1, <2>2 DEF Queued, Fits, ToWrite, After
  <2>. QED BY <1>2, <1>5, <2>2 DEF Flow, Writing
<1>6. CASE ReaderStops(s)
  <2>1. /\ reader'[s] = "Gone" /\ reader'[p] = reader[p]
        /\ UNCHANGED <<writer, outbox, written, session, sent, received, wire, reading, read, inbox,
                       reset>>
    BY <1>1, <1>2, <1>6 DEF ReaderStops, TypeOK
  <2>2. Writing(s)'
    BY <1>5, <2>1
  <2>3. Writing(p)' /\ Stretch(p)'
    BY <1>1, <1>2, <2>1, WritingKept, StretchKept DEF Flow, Reads
  <2>4. Reading(s)' /\ Delivering(s)'
    BY <1>2, <2>1, DeliveringKept DEF Flow, Reading
  <2>. QED BY <1>4, <2>1, <2>2, <2>3, <2>4
<1>7. CASE Begin(s)
  <2>1. UNCHANGED <<writer, outbox, written, session, sent, received, wire, reading, read, inbox,
                    reset, reader>>
    BY <1>7 DEF Begin
  <2>2. Reads(s)' = Reads(s) /\ Due(s)' = Due(s)
    BY <2>1 DEF Reads, Due, After
  <2>3. Writing(s)'
    BY <1>5, <2>1
  <2>4. Writing(p)'
    BY <1>1, <1>2, <2>1, <2>2, WritingKept DEF Flow, Reads
  <2>5. Stretch(p)'
    BY <1>1, <1>2, <2>1, <2>2, StretchKept DEF Flow, Reads
  <2>6. Reading(s)' /\ Delivering(s)'
    BY <1>2, <2>1, DeliveringKept DEF Flow, Reading
  <2>. QED BY <1>4, <2>1, <2>3, <2>4, <2>5, <2>6
\* The part that was due is consumed.
<1>8. ASSUME UNCHANGED <<writer, outbox, written, sent, reset>>, inbox'[p] = inbox[p],
             Reads(s), wire[p] # <<>>, wire'[p] = Tail(wire[p]), Due(s)' = After(Due(s))
      PROVE  Writing(p)' /\ Stretch(p)'
  <2>1. Stretch(p)' /\ \A n \in Nat \ {0} : Fits(p, n) => Fits(p, n)'
    BY <1>1, <1>2, <1>8, StretchShrinks DEF Flow
  <2>2. ASSUME NEW n \in Nat \ {0}, Queued(p, n) PROVE Queued(p, n)'
    BY <1>8, <2>2 DEF Queued
  <2>. QED BY <1>2, <1>8, <2>1, <2>2 DEF Flow, Writing
<1>9. CASE ReadLength(s)
  <2>1. /\ Reads(s) /\ reading[s] = 0 /\ wire[p] # <<>>
        /\ UNCHANGED <<writer, outbox, written, session, sent, received, read, inbox, reset, reader>>
    BY <1>1, <1>9 DEF ReadLength, Reads, Incoming
  <2>2. /\ wire'[p] = Tail(wire[p]) /\ wire'[s] = wire[s]
        /\ reading'[s] = Head(wire[p]).frame /\ reading'[p] = reading[p]
    BY <1>1, <1>2, <1>9 DEF ReadLength, Consume, Incoming, TypeOK
  <2>3. /\ wire[p][1] = Bytes("Length", read[s] + 1) /\ Head(wire[p]) = wire[p][1]
        /\ wire[p][1].frame \in 1 .. sent[p]
    <3>1. wire[p] \in Seq(Token) /\ Stretch(p)
      BY <1>1, <1>2, SideTypes DEF Flow
    <3>2. Len(wire[p]) \in Nat \ {0} /\ Head(wire[p]) = wire[p][1]
      BY <2>1, <3>1, HeadTailProperties, EmptySeq
    <3>. QED BY <1>1, <2>1, <3>1, <3>2 DEF Stretch, Due
  <2>4. reading'[s] = read[s] + 1 /\ read[s] + 1 \in 1 .. sent[p]
    BY <2>2, <2>3 DEF Bytes
  <2>5. Due(s)' = After(Due(s))
    BY <1>3, <2>1, <2>4 DEF Due, After, Bytes
  <2>6. Writing(p)' /\ Stretch(p)'
    BY <1>8, <2>1, <2>2, <2>5
  <2>7. Reading(s)'
    BY <1>1, <1>3, <2>1, <2>4 DEF Reading
  <2>8. Delivering(s)'
    BY <1>2, <2>1, DeliveringKept DEF Flow
  <2>9. Writing(s)'
    BY <1>1, <1>2, <2>1, <2>2, WritingKept DEF Flow, Reads, Due
  <2>. QED BY <1>4, <2>1, <2>2, <2>6, <2>7, <2>8, <2>9
<1>10. CASE ReadPayload(s)
  <2>1. /\ Reads(s) /\ reading[s] # 0
        /\ UNCHANGED <<writer, outbox, written, session, sent, received, reset, reader>>
    BY <1>10 DEF ReadPayload, Reads
  <2>2. /\ inbox'[s] = Append(inbox[s], [type |-> "FrameReady", frame |-> FrameRead(s)])
        /\ read'[s] = read[s] + 1 /\ reading'[s] = 0
        /\ inbox'[p] = inbox[p] /\ read'[p] = read[p] /\ reading'[p] = reading[p]
    BY <1>1, <1>2, <1>10 DEF ReadPayload, NextMessage, TypeOK
  <2>3. reading[s] = read[s] + 1 /\ read[s] + 1 <= sent[p]
    BY <1>1, <1>2, <2>1 DEF Flow, Reading
  <2>4. Due(s)' = Bytes("Length", reading[s] + 1)
    BY <2>2, <2>3 DEF Due
  <2>5. /\ Writing(p)' /\ Stretch(p)' /\ FrameRead(s) = read[s] + 1
        /\ wire'[s] = wire[s]
    <3>1. CASE reading[s] \in Empty /\ UNCHANGED wire
      <4>1. Due(s)' = Due(s)
        BY <2>1, <2>4, <3>1 DEF Due, After, Bytes
      <4>2. Writing(p)'
        BY <1>1, <1>2, <2>1, <2>2, <3>1, <4>1, WritingKept DEF Flow
      <4>3. Stretch(p)'
        BY <1>1, <1>2, <2>1, <2>2, <3>1, <4>1, StretchKept DEF Flow
      <4>. QED BY <2>3, <3>1, <4>2, <4>3 DEF FrameRead
    <3>2. CASE reading[s] \notin Empty /\ Incoming(s) # <<>> /\ Consume(s)
      <4>1. wire[p] # <<>> /\ wire'[p] = Tail(wire[p]) /\ wire'[s] = wire[s]
        BY <1>1, <1>2, <3>2 DEF Consume, Incoming, TypeOK
      <4>2. Due(s) = Bytes("Payload", reading[s])
        BY <2>1, <3>2 DEF Due, After, Bytes
      <4>3. Due(s)' = After(Due(s))
        BY <2>4, <4>2 DEF After, Bytes
      <4>4. Writing(p)' /\ Stretch(p)'
        BY <1>8, <2>1, <2>2, <4>1, <4>3
      <4>5. Head(wire[p]) = Due(s)
        BY <1>1, <1>2, <2>1, <4>1, <4>3, StretchShrinks DEF Flow
      <4>6. FrameRead(s) = reading[s]
        BY <1>1, <4>2, <4>5 DEF FrameRead, Incoming
      <4>. QED BY <2>3, <4>1, <4>4, <4>6
    <3>. QED BY <1>10, <3>1, <3>2 DEF ReadPayload
  <2>6. [type |-> "FrameReady", frame |-> read[s] + 1] \in Message
    BY <1>3, MessageTypes
  <2>7. Delivering(s)'
    <3>1. /\ Len(received[s]) \in Nat /\ Len(received[s]) <= read[s]
          /\ received[s] = [i \in 1 .. Len(received[s]) |-> i]
          /\ session[s] # "Down" => Run(inbox[s], "FrameReady", Len(received[s]) + 1, read[s])
      BY <1>2, SideTypes, LenProperties DEF Flow, Delivering
    <3>2. session[s] # "Down" => Run(inbox'[s], "FrameReady", Len(received[s]) + 1, read[s] + 1)
      BY <1>3, <2>2, <2>5, <2>6, <3>1, RunAppended
    <3>3. Len(received[s]) <= read[s] + 1
      BY <1>3, <3>1
    <3>. QED BY <2>1, <2>2, <3>1, <3>2, <3>3 DEF Delivering
  <2>8. Writing(s)'
    <3>1. ASSUME NEW n \in Nat \ {0}, Queued(s, n) PROVE Queued(s, n)'
      <4>1. Run(inbox'[s], "Send", n + Len(outbox[s]), sent[s])
        BY <1>3, <2>2, <2>5, <2>6, <3>1, RunPassed DEF Queued
      <4>. QED BY <2>1, <3>1, <4>1 DEF Queued
    <3>2. ASSUME NEW n \in Nat \ {0}, Fits(s, n) PROVE Fits(s, n)'
      BY <1>1, <2>1, <2>2, <2>5, <3>2 DEF Fits, ToWrite, After, Reads, Due
    <3>. QED BY <1>2, <2>1, <3>1, <3>2 DEF Flow, Writing
  <2>9. Reading(s)'
    BY <1>1, <1>3, <2>1, <2>2, <2>3 DEF Reading
  <2>. QED BY <1>4, <2>1, <2>2, <2>5, <2>7, <2>8, <2>9
\* Nothing follows once the other side has closed.
<1>11. ASSUME Awaiting(s), writer[p] = "Gone", UNCHANGED <<writer, wire, sent, read>>, Then(s, 0),
              reader'[s] # "Gone"
       PROVE  Writing(p)' /\ Stretch(p)' /\ Reading(s)' /\ reading'[p] = reading[p]
  <2>1. reading'[s] = 0 /\ reading'[p] = reading[p] /\ wire'[p] = <<>>
    BY <1>1, <1>2, <1>11 DEF TypeOK, Awaiting, Incoming
  <2>2. Writing(p)'
    BY <1>11 DEF Writing
  <2>3. Stretch(p)'
    BY <2>1, EmptySeq DEF Stretch
  <2>4. Reading(s)'
    BY <1>1, <1>2, <1>3, <1>11, <2>1 DEF Flow, Reading
  <2>. QED BY <2>1, <2>2, <2>3, <2>4
<1>12. CASE ReadEof(s)
  <2>1. writer[p] = "Gone"
    BY <1>1, <1>2, <1>12 DEF ReadEof, Flow, ResetByClosed, Closed
  <2>2. /\ reader'[s] = "Stopping" /\ reader'[p] = reader[p] /\ reader[s] # "Gone"
        /\ UNCHANGED <<writer, outbox, written, session, sent, received, read, inbox, reset, wire>>
    BY <1>1, <1>2, <1>12 DEF ReadEof, StopAtEof, Awaiting, TypeOK
  <2>3. Writing(p)' /\ Stretch(p)' /\ Reading(s)' /\ reading'[p] = reading[p]
    BY <1>11, <1>12, <2>1, <2>2 DEF ReadEof
  <2>4. Writing(s)' /\ Delivering(s)'
    BY <1>2, <1>5, <2>2, <2>3, DeliveringKept DEF Flow
  <2>. QED BY <1>4, <2>2, <2>3, <2>4
<1>13. CASE ReadError(s)
  <2>1. writer[p] = "Gone"
    BY <1>1, <1>2, <1>13 DEF ReadError, Flow, ResetByClosed, Closed
  <2>2. /\ reset'[s] = "Seen" /\ reset[s] = "Fresh" /\ reset'[p] = reset[p] /\ reader[s] # "Gone"
        /\ UNCHANGED <<writer, outbox, written, session, sent, received, read, inbox, reader, wire>>
    BY <1>1, <1>2, <1>13 DEF ReadError, Awaiting, TypeOK
  <2>3. Writing(p)' /\ Stretch(p)' /\ Reading(s)' /\ reading'[p] = reading[p]
    BY <1>11, <1>13, <2>1, <2>2 DEF ReadError, NextMessage
  <2>4. Writing(s)' /\ Delivering(s)'
    BY <1>2, <1>5, <2>2, <2>3, DeliveringKept DEF Flow
  <2>. QED BY <1>4, <2>2, <2>3, <2>4
<1>. QED BY <1>6, <1>7, <1>9, <1>10, <1>12, <1>13 DEF ReaderLoop

LEMMA ResetFlow ==
    ASSUME TcpSessionAssumption, StreamInv, NEW s \in Side, Reset(s)
    PROVE  \A t \in Side : Flow(t)'
<1> DEFINE p == Peer(s)
<1> USE DEF runVars, sessionVars, writerVars, readerVars, Set
<1>1. p \in Side /\ p # s /\ Peer(s) = p /\ Peer(p) = s /\ \A t \in Side : t = s \/ t = p
  BY PeerIsOther
<1>2. TypeOK /\ Flow(s) /\ Flow(p)
  BY <1>1 DEF StreamInv, Typed
<1> HIDE DEF p
<1>3. PICK n \in 0 .. Len(wire[s]) :
        wire' = [wire EXCEPT ![s] = SubSeq(@, 1, n), ![p] = <<>>]
  BY <1>1 DEF Reset
<1>4. wire'[p] = <<>> /\ wire'[s] = SubSeq(wire[s], 1, n) /\ wire[s] \in Seq(Token)
  BY <1>1, <1>2, <1>3 DEF TypeOK
<1>5. /\ Closed(s) /\ reset'[p] = "Fresh" /\ reset'[s] = reset[s]
      /\ UNCHANGED <<session, inbox, writerVars, readerVars, sent, read, received>>
  BY <1>1, <1>2 DEF Reset, TypeOK
<1>6. Reads(p)' = Reads(p) /\ Due(p)' = Due(p)
  BY <1>5 DEF Reads, Due, After
<1>7. Writing(s)'
  BY <1>5 DEF Closed, Writing
<1>8. Writing(p)'
  <2>1. ASSUME NEW m \in Nat \ {0}, Queued(p, m) PROVE Queued(p, m)' /\ Fits(p, m)'
    BY <1>5, <2>1 DEF Queued, Fits
  <2>. QED BY <1>2, <1>5, <2>1 DEF Flow, Writing
<1>9. Stretch(p)'
  BY <1>4, EmptySeq DEF Stretch
<1>10. Stretch(s)'
  <2> DEFINE w == wire[s]
             v == wire'[s]
  <2>1. /\ Len(w) \in Nat /\ Len(v) = n /\ v \in Seq(Token)
        /\ \A i \in 1 .. n : v[i] = w[i]
    <3>1. w \in Seq(Token) /\ v = SubSeq(w, 1, n)
      BY <1>4
    <3>2. Len(w) \in Nat
      BY <3>1, LenProperties
    <3>. QED BY <3>1, <3>2, CutTypes
  <2>2. /\ \A i \in 1 .. Len(w) : w[i].frame \in 1 .. sent[s]
        /\ \A i \in 1 .. Len(w) - 1 : w[i + 1] = After(w[i])
        /\ w # <<>> /\ Reads(p) => w[1] = Due(p)
    BY <1>1, <1>2 DEF Flow, Stretch
  <2>3. v # <<>> => n # 0 /\ w # <<>>
    BY <1>3, <1>4, <2>1, EmptySeq
  <2> HIDE DEF w, v
  <2>4. n \in 0 .. Len(w)
    BY <1>3 DEF w
  <2>5. /\ \A i \in 1 .. Len(v) : v[i].frame \in 1 .. sent[s]
        /\ \A i \in 1 .. Len(v) - 1 : v[i + 1] = After(v[i])
        /\ v # <<>> /\ Reads(p) => v[1] = Due(p)
    <3>1. \A i \in 1 .. n : i \in 1 .. Len(w)
      BY <2>1, <2>4
    <3>2. \A i \in 1 .. n - 1 : i \in 1 .. Len(w) - 1 /\ i \in 1 .. n /\ i + 1 \in 1 .. n
      BY <2>1, <2>4
    <3>3. \A i \in 1 .. Len(v) : v[i].frame \in 1 .. sent[s]
      BY <2>1, <2>2, <3>1
    <3>4. \A i \in 1 .. Len(v) - 1 : v[i + 1] = After(v[i])
      BY <2>1, <2>2, <3>2
    <3>5. v # <<>> => 1 \in 1 .. n
      BY <2>3, <2>4
    <3>. QED BY <2>1, <2>2, <2>3, <3>3, <3>4, <3>5
  <2>. QED BY <1>1, <1>5, <1>6, <2>5 DEF Stretch, After, v
<1>11. Delivering(s)' /\ Delivering(p)'
  BY <1>1, <1>2, <1>5, DeliveringKept DEF Flow
<1>12. Reading(s)' /\ Reading(p)'
  BY <1>2, <1>5 DEF Flow, Reading
<1>13. ResetByClosed(s)' /\ ResetByClosed(p)'
  BY <1>1, <1>2, <1>5 DEF Flow, ResetByClosed, Closed
<1>. QED BY <1>1, <1>7, <1>8, <1>9, <1>10, <1>11, <1>12, <1>13 DEF Flow

LEMMA StreamStep == ASSUME TcpSessionAssumption, StreamInv, [Next]_vars PROVE StreamInv'
<1>1. Typed'
  BY TypedStep DEF StreamInv
<1>2. CASE UNCHANGED vars
  <2>1. UNCHANGED <<session, inbox, writer, outbox, written, reader, reading, wire, reset, sent,
                    read, received>>
    BY <1>2 DEF vars, sessionVars, writerVars, readerVars
  <2>2. ASSUME NEW s \in Side PROVE Flow(s)'
    <3>1. Flow(s)
      BY DEF StreamInv
    <3>2. Reads(Peer(s))' = Reads(Peer(s)) /\ Due(Peer(s))' = Due(Peer(s))
      BY <2>1 DEF Reads, Due, After
    <3>3. Writing(s)' /\ Stretch(s)' /\ Delivering(s)'
      BY <2>1, <3>1, <3>2, WritingKept, StretchKept, DeliveringKept DEF Flow, Reads
    <3>. QED BY <2>1, <3>1, <3>3 DEF Flow, Reading, ResetByClosed, Closed
  <2>. QED BY <1>1, <2>2 DEF StreamInv
<1>3. CASE Next
  BY <1>1, <1>3, SessionFlow, WriterFlow, ReaderFlow, ResetFlow DEF Next, StreamInv
<1>. QED BY <1>2, <1>3

THEOREM StreamInvariant == Spec => []StreamInv
<1>1. Init => StreamInv
  BY InitTyped, InitFlow, TcpSessionAssumption DEF StreamInv
<1>2. StreamInv /\ [Next]_vars => StreamInv'
  BY StreamStep, TcpSessionAssumption
<1>. QED BY <1>1, <1>2, PTL DEF Spec

\* A FrameReceiver is given the frames the other owner sent: in order, each once,
\* none skipped and none mangled, up to the point where the connection ends.
THEOREM FramesAreIntact == Spec => []FramesIntact
<1>1. StreamInv => FramesIntact
  <2> SUFFICES ASSUME StreamInv, NEW s \in Side
               PROVE  /\ received[s] = [i \in 1 .. Len(received[s]) |-> i]
                      /\ Len(received[s]) <= sent[Peer(s)]
    BY DEF FramesIntact
  <2>1. Delivering(s) /\ Reading(s) /\ TypeOK /\ Peer(s) \in Side
    BY PeerIsOther, TcpSessionAssumption DEF StreamInv, Typed, Flow
  <2>2. Len(received[s]) \in Nat /\ read[s] \in Nat /\ sent[Peer(s)] \in Nat
    BY <2>1, SideTypes, LenProperties
  <2>. QED BY <2>1, <2>2 DEF Delivering, Reading
<1>. QED BY <1>1, StreamInvariant, PTL

-----------------------------------------------------------------------------
(* The sessions are a Connection.                                          *)

\* The Connection sees a session only when it accepts a frame, hands one over or ends.
LEMMA ConnectionStutters ==
    ASSUME UNCHANGED <<sent, received>>, \A s \in Side : Alive(s)' <=> Alive(s)
    PROVE  UNCHANGED TheConnection!vars
<1>1. {s \in Side : Alive(s)}' = {s \in Side : Alive(s)}
  OBVIOUS
<1>. QED BY <1>1 DEF TheConnection!vars

LEMMA SessionEnds ==
    ASSUME TypeOK, NEW s \in Side, Alive(s), Exit(s), UNCHANGED received
    PROVE  TheConnection!End(s)
<1>1. UNCHANGED sent /\ ~Alive(s)' /\ \A r \in Side \ {s} : Alive(r)' <=> Alive(r)
  BY DEF Exit, Set, Alive, TypeOK
<1>2. {r \in Side : Alive(r)}' = {r \in Side : Alive(r)} \ {s}
  BY <1>1
<1>. QED BY <1>1, <1>2 DEF TheConnection!End

\* The frame handed over is the next one: what the step leaves in received says so.
LEMMA FrameHandedOver ==
    ASSUME TcpSessionAssumption, StreamInv, StreamInv', NEW s \in Side, NEW f,
           received' = [received EXCEPT ![s] = Append(received[s], f)],
           UNCHANGED <<session, sent, read>>, Alive(s)
    PROVE  TheConnection!FrameReady(s)
<1>1. /\ received \in [Side -> Seq(Nat)] /\ received' \in [Side -> Seq(Nat)]
      /\ Peer(s) \in Side /\ TypeOK
  BY PeerIsOther DEF StreamInv, Typed, TypeOK
<1>2. received'[s] = Append(received[s], f) /\ received[s] \in Seq(Nat) /\ received'[s] \in Seq(Nat)
  BY <1>1
<1> DEFINE n == Len(received[s])
<1>3. n \in Nat /\ Len(received'[s]) = n + 1 /\ received'[s][n + 1] = f
  <2>1. f \in Nat
    <3>1. Delivering(s)'
      BY DEF StreamInv, Flow
    <3>2. received'[s] = [i \in 1 .. Len(received'[s]) |-> i]
      BY <3>1 DEF Delivering
    <3>3. Len(Append(received[s], f)) = n + 1 /\ Append(received[s], f)[n + 1] = f /\ n \in Nat
      BY <1>2
    <3>. QED BY <1>2, <3>2, <3>3
  <2>. QED BY <1>2, <2>1, AppendProperties, LenProperties
<1>4. received'[s] = [i \in 1 .. Len(received'[s]) |-> i] /\ Len(received'[s]) <= read[s]
  BY DEF StreamInv, Flow, Delivering
<1>5. read[s] <= sent[Peer(s)] /\ read[s] \in Nat /\ sent[Peer(s)] \in Nat
  BY <1>1, SideTypes DEF StreamInv, Flow, Reading
<1> HIDE DEF n
<1>6. f = n + 1 /\ n < sent[Peer(s)]
  BY <1>3, <1>4, <1>5
<1>7. {r \in Side : Alive(r)}' = {r \in Side : Alive(r)}
  BY DEF Alive
<1>. QED BY <1>6, <1>7 DEF TheConnection!FrameReady, TheConnection!Other, Peer, n

LEMMA ConnectionStep ==
    ASSUME TcpSessionAssumption, StreamInv, StreamInv', [Next]_vars
    PROVE  [TheConnection!Next]_(TheConnection!vars)
<1> USE DEF sessionVars, writerVars, readerVars, Set
<1>0. TypeOK
  BY DEF StreamInv, Typed
<1>1. ASSUME UNCHANGED <<session, sent, received>> PROVE UNCHANGED TheConnection!vars
  BY <1>1, ConnectionStutters DEF Alive
<1>2. CASE UNCHANGED vars
  BY <1>1, <1>2 DEF vars
<1>3. ASSUME NEW s \in Side, CastSend(s) PROVE TheConnection!Send(s)
  <2>1. {r \in Side : Alive(r)}' = {r \in Side : Alive(r)}
    BY <1>3 DEF CastSend, Alive
  <2>. QED BY <1>3, <2>1 DEF CastSend, TheConnection!Send
<1>4. ASSUME NEW s \in Side, StopSession(s) \/ HandleSupervisorEvt(s)
      PROVE  UNCHANGED TheConnection!vars
  <2>1. UNCHANGED <<sent, received>> /\ \A r \in Side : Alive(r)' <=> Alive(r)
    BY <1>0, <1>4 DEF StopSession, HandleSupervisorEvt, Alive, TypeOK
  <2>. QED BY <2>1, ConnectionStutters
<1>5. ASSUME NEW s \in Side, StopHandled(s) PROVE TheConnection!End(s)
  BY <1>0, <1>5, SessionEnds DEF StopHandled, Alive
<1>6. ASSUME NEW s \in Side, HandleFrameReady(s)
      PROVE  TheConnection!FrameReady(s) \/ TheConnection!End(s)
  <2>1. Alive(s)
    BY <1>6 DEF HandleFrameReady, Receive, Alive
  <2>2. CASE Exit(s) /\ UNCHANGED received
    BY <1>0, <2>1, <2>2, SessionEnds
  <2>3. CASE /\ received' = [received EXCEPT ![s] = Append(received[s], Head(inbox[s]).frame)]
             /\ UNCHANGED <<session, sent, read>>
    BY <2>1, <2>3, FrameHandedOver
  <2>. QED BY <1>6, <2>2, <2>3 DEF HandleFrameReady
<1>7. ASSUME NEW s \in Side, HandleSend(s) \/ WriterLoop(s) PROVE UNCHANGED TheConnection!vars
  BY <1>1, <1>7 DEF HandleSend, WriterLoop, WriterStops, WriterExit, WriteLength, WriterFails,
                    WritePayload
<1>8. ASSUME NEW s \in Side, ReaderLoop(s) \/ Reset(s) PROVE UNCHANGED TheConnection!vars
  BY <1>1, <1>8 DEF ReaderLoop, ReaderStops, Begin, ReadLength, ReadPayload, ReadEof, ReadError, Reset
<1>. QED BY <1>2, <1>3, <1>4, <1>5, <1>6, <1>7, <1>8 DEF Next, SessionLoop, TheConnection!Next

\* Every run of the two sessions is one of a Connection.
THEOREM SessionsAreConnection == Spec => ImplementsConnection
<1>1. Init => TheConnection!Init
  <2> SUFFICES ASSUME Init PROVE TheConnection!Init
    OBVIOUS
  <2>1. {s \in Side : Alive(s)} = Side
    BY DEF Init, Alive
  <2>. QED BY <2>1 DEF Init, TheConnection!Init
<1>2. StreamInv /\ StreamInv' /\ [Next]_vars => [TheConnection!Next]_(TheConnection!vars)
  BY ConnectionStep, TcpSessionAssumption
<1>. QED BY <1>1, <1>2, StreamInvariant, PTL DEF Spec, ImplementsConnection, TheConnection!Spec

-----------------------------------------------------------------------------
(* No actor of a session is left behind.                                   *)

\* A session that is down has no child left, and one that goes on has either both
\* of them or the exit of one in its supervision port.  This is the safety half of
\* AllExit, for each end of the connection.
EndIsUnderWay ==
    \A s \in Side :
        /\ session[s] = "Down" => Closed(s)
        /\ writer[s] = "Gone" \/ reader[s] = "Gone" => session[s] # "Running" \/ childExit[s]

LEMMA EndingStep ==
    ASSUME TypeOK, EndIsUnderWay, [Next]_vars PROVE EndIsUnderWay'
<1> USE DEF runVars, sessionVars, writerVars, readerVars, Set
<1>0. /\ session \in [Side -> {"Running", "Stopping", "Down"}] /\ childExit \in [Side -> BOOLEAN]
      /\ writer \in [Side -> ChildState] /\ reader \in [Side -> ChildState]
  BY Zenon DEF TypeOK
<1>1. ASSUME UNCHANGED <<session, childExit, writer, reader>> PROVE EndIsUnderWay'
  BY <1>1 DEF EndIsUnderWay, Closed
<1>2. ASSUME NEW s \in Side, session' = [session EXCEPT ![s] = "Stopping"], session[s] = "Running",
             writer' \in [Side -> ChildState], reader' \in [Side -> ChildState],
             \A t \in Side \ {s} : /\ writer'[t] = writer[t] /\ reader'[t] = reader[t]
                                   /\ childExit'[t] = childExit[t]
      PROVE  EndIsUnderWay'
  <2>1. session'[s] = "Stopping" /\ \A t \in Side \ {s} : session'[t] = session[t]
    BY <1>0, <1>2, Zenon
  <2>. QED BY <1>2, <2>1 DEF EndIsUnderWay, Closed
<1>3. ASSUME NEW s \in Side, Exit(s) PROVE EndIsUnderWay'
  <2>1. /\ session'[s] = "Down" /\ writer'[s] = "Gone" /\ reader'[s] = "Gone"
        /\ \A t \in Side \ {s} : /\ session'[t] = session[t] /\ childExit'[t] = childExit[t]
                                 /\ writer'[t] = writer[t] /\ reader'[t] = reader[t]
    BY <1>0, <1>3, Zenon DEF Exit, ChildrenKilled
  <2>. QED BY <2>1 DEF EndIsUnderWay, Closed
\* A child that goes tells its supervisor, and one that does not go stays what it was.
<1>4. ASSUME NEW s \in Side, UNCHANGED session,
             \/ childExit' = [childExit EXCEPT ![s] = TRUE]
             \/ /\ UNCHANGED childExit
                /\ writer'[s] = "Gone" => writer[s] = "Gone"
                /\ reader'[s] = "Gone" => reader[s] = "Gone",
             writer[s] = "Gone" => writer'[s] = "Gone",
             reader[s] = "Gone" => reader'[s] = "Gone",
             \A t \in Side \ {s} : writer'[t] = writer[t] /\ reader'[t] = reader[t]
      PROVE  EndIsUnderWay'
  <2>1. ASSUME NEW t \in Side \ {s} PROVE childExit'[t] = childExit[t]
    BY <1>0, <1>4, Zenon
  <2>2. childExit'[s] \/ (writer'[s] = "Gone" \/ reader'[s] = "Gone"
                            => (writer[s] = "Gone" \/ reader[s] = "Gone") /\ childExit'[s] = childExit[s])
    BY <1>0, <1>4, Zenon
  <2>. QED BY <1>4, <2>1, <2>2 DEF EndIsUnderWay, Closed
<1>5. CASE UNCHANGED vars
  BY <1>1, <1>5 DEF vars
<1>6. ASSUME NEW s \in Side, CastSend(s) \/ HandleSend(s) \/ Begin(s) \/ ReadLength(s)
                               \/ ReadPayload(s) \/ ReadError(s) \/ WriteLength(s) \/ Reset(s)
      PROVE  EndIsUnderWay'
  <2>1. UNCHANGED <<session, childExit, writer, reader>>
    BY <1>6 DEF CastSend, HandleSend, Begin, ReadLength, ReadPayload, ReadError, WriteLength, Reset
  <2>. QED BY <1>1, <2>1
<1>7. ASSUME NEW s \in Side, StopSession(s) PROVE EndIsUnderWay'
  BY <1>0, <1>2, <1>7 DEF StopSession
<1>8. ASSUME NEW s \in Side, HandleSupervisorEvt(s) PROVE EndIsUnderWay'
  <2>1. /\ session' = [session EXCEPT ![s] = "Stopping"] /\ session[s] = "Running"
        /\ childExit' = [childExit EXCEPT ![s] = FALSE]
        /\ writer' = [writer EXCEPT ![s] = Asked(writer[s])]
        /\ reader' = [reader EXCEPT ![s] = Asked(reader[s])]
    BY <1>8 DEF HandleSupervisorEvt
  <2>2. Asked(writer[s]) \in ChildState /\ Asked(reader[s]) \in ChildState
    BY <1>0 DEF Asked, ChildState
  <2>3. writer' \in [Side -> ChildState] /\ reader' \in [Side -> ChildState]
    BY <1>0, <2>1, <2>2, Zenon
  <2>4. \A t \in Side \ {s} : /\ writer'[t] = writer[t] /\ reader'[t] = reader[t]
                              /\ childExit'[t] = childExit[t]
    BY <1>0, <2>1, Zenon
  <2>. QED BY <1>2, <2>1, <2>3, <2>4
<1>9. ASSUME NEW s \in Side, StopHandled(s) \/ HandleFrameReady(s) PROVE EndIsUnderWay'
  BY <1>1, <1>3, <1>9 DEF StopHandled, HandleFrameReady
<1>10. ASSUME NEW s \in Side, WriterExit(s) PROVE EndIsUnderWay'
  <2>1. /\ writer'[s] = "Gone" /\ UNCHANGED <<session, reader>>
        /\ childExit' = [childExit EXCEPT ![s] = TRUE]
        /\ \A t \in Side \ {s} : writer'[t] = writer[t]
    BY <1>0, <1>10, Zenon DEF WriterExit
  <2>. QED BY <1>4, <2>1
<1>11. ASSUME NEW s \in Side, ReaderStops(s) PROVE EndIsUnderWay'
  <2>1. /\ reader'[s] = "Gone" /\ UNCHANGED <<session, writer>>
        /\ childExit' = [childExit EXCEPT ![s] = TRUE]
        /\ \A t \in Side \ {s} : reader'[t] = reader[t]
    BY <1>0, <1>11, Zenon DEF ReaderStops
  <2>. QED BY <1>4, <2>1
<1>12. ASSUME NEW s \in Side, WritePayload(s) PROVE EndIsUnderWay'
  <2>1. /\ UNCHANGED <<session, reader, childExit>> /\ writer[s] # "Gone"
        /\ UNCHANGED writer \/ writer' = [writer EXCEPT ![s] = "Stopping"]
    BY <1>12, Zenon DEF WritePayload
  <2>2. writer'[s] # "Gone" /\ \A t \in Side \ {s} : writer'[t] = writer[t]
    BY <1>0, <2>1
  <2>. QED BY <1>4, <2>1, <2>2
<1>13. ASSUME NEW s \in Side, ReadEof(s) PROVE EndIsUnderWay'
  <2>1. /\ UNCHANGED <<session, writer, childExit>> /\ reader[s] # "Gone"
        /\ reader' = [reader EXCEPT ![s] = "Stopping"]
    BY <1>13 DEF ReadEof, StopAtEof, Awaiting
  <2>2. reader'[s] # "Gone" /\ \A t \in Side \ {s} : reader'[t] = reader[t]
    BY <1>0, <2>1
  <2>. QED BY <1>4, <2>1, <2>2
<1>14. ASSUME NEW s \in Side, SessionLoop(s) \/ WriterLoop(s) \/ ReaderLoop(s) PROVE EndIsUnderWay'
  BY <1>6, <1>8, <1>9, <1>10, <1>11, <1>12, <1>13, <1>14
  DEF SessionLoop, WriterLoop, WriterStops, WriterFails, ReaderLoop
<1>. QED BY <1>5, <1>6, <1>7, <1>14 DEF Next

\* A child that ends is noticed, and a session leaves no child behind, wherever a stop,
\* an error or a reset finds them (session.rs handle_supervisor_evt).
THEOREM NobodyIsLeft == Spec => []EndIsUnderWay
<1>1. Init => EndIsUnderWay
  BY DEF Init, EndIsUnderWay
<1>2. TypeOK /\ EndIsUnderWay /\ [Next]_vars => EndIsUnderWay'
  BY EndingStep
<1>. QED BY <1>1, <1>2, TypeCorrect, PTL DEF Spec
=============================================================================
