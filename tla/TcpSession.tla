----------------------------- MODULE TcpSession -----------------------------
(***************************************************************************)
(* Two TCP sessions (net/tcp/session.rs) that talk to each other.  A       *)
(* session is three actors: TcpSession, and its linked children            *)
(* SessionWriter and SessionReader on the two halves of the socket.  A     *)
(* frame crosses the wire as a length and a payload, two writes and two    *)
(* reads; frames are numbered in the order their owner sends them.         *)
(*                                                                         *)
(* ractor serves a stop before supervision events and these before         *)
(* messages; a stop waits for the handler that is running, a kill does     *)
(* not; an actor that exits kills its children.  Dropping the write half   *)
(* ends the stream; a socket closed with unread data resets the peer.      *)
(***************************************************************************)
EXTENDS Naturals, Sequences, SequencesExt

CONSTANTS
    Side,      \* the two ends of the connection
    Frames,    \* bound: how many frames the owner of each side sends
    Empty,     \* the frame numbers whose payload is empty
    Capacity,  \* the wire holds that many lengths and payloads; a write waits for room
    Stoppers,  \* the sides whose owner may stop the session
    Faulty     \* the sides whose FrameReceiver may fail

ASSUME TcpSessionAssumption ==
    /\ \E a, b \in Side : a # b /\ Side = {a, b}
    /\ Frames \in [Side -> Nat]
    /\ Empty \subseteq Nat
    /\ Capacity \in Nat \ {0}
    /\ Stoppers \subseteq Side /\ Faulty \subseteq Side

VARIABLES
    stopping,  \* in this run: the sides whose owner does stop the session,
    faulty,    \* and those whose FrameReceiver fails
    session,   \* of each side: "Running", "Stopping" (asked to stop) or "Down"
    inbox,     \* the messages of the session: Send and FrameReady
    childExit, \* whether the exit of a child waits in its supervision port
    writer,    \* "Running", "Stopping" or "Gone"
    outbox,    \* the frames in the message port of the writer
    written,   \* whether the length of the first of them is on the wire already
    reader,    \* "Running", "Stopping" or "Gone"
    reading,   \* its one message: 0 is WaitForFrame, n is ReadFrame with frame n's length
    busy,      \* whether the reader is inside the handler of that message
    wire,      \* from each side to the other
    reset,     \* whether the side's socket was reset: "No", "Fresh" or "Seen" by a read
    sent,      \* history: how many frames the session accepted from its owner
    read,      \* history: how many frames the reader passed on
    received   \* history: the frames given to the FrameReceiver

sessionVars == <<session, inbox, childExit>>
writerVars == <<writer, outbox, written>>
readerVars == <<reader, reading, busy>>
runVars == <<stopping, faulty>>
vars == <<runVars, sessionVars, writerVars, readerVars, wire, reset, sent, read, received>>

Peer(s) == CHOOSE p \in Side : p # s

Message == [type : {"Send", "FrameReady"}, frame : Nat]
Token == [part : {"Length", "Payload"}, frame : Nat]
ChildState == {"Running", "Stopping", "Gone"}

TypeOK ==
    /\ stopping \subseteq Stoppers /\ faulty \subseteq Faulty
    /\ session \in [Side -> {"Running", "Stopping", "Down"}]
    /\ inbox \in [Side -> Seq(Message)]
    /\ childExit \in [Side -> BOOLEAN]
    /\ writer \in [Side -> ChildState] /\ reader \in [Side -> ChildState]
    /\ outbox \in [Side -> Seq(Nat)]
    /\ written \in [Side -> BOOLEAN] /\ busy \in [Side -> BOOLEAN]
    /\ reading \in [Side -> Nat]
    /\ wire \in [Side -> Seq(Token)] /\ \A s \in Side : Len(wire[s]) <= Capacity
    /\ reset \in [Side -> {"No", "Fresh", "Seen"}]
    /\ sent \in [Side -> Nat] /\ read \in [Side -> Nat]
    /\ received \in [Side -> Seq(Nat)]

\* Both sessions are through pre_start: the children run, the reader waits for a frame.
Init ==
    /\ stopping \in SUBSET Stoppers /\ faulty \in SUBSET Faulty
    /\ session = [s \in Side |-> "Running"]
    /\ inbox = [s \in Side |-> <<>>]
    /\ childExit = [s \in Side |-> FALSE]
    /\ writer = [s \in Side |-> "Running"] /\ reader = [s \in Side |-> "Running"]
    /\ outbox = [s \in Side |-> <<>>]
    /\ written = [s \in Side |-> FALSE] /\ busy = [s \in Side |-> FALSE]
    /\ reading = [s \in Side |-> 0]
    /\ wire = [s \in Side |-> <<>>]
    /\ reset = [s \in Side |-> "No"]
    /\ sent = [s \in Side |-> 0] /\ read = [s \in Side |-> 0]
    /\ received = [s \in Side |-> <<>>]

Set(f, s, v) == f' = [f EXCEPT ![s] = v]
Alive(s) == session[s] # "Down"

-----------------------------------------------------------------------------
(* The owner of a session.                                                 *)

CastSend(s) ==
    /\ Alive(s) /\ sent[s] < Frames[s]
    /\ Set(sent, s, sent[s] + 1)
    /\ Set(inbox, s, Append(inbox[s], [type |-> "Send", frame |-> sent[s] + 1]))
    /\ UNCHANGED <<runVars, session, childExit, writerVars, readerVars, wire, reset, read, received>>

StopSession(s) ==
    /\ s \in stopping /\ session[s] = "Running"
    /\ Set(session, s, "Stopping")
    /\ UNCHANGED <<runVars, inbox, childExit, writerVars, readerVars, wire, reset, sent, read, received>>

-----------------------------------------------------------------------------
(* The session actor.                                                      *)

\* The children are killed, wherever they are.
ChildrenKilled(child, s) == [child EXCEPT ![s] = "Gone"]

Exit(s) ==
    /\ Set(session, s, "Down")
    /\ Set(inbox, s, <<>>) /\ Set(childExit, s, FALSE)
    /\ writer' = ChildrenKilled(writer, s) /\ reader' = ChildrenKilled(reader, s)
    /\ Set(outbox, s, <<>>) /\ Set(written, s, FALSE)
    /\ Set(busy, s, FALSE) /\ Set(reading, s, 0)
    /\ UNCHANGED <<runVars, wire, reset, sent, read>>

\* post_stop only logs; the halves of the socket go with the children.
StopHandled(s) == session[s] = "Stopping" /\ Exit(s) /\ UNCHANGED received

Asked(state) == IF state = "Running" THEN "Stopping" ELSE state

\* A child stopped or failed, for any reason: stop_children and stop.
HandleSupervisorEvt(s) ==
    /\ session[s] = "Running" /\ childExit[s]
    /\ Set(childExit, s, FALSE)
    /\ Set(session, s, "Stopping")
    /\ Set(writer, s, Asked(writer[s])) /\ Set(reader, s, Asked(reader[s]))
    /\ UNCHANGED <<runVars, inbox, outbox, written, reading, busy, wire, reset, sent, read, received>>

Receive(s, type) ==
    /\ session[s] = "Running" /\ ~childExit[s]
    /\ inbox[s] # <<>> /\ Head(inbox[s]).type = type

\* A frame for a writer that is gone is dropped silently.
HandleSend(s) ==
    /\ Receive(s, "Send")
    /\ Set(inbox, s, Tail(inbox[s]))
    /\ Set(outbox, s, IF writer[s] = "Gone" THEN outbox[s]
                      ELSE Append(outbox[s], Head(inbox[s]).frame))
    /\ UNCHANGED <<runVars, session, childExit, writer, written, readerVars, wire, reset, sent, read,
                   received>>

\* An error of the FrameReceiver fails the session.
HandleFrameReady(s) ==
    /\ Receive(s, "FrameReady")
    /\ \/ /\ Set(received, s, Append(received[s], Head(inbox[s]).frame))
          /\ Set(inbox, s, Tail(inbox[s]))
          /\ UNCHANGED <<runVars, session, childExit, writerVars, readerVars, wire, reset, sent,
                         read>>
       \/ s \in faulty /\ Exit(s) /\ UNCHANGED received

SessionLoop(s) ==
    StopHandled(s) \/ HandleSupervisorEvt(s) \/ HandleSend(s) \/ HandleFrameReady(s)

-----------------------------------------------------------------------------
(* The writer.                                                             *)

\* A child ends: its half of the socket is dropped, its supervisor is told.
WriterExit(s) ==
    /\ Set(writer, s, "Gone")
    /\ Set(outbox, s, <<>>)
    /\ Set(childExit, s, TRUE)
    /\ UNCHANGED <<runVars, session, inbox, written, readerVars, wire, reset, sent, read, received>>

WriterStops(s) == writer[s] = "Stopping" /\ ~written[s] /\ WriterExit(s)

Room(s) == Len(wire[s]) < Capacity
Bytes(part, n) == [part |-> part, frame |-> n]

\* Mutant: the payload is written along with the length, and once more.
PutBoth(s, part) == Set(wire, s, wire[s] \o <<Bytes(part, Head(outbox[s])),
                                               Bytes("Payload", Head(outbox[s]))>>)

Put(s, part) == Set(wire, s, Append(wire[s], Bytes(part, Head(outbox[s]))))

\* writable and write_u64.  A failed write_u64 is only logged: the frame is
\* skipped and the writer stays; a failed wait for writability fails the writer.
WriteLength(s) ==
    /\ writer[s] = "Running" /\ ~written[s] /\ outbox[s] # <<>>
    /\ \/ /\ reset[s] = "No" /\ Room(s)
          /\ Put(s, "Length")
          /\ Set(written, s, TRUE)
          /\ UNCHANGED <<sessionVars, writer, outbox>>
       \/ /\ reset[s] # "No"
          /\ Set(outbox, s, Tail(outbox[s]))
          /\ UNCHANGED <<sessionVars, writer, written, wire>>
    /\ UNCHANGED <<runVars, readerVars, reset, sent, read, received>>

WriterFails(s) ==
    /\ writer[s] = "Running" /\ ~written[s] /\ outbox[s] # <<>> /\ reset[s] # "No"
    /\ WriterExit(s)

\* write_all and flush.  A failed write_all stops the writer.
WritePayload(s) ==
    /\ writer[s] # "Gone" /\ written[s]
    /\ \/ reset[s] = "No" /\ Head(outbox[s]) \in Empty /\ UNCHANGED <<writer, wire>>
       \/ reset[s] = "No" /\ Head(outbox[s]) \notin Empty /\ Room(s) /\ Put(s, "Payload")
          /\ UNCHANGED writer
       \/ reset[s] # "No" /\ Set(writer, s, "Stopping") /\ UNCHANGED wire
    /\ Set(outbox, s, Tail(outbox[s])) /\ Set(written, s, FALSE)
    /\ UNCHANGED <<runVars, sessionVars, readerVars, reset, sent, read, received>>

WriterLoop(s) == WriterStops(s) \/ WriteLength(s) \/ WriterFails(s) \/ WritePayload(s)

-----------------------------------------------------------------------------
(* The reader.                                                             *)

ReaderStops(s) ==
    /\ reader[s] = "Stopping" /\ ~busy[s]
    /\ Set(reader, s, "Gone")
    /\ Set(childExit, s, TRUE)
    /\ UNCHANGED <<runVars, session, inbox, writerVars, reading, busy, wire, reset, sent, read, received>>

\* The reader takes its message; from here on a stop has to wait for the socket.
Begin(s) ==
    /\ reader[s] = "Running" /\ ~busy[s]
    /\ Set(busy, s, TRUE)
    /\ UNCHANGED <<runVars, sessionVars, writerVars, reader, reading, wire, reset, sent, read, received>>

Incoming(s) == wire[Peer(s)]
Consume(s) == Set(wire, Peer(s), Tail(Incoming(s)))

\* What the handler leaves behind: the next message of the reader.
Then(s, next) == Set(reading, s, next) /\ Set(busy, s, FALSE)

\* The first bytes to come are taken for a length.
ReadLength(s) ==
    /\ reader[s] # "Gone" /\ busy[s] /\ reading[s] = 0
    /\ Incoming(s) # <<>>
    /\ Consume(s)
    /\ Then(s, Head(Incoming(s)).frame)
    /\ UNCHANGED <<runVars, sessionVars, writerVars, reader, reset, sent, read, received>>

\* Mutant: after a frame the reader reads a frame of the same length.
NextAgain(s) == reading[s]

\* After a frame, and after an error, the reader waits for the next frame.
NextMessage(s) == 0

\* What comes next is taken for the payload: a frame, or 0 for a mangled one.
FrameRead(s) ==
    IF reading[s] \in Empty \/ Head(Incoming(s)) = Bytes("Payload", reading[s])
    THEN reading[s] ELSE 0

\* FrameReady is cast to the session.  An empty payload waits for nothing: the
\* socket still counts as readable after the length.
ReadPayload(s) ==
    /\ reader[s] # "Gone" /\ busy[s] /\ reading[s] # 0
    /\ \/ reading[s] \in Empty /\ UNCHANGED wire
       \/ reading[s] \notin Empty /\ Incoming(s) # <<>> /\ Consume(s)
    /\ Set(inbox, s, Append(inbox[s], [type |-> "FrameReady", frame |-> FrameRead(s)]))
    /\ Set(read, s, read[s] + 1)
    /\ Then(s, NextMessage(s))
    /\ UNCHANGED <<runVars, session, childExit, writerVars, reader, reset, sent, received>>

\* Whether the handler waits for bytes.
Awaiting(s) == reader[s] # "Gone" /\ busy[s] /\ reading[s] \notin Empty /\ Incoming(s) = <<>>

\* Mutant: the end of the stream is taken for one of the other errors.
StopAtEofNot(s) == UNCHANGED reader

\* EOF drops the read half and stops the reader, in either handler.
StopAtEof(s) == Set(reader, s, "Stopping")

ReadEof(s) ==
    /\ Awaiting(s) /\ reset[s] # "Fresh"
    /\ writer[Peer(s)] = "Gone" \/ reset[s] = "Seen"
    /\ StopAtEof(s)
    /\ Then(s, 0)
    /\ UNCHANGED <<runVars, sessionVars, writerVars, wire, reset, sent, read, received>>

\* Any other error is ignored, and the reader waits for a frame again.
ReadError(s) ==
    /\ Awaiting(s) /\ reset[s] = "Fresh"
    /\ Set(reset, s, "Seen")
    /\ Then(s, NextMessage(s))
    /\ UNCHANGED <<runVars, sessionVars, writerVars, reader, wire, sent, read, received>>

ReaderLoop(s) ==
    ReaderStops(s) \/ Begin(s) \/ ReadLength(s) \/ ReadPayload(s) \/ ReadEof(s) \/ ReadError(s)

-----------------------------------------------------------------------------
(* The network.                                                            *)

Closed(s) == writer[s] = "Gone" /\ reader[s] = "Gone"

\* Data that nobody will read resets the peer, and cuts off what was under way to it.
Reset(s) ==
    /\ Closed(s) /\ wire[Peer(s)] # <<>> /\ reset[Peer(s)] = "No"
    /\ Set(reset, Peer(s), "Fresh")
    /\ \E n \in 0 .. Len(wire[s]) :
          wire' = [wire EXCEPT ![s] = SubSeq(@, 1, n), ![Peer(s)] = <<>>]
    /\ UNCHANGED <<runVars, sessionVars, writerVars, readerVars, sent, read, received>>

-----------------------------------------------------------------------------
Next ==
    \E s \in Side :
        \/ CastSend(s) \/ StopSession(s)
        \/ SessionLoop(s) \/ WriterLoop(s) \/ ReaderLoop(s)
        \/ Reset(s)

\* The runtime runs the actors, the network moves data and resets; owners may be
\* idle for ever.
Fairness ==
    \A s \in Side :
        /\ WF_vars(SessionLoop(s)) /\ WF_vars(WriterLoop(s)) /\ WF_vars(ReaderLoop(s))
        /\ WF_vars(Reset(s))

Spec == Init /\ [][Next]_vars /\ Fairness

-----------------------------------------------------------------------------
(* Properties.                                                             *)

\* A FrameReceiver is given the frames the other owner sent: in order, each once,
\* none skipped and none made of the length of one and the payload of another, up
\* to the point where the connection ends, however it ends (session.rs:465).
FramesIntact ==
    \A s \in Side :
        /\ received[s] = [i \in 1 .. Len(received[s]) |-> i]
        /\ Len(received[s]) <= sent[Peer(s)]

\* Six actors, their ports and the two wires are one Connection: no frame is handed over
\* twice, out of turn or after the end of the session, and none after a frame that was
\* lost, whichever side ends first (session.rs:175 frame_ready).
TheConnection == INSTANCE Connection WITH open <- {s \in Side : Alive(s)}

ImplementsConnection == TheConnection!Spec

\* session.rs:196: if a reader or a writer exits for any reason, all actors exit;
\* and the end of one session ends the other one.
AllExit ==
    \A s \in Side :
        (writer[s] = "Gone" \/ reader[s] = "Gone")
            ~> \A t \in Side : session[t] = "Down" /\ Closed(t)

\* While nobody stops and nothing fails, every frame arrives, in both directions
\* at once and through a wire that holds less than is sent.
EveryFrameArrives ==
    stopping = {} /\ faulty = {} =>
    \A s \in Side : \A n \in 1 .. Frames[s] :
        (sent[s] >= n) ~> Contains(received[Peer(s)], n)

\* session.rs:27 "Called when a frame is received by the TcpSession actor": a session
\* that ends because the connection did has handed over every frame that was read.
ReadFramesHandedOver ==
    \A s \in Side \ stopping : session[s] = "Down" => Len(received[s]) = read[s]
=============================================================================
