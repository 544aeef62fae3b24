--------------------------- MODULE TcpServerProofs ---------------------------
(***************************************************************************)
(* Proofs about TcpServer for every set of clients and ports and every     *)
(* number of errors of the operating system.                               *)
(***************************************************************************)
EXTENDS TcpServer, SequenceTheorems, TLAPS

\* What may end the listener.
Clash == \E i, j \in DOMAIN accepted : i # j /\ port[accepted[i]] = port[accepted[j]]
Reason == stopped \/ addrErrors > 0 \/ (watched /\ ~dog) \/ Clash

ErrorsAddUp == errors + addrErrors <= Errors

\* After a stop the handler that was running may take the client it waited for; the
\* next message is not taken, so that it is the only one.
StopIsHeeded == late <= 1 /\ (told = "No" \/ listener = "Accept" => late = 0)

\* The handler is busy with the client accepted last, which has no session yet: a
\* session, and one that has its port, is that of another one, accepted before.
SessionsWereAccepted ==
    /\ Busy => accepted # <<>>
    /\ \A c \in Client : session[c] # "None" =>
        \E i \in DOMAIN accepted : accepted[i] = c /\ (Busy => i # Len(accepted))

\* Whoever is told to end, was so for a reason.
EndsAreReasoned == told # "No" \/ server # "Running" \/ listener = "Gone" => Reason

ServerInv ==
    /\ TypeOK /\ ErrorsAddUp
    /\ KeepsAccepting /\ StopIsHeeded
    /\ SessionsWereAccepted /\ EndsAreReasoned

-----------------------------------------------------------------------------

LEMMA InitInv == ASSUME TcpServerAssumption, Init PROVE ServerInv
<1>1. TypeOK
  <2>1. backlog \in Seq(Client) /\ accepted \in Seq(Client)
    BY EmptySeq DEF Init
  <2>2. stallers \subseteq Client
    BY DEF Init
  <2>3. /\ inbox \in 0 .. 1 /\ late \in Nat
        /\ errors \in 0 .. Errors /\ addrErrors \in 0 .. Errors
    BY DEF Init, TcpServerAssumption
  <2>4. /\ session \in [Client -> {"None", "Running", "Gone"}]
        /\ stream \subseteq {c \in Client : session[c] # "Gone"}
        /\ registered \subseteq Client /\ here \subseteq Client
    BY DEF Init
  <2>5. tls \in BOOLEAN /\ watched \in BOOLEAN /\ dog \in BOOLEAN /\ stopped \in BOOLEAN
    BY Zenon DEF Init
  <2>. QED BY <2>1, <2>2, <2>3, <2>4, <2>5 DEF Init, TypeOK
<1>2. SessionsWereAccepted /\ EndsAreReasoned
  BY DEF Init, SessionsWereAccepted, Busy, Running, EndsAreReasoned
<1>3. ErrorsAddUp /\ KeepsAccepting /\ StopIsHeeded
  BY DEF Init, TcpServerAssumption, ErrorsAddUp, KeepsAccepting, StopIsHeeded
<1>. QED BY <1>1, <1>2, <1>3 DEF ServerInv

\* The clients, the server and the watchdog leave the listener's handler alone.
LEMMA OutsideInv ==
    ASSUME ServerInv,
           \/ \E c \in Client : Connect(c) \/ Leaves(c)
           \/ StopServer \/ StopListener \/ WatchdogFails \/ ListenerLost \/ ServerExit
    PROVE  ServerInv'
<1> USE DEF ServerInv, config, listenerVars, sessionVars, Linked
<1>1. SessionsWereAccepted' /\ ErrorsAddUp' /\ KeepsAccepting'
  BY DEF Connect, Leaves, StopServer, StopListener, WatchdogFails, ListenerLost, ServerExit,
     SessionsWereAccepted, Busy, Running, ErrorsAddUp, KeepsAccepting
<1>2. StopIsHeeded'
  BY DEF Connect, Leaves, StopServer, StopListener, WatchdogFails, ListenerLost, ServerExit,
     StopIsHeeded
<1>3. EndsAreReasoned'
  BY DEF Connect, Leaves, StopServer, StopListener, WatchdogFails, ListenerLost, ServerExit,
     EndsAreReasoned, Reason, Clash
<1>4. TypeOK'
  <2>1. ASSUME NEW c \in Client, Connect(c) PROVE TypeOK'
    <3>1. backlog' \in Seq(Client)
      BY <2>1, AppendProperties DEF Connect, TypeOK
    <3>. QED BY <2>1, <3>1 DEF Connect, TypeOK
  <2>2. ASSUME NEW c \in Client, Leaves(c) PROVE TypeOK'
    BY <2>2 DEF Leaves, TypeOK
  <2>3. CASE StopServer \/ StopListener \/ WatchdogFails
    BY <2>3 DEF StopServer, StopListener, WatchdogFails, TypeOK
  <2>4. CASE ListenerLost \/ ServerExit
    BY <2>4 DEF ListenerLost, ServerExit, TypeOK
  <2>. QED BY <2>1, <2>2, <2>3, <2>4
<1>. QED BY <1>1, <1>2, <1>3, <1>4

\* What accept returns is one client more, behind those it returned before.
LEMMA AcceptInv == ASSUME TcpServerAssumption, ServerInv, AcceptReturns PROVE ServerInv'
<1> USE DEF ServerInv, config, listenerVars, sessionVars, Continue, Close, AcceptFails
<1>1. /\ UNCHANGED <<config, server, told, sessionVars, here, dog, stopped>>
      /\ listener = "Accept" /\ told # "Kill" /\ inbox = 0 /\ late = 0
  BY DEF AcceptReturns, InHandler, TypeOK, KeepsAccepting, StopIsHeeded
<1>2. CASE /\ errors > 0 /\ errors' = errors - 1 /\ AcceptFails
           /\ UNCHANGED <<backlog, accepted, addrErrors, late>>
  <2>1. TypeOK' /\ ErrorsAddUp' /\ KeepsAccepting' /\ StopIsHeeded'
    BY <1>1, <1>2 DEF TypeOK, ErrorsAddUp, KeepsAccepting, StopIsHeeded
  <2>2. SessionsWereAccepted' /\ EndsAreReasoned'
    BY <1>1, <1>2 DEF SessionsWereAccepted, Busy, Running, EndsAreReasoned, Reason, Clash
  <2>. QED BY <2>1, <2>2
<1>3. CASE /\ backlog # <<>>
           /\ accepted' = Append(accepted, Head(backlog))
           /\ late' = late + (IF told = "Stop" THEN 1 ELSE 0)
           /\ \/ /\ listener' = IF tls THEN "Handshake" ELSE "NewSession"
                 /\ backlog' = Tail(backlog)
                 /\ UNCHANGED <<inbox, addrErrors, errors>>
              \/ /\ errors > 0 /\ errors' = errors - 1 /\ addrErrors' = addrErrors + 1
                 /\ Close
  <2>1. /\ Head(backlog) \in Client /\ Tail(backlog) \in Seq(Client) /\ <<>> \in Seq(Client)
        /\ accepted \in Seq(Client) /\ accepted' \in Seq(Client)
        /\ Len(accepted) \in Nat /\ Len(accepted') = Len(accepted) + 1
        /\ DOMAIN accepted = 1 .. Len(accepted) /\ DOMAIN accepted' = 1 .. Len(accepted')
        /\ \A i \in DOMAIN accepted : accepted'[i] = accepted[i]
    BY <1>3, AppendProperties, HeadTailProperties, EmptySeq, LenProperties DEF TypeOK
  <2>2. accepted' # <<>>
    BY <2>1, EmptySeq
  <2>3. late' \in 0 .. 1 /\ (told = "No" => late' = 0)
    BY <1>1, <1>3
  <2>4. ErrorsAddUp' /\ errors' \in 0 .. Errors /\ addrErrors' \in 0 .. Errors
    BY <1>3, TcpServerAssumption DEF ErrorsAddUp, TypeOK
  <2>5. TypeOK'
    <3>1. listener' \in {"Idle", "Accept", "Handshake", "NewSession", "Gone"}
      BY <1>3
    <3>2. inbox' \in 0 .. 1 /\ late' \in Nat
      BY <1>1, <1>3, <2>3
    <3>3. backlog' \in Seq(Client)
      BY <1>3, <2>1
    <3>4. /\ (port \in [Client -> Port])'
          /\ (tls \in BOOLEAN /\ stallers \subseteq Client /\ watched \in BOOLEAN)'
          /\ (here \subseteq Client /\ dog \in BOOLEAN /\ stopped \in BOOLEAN)'
          /\ (server \in {"Running", "Stopping", "Down"} /\ told \in {"No", "Stop", "Kill"})'
      BY <1>1, Zenon DEF TypeOK
    <3>5. /\ (session \in [Client -> {"None", "Running", "Gone"}])'
          /\ (stream \subseteq {c \in Client : session[c] # "Gone"})'
          /\ (registered \subseteq Client)'
      BY <1>1, Zenon DEF TypeOK
    <3>. QED BY <2>1, <2>4, <3>1, <3>2, <3>3, <3>4, <3>5, Zenon DEF TypeOK
  <2>6. KeepsAccepting' /\ StopIsHeeded'
    BY <1>1, <1>3, <2>3 DEF KeepsAccepting, StopIsHeeded
  <2>7. SessionsWereAccepted'
    BY <1>1, <2>1, <2>2 DEF SessionsWereAccepted, Busy, Running
  <2>8. Clash => Clash'
    BY <1>1, <2>1 DEF Clash
  <2>9. EndsAreReasoned'
    BY <1>1, <1>3, <2>8 DEF EndsAreReasoned, Reason, TypeOK
  <2>. QED BY <2>4, <2>5, <2>6, <2>7, <2>9
<1>. QED BY <1>2, <1>3 DEF AcceptReturns

\* Nobody is accepted twice.
NoneTwice ==
    /\ \A i, j \in DOMAIN accepted : accepted[i] = accepted[j] => i = j
    /\ \A i, j \in DOMAIN backlog : backlog[i] = backlog[j] => i = j
    /\ \A i \in DOMAIN accepted, j \in DOMAIN backlog : accepted[i] # backlog[j]

LEMMA NoneTwiceStep == ASSUME ServerInv, NoneTwice, [Next]_vars PROVE NoneTwice'
<1>0. /\ backlog \in Seq(Client) /\ DOMAIN backlog = 1 .. Len(backlog) /\ Len(backlog) \in Nat
      /\ accepted \in Seq(Client) /\ DOMAIN accepted = 1 .. Len(accepted) /\ Len(accepted) \in Nat
  BY LenProperties DEF ServerInv, TypeOK
<1>1. CASE UNCHANGED <<backlog, accepted>>
  BY <1>1 DEF NoneTwice
<1>2. CASE UNCHANGED accepted /\ backlog' = <<>>
  BY <1>2, EmptySeq DEF NoneTwice
<1>3. ASSUME NEW c \in Client, Connect(c) PROVE NoneTwice'
  <2>1. /\ backlog' = Append(backlog, c) /\ UNCHANGED accepted
        /\ c \notin Range(accepted) /\ c \notin Range(backlog)
    BY <1>3 DEF Connect
  <2>2. /\ DOMAIN backlog' = 1 .. Len(backlog) + 1 /\ backlog'[Len(backlog) + 1] = c
        /\ \A i \in DOMAIN backlog : backlog'[i] = backlog[i]
    BY <1>0, <2>1, AppendProperties
  <2>3. /\ \A i \in DOMAIN accepted : accepted[i] # c
        /\ \A i \in DOMAIN backlog : backlog[i] # c
    BY <2>1 DEF Range
  <2>4. \A i \in DOMAIN backlog' : i \in DOMAIN backlog \/ i = Len(backlog) + 1
    BY <1>0, <2>2
  <2>5. \A i, j \in DOMAIN backlog' : backlog'[i] = backlog'[j] => i = j
    BY <2>2, <2>3, <2>4 DEF NoneTwice
  <2>6. \A i \in DOMAIN accepted, j \in DOMAIN backlog' : accepted[i] # backlog'[j]
    BY <2>2, <2>3, <2>4 DEF NoneTwice
  <2>. QED BY <2>1, <2>5, <2>6 DEF NoneTwice
<1>4. CASE /\ backlog # <<>> /\ accepted' = Append(accepted, Head(backlog))
           /\ backlog' = Tail(backlog) \/ backlog' = <<>>
  <2>1. /\ DOMAIN accepted' = 1 .. Len(accepted) + 1 /\ accepted'[Len(accepted) + 1] = backlog[1]
        /\ \A i \in DOMAIN accepted : accepted'[i] = accepted[i]
        /\ 1 \in DOMAIN backlog
    BY <1>0, <1>4, AppendProperties, HeadTailProperties, EmptySeq
  <2>2. \A i \in DOMAIN accepted' : i \in DOMAIN accepted \/ i = Len(accepted) + 1
    BY <1>0, <2>1
  <2>3. \A i, j \in DOMAIN accepted' : accepted'[i] = accepted'[j] => i = j
    BY <2>1, <2>2 DEF NoneTwice
  <2>4. \A j \in DOMAIN backlog' :
            j + 1 \in DOMAIN backlog /\ j + 1 # 1 /\ j \in Nat /\ backlog'[j] = backlog[j + 1]
    <3>1. CASE backlog' = <<>>
      BY <3>1, EmptySeq
    <3>2. CASE backlog' = Tail(backlog)
      <4>1. /\ Len(backlog') = Len(backlog) - 1 /\ backlog' \in Seq(Client)
            /\ \A j \in 1 .. Len(backlog') : backlog'[j] = backlog[j + 1]
        BY <1>0, <1>4, <3>2, HeadTailProperties
      <4>2. DOMAIN backlog' = 1 .. Len(backlog')
        BY <4>1, LenProperties
      <4>. QED BY <1>0, <4>1, <4>2
    <3>. QED BY <1>4, <3>1, <3>2
  <2>5. \A i, j \in DOMAIN backlog' : backlog'[i] = backlog'[j] => i = j
    <3> TAKE i, j \in DOMAIN backlog'
    <3> HAVE backlog'[i] = backlog'[j]
    <3>1. i + 1 = j + 1 /\ i \in Nat /\ j \in Nat
      BY <2>4 DEF NoneTwice
    <3>. QED BY <3>1
  <2>6. \A i \in DOMAIN accepted', j \in DOMAIN backlog' : accepted'[i] # backlog'[j]
    <3> TAKE i \in DOMAIN accepted', j \in DOMAIN backlog'
    <3>1. j + 1 \in DOMAIN backlog /\ j + 1 # 1 /\ backlog'[j] = backlog[j + 1]
      BY <2>4
    <3>2. CASE i \in DOMAIN accepted
      BY <2>1, <3>1, <3>2 DEF NoneTwice
    <3>3. CASE i = Len(accepted) + 1
      BY <2>1, <3>1, <3>3 DEF NoneTwice
    <3>. QED BY <2>2, <3>2, <3>3
  <2>. QED BY <2>3, <2>5, <2>6 DEF NoneTwice
<1>5. \/ \E c \in Client : Connect(c)
      \/ UNCHANGED <<backlog, accepted>> \/ (UNCHANGED accepted /\ backlog' = <<>>)
      \/ /\ backlog # <<>> /\ accepted' = Append(accepted, Head(backlog))
         /\ backlog' = Tail(backlog) \/ backlog' = <<>>
  <2>1. CASE AcceptReturns
    BY <2>1 DEF AcceptReturns, Close
  <2>2. CASE Take \/ Handshake \/ NewSession \/ ListenerEnds
    BY <2>2 DEF Take, Handshake, HandshakeFails, NewSession, Refused, Unguarded, ListenerEnds,
       Close
  <2>3. CASE \/ \E c \in Client : Leaves(c)
             \/ StopServer \/ StopListener \/ WatchdogFails \/ ListenerLost \/ ServerExit
    BY <2>3 DEF Leaves, StopServer, StopListener, WatchdogFails, ListenerLost, ServerExit,
       listenerVars
  <2>4. CASE \E c \in Client : FrameReady(c) \/ StreamEnds(c) \/ StreamLost(c) \/ TimesOut(c)
    BY <2>4 DEF FrameReady, StreamEnds, StreamLost, TimesOut, listenerVars
  <2>. QED BY <2>1, <2>2, <2>3, <2>4 DEF Next, vars, listenerVars
<1>. QED BY <1>1, <1>2, <1>3, <1>4, <1>5

\* The handler is busy with a client that has no session and does not wait any more.
LEMMA AtTheDoor ==
    ASSUME ServerInv, NoneTwice, Busy
    PROVE  /\ Current \in Client /\ session[Current] = "None"
           /\ Current \in Range(accepted) /\ Current \notin Range(backlog)
<1>1. Len(accepted) \in DOMAIN accepted /\ Current \in Client
  BY EmptySeq, LenProperties, ElementOfSeq DEF ServerInv, TypeOK, SessionsWereAccepted, Current
<1>2. Current \in Range(accepted) /\ Current \notin Range(backlog)
  BY <1>1 DEF Current, Range, NoneTwice
<1>3. session[Current] = "None"
  BY <1>1 DEF ServerInv, SessionsWereAccepted, NoneTwice, Current
<1>. QED BY <1>1, <1>2, <1>3

\* The rest of the listener: only a new session is refused for a reason of its own.
LEMMA ListenerInv ==
    ASSUME ServerInv, NoneTwice, Take \/ Handshake \/ NewSession \/ ListenerEnds
    PROVE  ServerInv'
<1> USE DEF ServerInv, config, listenerVars, sessionVars, Continue, Close, HandshakeFails,
            InHandler
<1>1. <<>> \in Seq(Client)
  BY EmptySeq
<1>2. CASE Take
  BY <1>2 DEF Take, TypeOK, ErrorsAddUp, KeepsAccepting, StopIsHeeded, SessionsWereAccepted,
     Busy, Running, EndsAreReasoned, Reason, Clash
<1>3. CASE Handshake
  BY <1>3 DEF Handshake, TypeOK, ErrorsAddUp, KeepsAccepting, StopIsHeeded,
     SessionsWereAccepted, Busy, Running, EndsAreReasoned, Reason, Clash
<1>4. CASE ListenerEnds
  BY <1>1, <1>4 DEF ListenerEnds, TypeOK, ErrorsAddUp, KeepsAccepting, StopIsHeeded,
     SessionsWereAccepted, Busy, Running, EndsAreReasoned, Reason, Clash
<1>5. CASE NewSession
  <2>1. /\ listener = "NewSession" /\ accepted \in Seq(Client)
        /\ Len(accepted) \in DOMAIN accepted /\ Current \in Client
        /\ session[Current] = "None"
        /\ UNCHANGED <<config, server, told, accepted, addrErrors, errors, late, here, dog,
                       stopped>>
    BY <1>5, EmptySeq, LenProperties, AtTheDoor
    DEF NewSession, TypeOK, SessionsWereAccepted, Busy
  <2>2. CASE /\ NameTaken(Current) \/ (watched /\ ~dog)
             /\ Close /\ UNCHANGED <<session, registered>>
             /\ stream' \in {stream, stream \cup {Current}}
    <3>1. NameTaken(Current) => Clash
      BY <2>1 DEF NameTaken, Running, Clash, SessionsWereAccepted, Busy, Current
    <3>2. EndsAreReasoned'
      BY <2>1, <2>2, <3>1 DEF EndsAreReasoned, Reason, Clash
    <3>3. TypeOK' /\ ErrorsAddUp' /\ KeepsAccepting' /\ StopIsHeeded'
      BY <1>1, <2>1, <2>2 DEF TypeOK, ErrorsAddUp, KeepsAccepting, StopIsHeeded
    <3>4. SessionsWereAccepted'
      BY <2>1, <2>2 DEF SessionsWereAccepted, Busy, Running
    <3>. QED BY <3>2, <3>3, <3>4
  <2>3. CASE /\ session' = [session EXCEPT ![Current] = "Running"]
             /\ stream' = stream \cup {Current} /\ registered' = Registered(Current)
             /\ Continue /\ UNCHANGED backlog
    <3>1. TypeOK' /\ ErrorsAddUp' /\ KeepsAccepting' /\ StopIsHeeded'
      BY <2>1, <2>3 DEF Registered, TypeOK, ErrorsAddUp, KeepsAccepting, StopIsHeeded
    <3>2. SessionsWereAccepted'
      BY <2>1, <2>3 DEF TypeOK, SessionsWereAccepted, Busy, Running, Current
    <3>3. EndsAreReasoned'
      BY <2>1, <2>3 DEF EndsAreReasoned, Reason, Clash
    <3>. QED BY <3>1, <3>2, <3>3
  <2>. QED BY <1>5, <2>2, <2>3 DEF NewSession, Refused, Unguarded
<1>. QED BY <1>2, <1>3, <1>4, <1>5

LEMMA SessionInv ==
    ASSUME ServerInv, NEW c \in Client,
           FrameReady(c) \/ StreamEnds(c) \/ StreamLost(c) \/ TimesOut(c)
    PROVE  ServerInv'
<1> USE DEF FrameReady, StreamEnds, StreamBreaks, StreamLost, TimesOut, End, ServerInv, config,
            listenerVars
<1>1. TypeOK'
  BY DEF TypeOK, Running
<1>2. SessionsWereAccepted'
  BY DEF TypeOK, SessionsWereAccepted, Busy, Running
<1>3. ErrorsAddUp' /\ KeepsAccepting' /\ StopIsHeeded' /\ EndsAreReasoned'
  BY DEF ErrorsAddUp, KeepsAccepting, StopIsHeeded, EndsAreReasoned, Reason, Clash
<1>. QED BY <1>1, <1>2, <1>3

LEMMA ServerInvHolds == Spec => [](ServerInv /\ NoneTwice)
<1>1. Init => ServerInv /\ NoneTwice
  <2>1. Init => NoneTwice
    BY EmptySeq DEF Init, NoneTwice
  <2>. QED BY <2>1, InitInv, TcpServerAssumption
<1>2. ServerInv /\ NoneTwice /\ [Next]_vars => (ServerInv /\ NoneTwice)'
  <2>1. ASSUME ServerInv, UNCHANGED vars PROVE ServerInv'
    BY <2>1 DEF vars, config, listenerVars, sessionVars, ServerInv, TypeOK, ErrorsAddUp,
       KeepsAccepting, StopIsHeeded, SessionsWereAccepted, Busy, Running, EndsAreReasoned,
       Reason, Clash
  <2>. QED
    BY <2>1, OutsideInv, AcceptInv, ListenerInv, SessionInv, NoneTwiceStep, TcpServerAssumption
    DEF Next
<1>. QED BY <1>1, <1>2, PTL DEF Spec

\* The types.
THEOREM TypeCorrect == Spec => []TypeOK
BY ServerInvHolds, PTL DEF ServerInv

\* The listener has exactly one message, or is in its handler (accept).
THEOREM AcceptsForEver == Spec => []KeepsAccepting
BY ServerInvHolds, PTL DEF ServerInv

\* No client ends the server by itself: a refused session has a predecessor with the
\* same port (accept, new_session).
THEOREM NoClientEndsIt == Spec => []EndsForAReason
<1>1. ServerInv => EndsForAReason
  BY DEF ServerInv, EndsAreReasoned, Reason, Clash, EndsForAReason
<1>. QED BY <1>1, ServerInvHolds, PTL

-----------------------------------------------------------------------------
(* The server is a Reception.                                              *)

\* What the reception does not see.
Shown == <<port, listener # "Gone", told # "No", IF listener = "Gone" THEN 0 ELSE late,
           addrErrors > 0 \/ (watched /\ ~dog), backlog, Door, session>>

LEMMA ReceptionRests == ASSUME UNCHANGED Shown PROVE UNCHANGED TheReception!vars
BY DEF Shown, TheReception!vars, TheReception!rest

LEMMA OutsideIsReception ==
    ASSUME ServerInv, NoneTwice,
           \/ \E c \in Client : Connect(c) \/ Leaves(c)
           \/ StopServer \/ StopListener \/ WatchdogFails \/ ListenerLost \/ ServerExit
    PROVE  TheReception!Next \/ UNCHANGED TheReception!vars
<1> USE DEF config, listenerVars, sessionVars
<1>1. ASSUME NEW c \in Client, Connect(c) PROVE TheReception!Next
  <2>1. session[c] = "None"
    BY <1>1 DEF ServerInv, TypeOK, SessionsWereAccepted, Connect, Range
  <2>2. c \notin Range(Door)
    <3>1. CASE Busy
      <4>1. Door = <<Current>> /\ Range(<<Current>>) = {Current}
        BY <3>1 DEF Door, Range
      <4>. QED BY <1>1, <3>1, <4>1, AtTheDoor DEF Connect
    <3>2. CASE ~Busy
      <4>1. Door = <<>> /\ Range(<<>>) = {}
        BY <3>2 DEF Door, Range
      <4>. QED BY <4>1
    <3>. QED BY <3>1, <3>2
  <2>3. UNCHANGED Door
    BY <1>1 DEF Connect, Door, Busy, Current
  <2>4. UNCHANGED TheReception!rest
    BY <1>1 DEF Connect, TheReception!rest
  <2>5. TheReception!Join(c)
    BY <1>1, <2>1, <2>2, <2>3, <2>4 DEF Connect, Range, TheReception!Range, TheReception!Join
  <2>. QED BY <2>5 DEF TheReception!Next
<1>2. CASE StopServer \/ ListenerLost \/ \E c \in Client : Leaves(c)
  <2>1. UNCHANGED <<config, listenerVars, sessionVars, dog>>
    BY <1>2 DEF StopServer, ListenerLost, Leaves
  <2>2. UNCHANGED Shown
    BY <2>1 DEF Shown, Door, Busy, Current
  <2>. QED BY <2>2, ReceptionRests
<1>3. CASE StopListener \/ ServerExit
  <2>1. /\ told' # "No"
        /\ UNCHANGED <<port, listener, addrErrors, watched, dog, late, backlog, accepted, session>>
    BY <1>3 DEF StopListener, ServerExit, Linked
  <2>2. UNCHANGED Door
    BY <2>1 DEF Door, Busy, Current
  <2>3. TheReception!Ask
    BY <2>1, <2>2 DEF TheReception!Ask
  <2>. QED BY <2>3 DEF TheReception!Next
<1>4. CASE WatchdogFails
  <2>1. /\ watched' /\ ~dog'
        /\ UNCHANGED <<port, listener, told, late, backlog, accepted, session>>
    BY <1>4 DEF WatchdogFails
  <2>2. UNCHANGED Door
    BY <2>1 DEF Door, Busy, Current
  <2>3. TheReception!Break
    BY <2>1, <2>2 DEF TheReception!Break
  <2>. QED BY <2>3 DEF TheReception!Next
<1>. QED BY <1>1, <1>2, <1>3, <1>4

\* The listener closes for a reason the reception has.
LEMMA CloseIsClose ==
    ASSUME listener # "Gone", Close, UNCHANGED <<port, told, session, watched, dog>>,
           addrErrors > 0 => addrErrors' > 0,
           \/ told # "No" \/ addrErrors' > 0 \/ (watched /\ ~dog)
           \/ (Busy /\ Current \in Client /\ NameTaken(Current))
    PROVE  TheReception!Close
<1>1. listener' = "Gone" /\ backlog' = <<>>
  BY DEF Close
<1>2. Door' = <<>>
  BY <1>1 DEF Door, Busy
<1>3. Busy /\ Current \in Client /\ NameTaken(Current) =>
        \E c \in Client : Door = <<c>> /\ TheReception!PortTaken(c)
  BY DEF Door, NameTaken, Running, TheReception!PortTaken
<1>. QED BY <1>1, <1>2, <1>3 DEF TheReception!Close

LEMMA AcceptIsReception ==
    ASSUME ServerInv, AcceptReturns PROVE TheReception!Next \/ UNCHANGED TheReception!vars
<1> USE DEF config, listenerVars, sessionVars
<1>1. /\ UNCHANGED <<port, told, session, watched, dog>>
      /\ listener = "Accept" /\ told # "Kill" /\ late = 0 /\ Door = <<>>
  BY DEF AcceptReturns, InHandler, ServerInv, StopIsHeeded, Door, Busy
<1>2. CASE AcceptFails /\ UNCHANGED <<backlog, accepted, addrErrors, late>>
  <2>1. listener' = "Idle" /\ Door' = <<>>
    BY <1>2 DEF AcceptFails, Continue, Door, Busy
  <2>2. UNCHANGED Shown
    BY <1>1, <1>2, <2>1 DEF Shown
  <2>. QED BY <2>2, ReceptionRests
<1>3. CASE Close /\ addrErrors' = addrErrors + 1
  <2>1. addrErrors' > 0
    BY <1>3 DEF ServerInv, TypeOK
  <2>2. TheReception!Close
    BY <1>1, <1>3, <2>1, CloseIsClose
  <2>. QED BY <2>2 DEF TheReception!Next
<1>4. CASE /\ backlog # <<>> /\ accepted' = Append(accepted, Head(backlog))
           /\ late' = late + (IF told = "Stop" THEN 1 ELSE 0)
           /\ listener' = IF tls THEN "Handshake" ELSE "NewSession"
           /\ backlog' = Tail(backlog) /\ UNCHANGED addrErrors
  <2>1. accepted \in Seq(Client) /\ Head(backlog) \in Client
    BY <1>4, HeadTailProperties DEF ServerInv, TypeOK
  <2>2. accepted'[Len(accepted')] = Head(backlog)
    BY <1>4, <2>1, AppendProperties, LenProperties
  <2>3. Busy' /\ listener' # "Gone"
    BY <1>4 DEF Busy
  <2>4. Door' = <<Head(backlog)>>
    BY <2>2, <2>3 DEF Door, Current
  <2>5. told \in {"No", "Stop"} /\ late' = IF told # "No" THEN late + 1 ELSE late
    BY <1>1, <1>4 DEF ServerInv, TypeOK
  <2>6. TheReception!Admit
    BY <1>1, <1>4, <2>3, <2>4, <2>5 DEF TheReception!Admit
  <2>. QED BY <2>6 DEF TheReception!Next
<1>. QED BY <1>2, <1>3, <1>4 DEF AcceptReturns

LEMMA ListenerIsReception ==
    ASSUME ServerInv, NoneTwice, Take \/ Handshake \/ NewSession \/ ListenerEnds
    PROVE  TheReception!Next \/ UNCHANGED TheReception!vars
<1> USE DEF config, listenerVars, sessionVars
<1>1. CASE Take
  <2>1. /\ listener = "Idle" /\ listener' = "Accept"
        /\ UNCHANGED <<port, told, session, watched, dog, late, addrErrors, backlog>>
    BY <1>1 DEF Take
  <2>2. Door = <<>> /\ Door' = <<>>
    BY <2>1 DEF Door, Busy
  <2>. QED BY <2>1, <2>2, ReceptionRests DEF Shown
<1>2. CASE Handshake
  <2>1. /\ listener = "Handshake" /\ listener' \in {"NewSession", "Idle"}
        /\ UNCHANGED <<port, told, session, watched, dog, late, addrErrors, backlog, accepted>>
    BY <1>2 DEF Handshake, HandshakeFails, Continue, InHandler
  <2>2. Door = <<Current>> /\ <<Current>> # <<>>
    BY <2>1 DEF Door, Busy
  <2>3. CASE listener' = "NewSession"
    <3>1. Door' = Door
      BY <2>1, <2>3 DEF Door, Busy, Current
    <3>. QED BY <2>1, <2>3, <3>1, ReceptionRests DEF Shown
  <2>4. CASE listener' = "Idle"
    <3>1. Door' = <<>>
      BY <2>4 DEF Door, Busy
    <3>2. UNCHANGED TheReception!rest
      BY <2>1, <2>4 DEF TheReception!rest
    <3>3. TheReception!TurnAway
      BY <2>1, <2>2, <3>1, <3>2 DEF TheReception!TurnAway
    <3>. QED BY <3>3 DEF TheReception!Next
  <2>. QED BY <2>1, <2>3, <2>4
<1>3. CASE ListenerEnds
  <2>1. /\ listener # "Gone" /\ told # "No" /\ Close
        /\ UNCHANGED <<port, told, session, watched, dog, addrErrors>>
    BY <1>3 DEF ListenerEnds
  <2>2. TheReception!Close
    BY <2>1, CloseIsClose
  <2>. QED BY <2>2 DEF TheReception!Next
<1>4. CASE NewSession
  <2>1. /\ listener = "NewSession" /\ Busy /\ Door = <<Current>>
        /\ UNCHANGED <<port, told, watched, dog, late, addrErrors, accepted>>
    BY <1>4 DEF NewSession, InHandler, Busy, Door
  <2>2. Current \in Client /\ session[Current] = "None"
    BY <2>1, AtTheDoor
  <2>3. CASE NameTaken(Current) \/ (watched /\ ~dog)
    <3>1. Close /\ UNCHANGED session
      BY <1>4, <2>3 DEF NewSession, Refused, Unguarded
    <3>2. TheReception!Close
      BY <2>1, <2>2, <2>3, <3>1, CloseIsClose
    <3>. QED BY <3>2 DEF TheReception!Next
  <2>4. CASE ~NameTaken(Current) /\ ~(watched /\ ~dog)
    <3>1. /\ session' = [session EXCEPT ![Current] = "Running"]
          /\ listener' = "Idle" /\ UNCHANGED backlog
      BY <1>4, <2>4 DEF NewSession, Continue
    <3>2. Door' = <<>>
      BY <3>1 DEF Door, Busy
    <3>3. UNCHANGED TheReception!rest
      BY <2>1, <3>1 DEF TheReception!rest
    <3>4. ~TheReception!PortTaken(Current)
      BY <2>4 DEF NameTaken, Running, TheReception!PortTaken
    <3>5. TheReception!Serve(Current)
      BY <2>1, <2>2, <3>1, <3>2, <3>3, <3>4 DEF TheReception!Serve
    <3>. QED BY <2>2, <3>5 DEF TheReception!Next
  <2>. QED BY <2>3, <2>4
<1>. QED BY <1>1, <1>2, <1>3, <1>4

LEMMA SessionIsReception ==
    ASSUME NEW c \in Client, FrameReady(c) \/ StreamEnds(c) \/ StreamLost(c) \/ TimesOut(c)
    PROVE  TheReception!Next \/ UNCHANGED TheReception!vars
<1>1. UNCHANGED <<config, listenerVars, dog>> /\ (UNCHANGED session \/ (Running(c) /\ End(c)))
  BY DEF FrameReady, StreamEnds, StreamLost, TimesOut
<1>2. UNCHANGED Door /\ UNCHANGED TheReception!rest /\ UNCHANGED backlog
  BY <1>1 DEF config, listenerVars, Door, Busy, Current, TheReception!rest
<1>3. CASE UNCHANGED session
  BY <1>2, <1>3 DEF TheReception!vars
<1>4. CASE Running(c) /\ End(c)
  <2>1. TheReception!End(c)
    BY <1>2, <1>4 DEF Running, End, TheReception!End
  <2>. QED BY <2>1 DEF TheReception!Next
<1>. QED BY <1>1, <1>3, <1>4

\* The server implements the abstract reception.
THEOREM ServerIsReception == Spec => ImplementsReception
<1>1. Init => TheReception!Init
  <2> SUFFICES ASSUME Init PROVE TheReception!Init
    OBVIOUS
  <2>1. backlog = <<>> /\ Door = <<>>
    BY DEF Init, Door, Busy
  <2>. QED BY <2>1 DEF Init, TheReception!Init
<1>2. ServerInv /\ NoneTwice /\ [Next]_vars => [TheReception!Next]_(TheReception!vars)
  <2> SUFFICES ASSUME ServerInv, NoneTwice, [Next]_vars
               PROVE  [TheReception!Next]_(TheReception!vars)
    OBVIOUS
  <2>1. CASE UNCHANGED vars
    <3>1. UNCHANGED Shown
      BY <2>1 DEF vars, config, listenerVars, sessionVars, Shown, Door, Busy, Current
    <3>. QED BY <3>1, ReceptionRests
  <2>2. CASE Next
    BY <2>2, OutsideIsReception, AcceptIsReception, ListenerIsReception, SessionIsReception
    DEF Next
  <2>. QED BY <2>1, <2>2
<1>. QED BY <1>1, <1>2, ServerInvHolds, PTL DEF Spec, ImplementsReception, TheReception!Spec
=============================================================================
