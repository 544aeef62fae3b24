------------------------------ MODULE TcpServer ------------------------------
(***************************************************************************)
(* The accept loop of the Listener (net/tcp/listener.rs) in the server of  *)
(* examples/tcp.rs: MyServer, its linked Listener, and a MySession with a  *)
(* linked TcpSession for every client, registered with the watchdog when   *)
(* the server is told to use it.  The loop is a ListenerMessage that the   *)
(* handler sends itself, and everything a client has to do to get in       *)
(* is awaited inside that handler.                                         *)
(*                                                                         *)
(* Of a TcpSession, the subject of the module TcpSession, only its end is  *)
(* here, of the watchdog that it may stop a session and may fail.  Time    *)
(* is left out: what a session's registration is for happens at any time.  *)
(* The example takes Raw connections; the listener can take either.        *)
(***************************************************************************)
EXTENDS Naturals, Sequences, Functions

CONSTANTS
    Client,  \* the connections that may be made
    Port,    \* the ports they may come from
    Errors   \* bound: the times the operating system fails accept or local_addr

ASSUME TcpServerAssumption == Port # {} /\ Errors \in Nat

VARIABLES
    tls,        \* whether the encryption mode is Tls
    port,       \* the port each client comes from
    stallers,   \* the clients that never finish a handshake
    watched,    \* MyServerArgs::watchdog
    server,     \* "Running", "Stopping" or "Down"
    listener,   \* "Idle", in its handler at "Accept", "Handshake" or "NewSession", or "Gone"
    inbox,      \* how many ListenerMessages it has
    told,       \* whether it is told to end: "No", "Stop" or "Kill"
    backlog,    \* connections the operating system holds for accept
    here,       \* the clients that have connected and not left
    accepted,   \* those that accept has returned, in that order
    session,    \* the MySession of each: "None", "Running" or "Gone"
    stream,     \* the clients whose TcpSession lives
    dog,        \* whether the watchdog lives
    registered, \* the sessions it guards
    addrErrors, \* history: how often local_addr failed
    errors,     \* errors still to happen
    stopped,    \* history: whether anybody stopped the server or the listener
    late        \* history: the clients accepted after a stop of the listener

config == <<tls, port, stallers, watched>>
listenerVars == <<listener, inbox, told, backlog, accepted, addrErrors, errors, late>>
sessionVars == <<session, stream, registered>>
vars == <<config, server, listenerVars, sessionVars, here, dog, stopped>>

TypeOK ==
    /\ port \in [Client -> Port]
    /\ tls \in BOOLEAN /\ stallers \subseteq Client /\ watched \in BOOLEAN
    /\ server \in {"Running", "Stopping", "Down"}
    /\ listener \in {"Idle", "Accept", "Handshake", "NewSession", "Gone"}
    /\ told \in {"No", "Stop", "Kill"} /\ inbox \in 0 .. 1
    /\ backlog \in Seq(Client) /\ accepted \in Seq(Client)
    /\ here \subseteq Client /\ dog \in BOOLEAN /\ stopped \in BOOLEAN
    /\ session \in [Client -> {"None", "Running", "Gone"}]
    /\ stream \subseteq {c \in Client : session[c] # "Gone"}
    /\ registered \subseteq Client
    /\ errors \in 0 .. Errors /\ addrErrors \in 0 .. Errors /\ late \in Nat

Init ==
    /\ port \in [Client -> Port]
    /\ tls \in BOOLEAN /\ watched \in BOOLEAN
    /\ stallers \in (IF tls THEN SUBSET Client ELSE {{}})
    /\ server = "Running" /\ listener = "Idle" /\ inbox = 1 /\ told = "No"
    /\ backlog = <<>> /\ accepted = <<>> /\ here = {}
    /\ session = [c \in Client |-> "None"] /\ stream = {} /\ registered = {}
    /\ dog = TRUE /\ addrErrors = 0 /\ errors = Errors /\ stopped = FALSE /\ late = 0

Running(c) == session[c] = "Running"
Busy == listener \in {"Handshake", "NewSession"}
Current == accepted[Len(accepted)]   \* whom the handler is busy with

-----------------------------------------------------------------------------
(* The clients, the owner and the watchdog.                                *)

Connect(c) ==
    /\ listener # "Gone"
    /\ c \notin here \cup Range(accepted) \cup Range(backlog)
    /\ here' = here \cup {c} /\ backlog' = Append(backlog, c)
    /\ UNCHANGED <<config, server, listener, inbox, told, accepted, addrErrors, errors, late,
                   sessionVars, dog, stopped>>

Leaves(c) ==
    /\ c \in here /\ here' = here \ {c}
    /\ UNCHANGED <<config, server, listenerVars, sessionVars, dog, stopped>>

\* Ctrl-C, or whoever finds the listener by its name.
StopServer ==
    /\ server = "Running" /\ server' = "Stopping" /\ stopped' = TRUE
    /\ UNCHANGED <<config, listenerVars, sessionVars, here, dog>>

StopListener ==
    /\ listener # "Gone" /\ told = "No" /\ told' = "Stop" /\ stopped' = TRUE
    /\ UNCHANGED <<config, server, listener, inbox, backlog, accepted, addrErrors, errors, late,
                   sessionVars, here, dog>>

WatchdogFails ==
    /\ watched /\ dog /\ dog' = FALSE
    /\ UNCHANGED <<config, server, listenerVars, sessionVars, here, stopped>>

-----------------------------------------------------------------------------
(* The server: the default handle_supervisor_evt stops it with its child,  *)
(* and its exit kills the child.                                           *)

\* Mutant: the listener is spawned without a link.
Unlinked == FALSE

Linked == TRUE

ListenerLost ==
    /\ Linked /\ server = "Running" /\ listener = "Gone" /\ server' = "Stopping"
    /\ UNCHANGED <<config, listenerVars, sessionVars, here, dog, stopped>>

ServerExit ==
    /\ server = "Stopping" /\ server' = "Down"
    /\ told' = IF Linked THEN "Kill" ELSE told
    /\ UNCHANGED <<config, listener, inbox, backlog, accepted, addrErrors, errors, late,
                   sessionVars, here, dog, stopped>>

-----------------------------------------------------------------------------
(* The listener.                                                           *)

InHandler(pc) == listener = pc /\ told # "Kill"

Take ==
    /\ listener = "Idle" /\ told = "No" /\ inbox > 0
    /\ listener' = "Accept" /\ inbox' = inbox - 1
    /\ UNCHANGED <<config, server, told, backlog, accepted, addrErrors, errors, late,
                   sessionVars, here, dog, stopped>>

\* Mutant: the handler has the loop inside.
ContinueInside == listener' = "Accept" /\ UNCHANGED inbox

\* Another message to itself, whatever became of this client.
Continue == listener' = "Idle" /\ inbox' = inbox + 1

\* With the state goes the socket, and whoever waits to be accepted.
Close == listener' = "Gone" /\ inbox' = 0 /\ backlog' = <<>>

\* Mutant: an error of accept is the end of the loop.
GivesUp == listener' = "Idle" /\ UNCHANGED inbox

AcceptFails == Continue

AcceptReturns ==
    /\ InHandler("Accept")
    /\ \/ /\ errors > 0 /\ errors' = errors - 1
          /\ AcceptFails
          /\ UNCHANGED <<backlog, accepted, addrErrors, late>>
       \/ /\ backlog # <<>>
          /\ accepted' = Append(accepted, Head(backlog))
          /\ late' = late + (IF told = "Stop" THEN 1 ELSE 0)
          /\ \/ /\ listener' = IF tls THEN "Handshake" ELSE "NewSession"
                /\ backlog' = Tail(backlog)
                /\ UNCHANGED <<inbox, addrErrors, errors>>
             \/ /\ errors > 0 /\ errors' = errors - 1 /\ addrErrors' = addrErrors + 1
                /\ Close
    /\ UNCHANGED <<config, server, told, sessionVars, here, dog, stopped>>

\* Mutant: an error of the handshake is the handler's.
HandshakeErr == Close

HandshakeFails == Continue /\ UNCHANGED backlog

\* A handshake ends when the client does its part, or leaves.
Handshake ==
    /\ InHandler("Handshake")
    /\ Current \in stallers => Current \notin here
    /\ \/ /\ Current \in here
          /\ listener' = "NewSession" /\ UNCHANGED <<inbox, backlog>>
       \/ HandshakeFails
    /\ UNCHANGED <<config, server, told, accepted, addrErrors, errors, late, sessionVars,
                   here, dog, stopped>>

\* Mutant: the name goes with the TcpSession.
NameTakenByStream(c) == \E d \in stream : port[d] = port[c]

NameTaken(c) == \E d \in Client : Running(d) /\ port[d] = port[c]

\* Mutant: a session is registered with its first frame.
RegisteredLater(c) == registered

Registered(c) == IF watched THEN registered \cup {c} ELSE registered

\* The name is taken: the MySession is not even spawned.
Refused == Close /\ UNCHANGED sessionVars

\* The watchdog is gone: pre_start fails after it has spawned the TcpSession, which the
\* runtime may or may not take along.
Unguarded ==
    Close /\ stream' \in {stream, stream \cup {Current}} /\ UNCHANGED <<session, registered>>

\* The session has a name of its own in the registry, and starts with its TcpSession
\* and its registration; an error of any is the handler's.
NewSession ==
    /\ InHandler("NewSession")
    /\ \/ NameTaken(Current) /\ Refused
       \/ ~NameTaken(Current) /\ watched /\ ~dog /\ Unguarded
       \/ /\ ~NameTaken(Current) /\ (watched => dog)
          /\ session' = [session EXCEPT ![Current] = "Running"]
          /\ stream' = stream \cup {Current}
          /\ registered' = Registered(Current)
          /\ Continue /\ UNCHANGED backlog
    /\ UNCHANGED <<config, server, told, accepted, addrErrors, errors, late,
                   here, dog, stopped>>

\* A stop is served between two messages, a kill also in the middle of a handler.
ListenerEnds ==
    /\ listener # "Gone"
    /\ told = "Kill" \/ (told = "Stop" /\ listener = "Idle")
    /\ Close
    /\ UNCHANGED <<config, server, told, accepted, addrErrors, errors, late, sessionVars,
                   here, dog, stopped>>

-----------------------------------------------------------------------------
(* A session.                                                              *)

\* Mutant: the TcpSession is spawned without a link.
EndUnlinked(c) ==
    /\ session' = [session EXCEPT ![c] = "Gone"]
    /\ UNCHANGED stream

\* Its TcpSession is killed, its queue dropped; the watchdog finds out by itself.
End(c) ==
    /\ session' = [session EXCEPT ![c] = "Gone"]
    /\ stream' = stream \ {c}

\* A ping that fails, text that is not UTF-8 and a TcpSession that is gone fail the
\* session; any other frame has its reply, and changes nothing here.
FrameReady(c) ==
    /\ Running(c) /\ End(c)
    /\ UNCHANGED <<config, server, listenerVars, registered, here, dog, stopped>>

\* Mutant: a TcpSession outlives its reader.
StreamStays(c) == c \in stream \cap here /\ stream' = stream \ {c}

StreamBreaks(c) == c \in stream /\ stream' = stream \ {c}

StreamEnds(c) ==
    /\ StreamBreaks(c)
    /\ UNCHANGED <<config, server, listenerVars, session, registered, here, dog,
                   stopped>>

\* The default handle_supervisor_evt once more.
StreamLost(c) ==
    /\ Running(c) /\ c \notin stream /\ End(c)
    /\ UNCHANGED <<config, server, listenerVars, registered, here, dog, stopped>>

\* TimeoutStrategy::Stop.
TimesOut(c) ==
    /\ dog /\ c \in registered /\ registered' = registered \ {c}
    /\ IF Running(c) THEN End(c) ELSE UNCHANGED <<session, stream>>
    /\ UNCHANGED <<config, server, listenerVars, here, dog, stopped>>

Next ==
    \/ \E c \in Client : Connect(c) \/ Leaves(c)
    \/ StopServer \/ StopListener \/ WatchdogFails \/ ListenerLost \/ ServerExit
    \/ Take \/ AcceptReturns \/ Handshake \/ NewSession \/ ListenerEnds
    \/ \E c \in Client : FrameReady(c) \/ StreamEnds(c) \/ StreamLost(c) \/ TimesOut(c)

\* The runtime runs every actor, a reader sees its client leave and a timer fires;
\* accept returns when somebody waits, and a handshake ends unless its client stalls.
Fairness ==
    /\ WF_vars(ListenerLost \/ ServerExit)
    /\ WF_vars(Take) /\ WF_vars(backlog # <<>> /\ AcceptReturns)
    /\ WF_vars(Handshake) /\ WF_vars(NewSession) /\ WF_vars(ListenerEnds)
    /\ \A c \in Client :
        /\ WF_vars(StreamLost(c)) /\ WF_vars(TimesOut(c))
        /\ WF_vars(c \notin here /\ StreamEnds(c))

Spec == Init /\ [][Next]_vars /\ Fairness

-----------------------------------------------------------------------------
(* Properties.                                                             *)

\* The loop has one message, or is in its handler, never both and never neither:
\* no failure of a client stops it or doubles it (listener accept).
KeepsAccepting ==
    listener # "Gone" => inbox + (IF listener = "Idle" THEN 0 ELSE 1) = 1

\* A client cannot end the server for the others, by leaving or by a handshake that
\* fails; what can is a stop, the operating system, the loss of the watchdog, and two
\* clients that have the same port (listener accept, examples/tcp.rs new_session).
EndsForAReason ==
    listener = "Gone" =>
        \/ stopped \/ addrErrors > 0 \/ (watched /\ ~dog)
        \/ \E i, j \in DOMAIN accepted : i # j /\ port[accepted[i]] = port[accepted[j]]

Door == IF Busy THEN <<Current>> ELSE <<>>

\* Seen from outside the server is a Reception: nobody is served twice, out of turn,
\* under a name that somebody still has, or after the end; and a listener told to stop
\* lets in one more client at most, the one it already waits for (listener accept, the
\* loop goes through the inbox; examples/tcp.rs new_session).
TheReception ==
    INSTANCE Reception WITH
        open <- listener # "Gone", asked <- told # "No",
        extra <- IF listener = "Gone" THEN 0 ELSE late,
        broken <- addrErrors > 0 \/ (watched /\ ~dog),
        line <- backlog, door <- Door, life <- session

ImplementsReception == TheReception!Spec

\* The server and its listener end together: a listener that fails takes the server
\* with it, and the exit of the server frees the port, even when the handler waits for
\* a client that never comes or never finishes its handshake (MyServer pre_start).
EndTogether == listener = "Gone" \/ server = "Down" ~> listener = "Gone" /\ server = "Down"

\* While nobody stalls, whoever connects is accepted, whatever the clients before it
\* do, unless the listener ends; with one that stalls nobody else may be (accept).
AllAccepted ==
    \A c \in Client :
        stallers = {} /\ c \in Range(backlog) ~> c \in Range(accepted) \/ listener = "Gone"

\* A session ends when its client has left, and its name is free again; with the
\* watchdog also when the client is silent, as long as the watchdog itself lives
\* (session.rs handle_supervisor_evt, MySession pre_start).
SessionsEnd ==
    \A c \in Client :
        Running(c) /\ (c \notin here \/ watched) ~> ~Running(c) \/ (c \in here /\ ~dog)
=============================================================================
