---------------------------- MODULE MCTcpSession ----------------------------
(* Small instances of TcpSession for TLC. *)
EXTENDS TcpSession, TLC

CONSTANTS client, server

\* The client sends two frames, the server one.
TwoOne == client :> 2 @@ server :> 1

\* Traffic in both directions.
TwoTwo == client :> 2 @@ server :> 2

\* One frame, one way.
OneWay == client :> 1 @@ server :> 0
=============================================================================
