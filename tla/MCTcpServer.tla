----------------------------- MODULE MCTcpServer -----------------------------
(* Model checking TcpServer: the clients are model values. *)
EXTENDS TcpServer

CONSTANTS ann, bob
=============================================================================
