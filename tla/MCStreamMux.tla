----------------------------- MODULE MCStreamMux -----------------------------
(* Small instances of StreamMux for TLC. *)
EXTENDS StreamMux

CONSTANTS t1, t2, t3
=============================================================================
