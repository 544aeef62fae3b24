----------------------------- MODULE MCWatchdog -----------------------------
(* Small instances of Watchdog for TLC. *)
EXTENDS Watchdog

CONSTANTS a1, a2
=============================================================================
