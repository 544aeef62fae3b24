------------------------------- MODULE MCCron -------------------------------
(* Model checking Cron: names, schedules and subscribers are model values. *)
EXTENDS Cron

CONSTANTS backup, cleanup, hourly, once, alice
=============================================================================
