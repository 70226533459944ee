---------------------------- MODULE MCScheduled ----------------------------
(* Schedules on a clock of a few seconds.                                  *)
EXTENDS Scheduled
===========================================================================
