------------------------------ MODULE MCHost ------------------------------
(* The open host manager over counters 0..2 and two unsent StartUnit calls. *)
EXTENDS Host
MCCounts == 0..2
===========================================================================
