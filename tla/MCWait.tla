------------------------------- MODULE MCWait -------------------------------
(* Three chassis, the inventory of one of them perhaps unreadable.         *)
EXTENDS ChassisWait
============================================================================
