--------------------------- MODULE MCChassisSMP ---------------------------
(* Two or three chassis; the runs differ in the bounds their cfg sets.     *)
EXTENDS ChassisSMP
===========================================================================
