------------------------------- MODULE MCBMC -------------------------------
(* Every kind of reboot, the clock, the guard and firmware updates.        *)
EXTENDS BMC

MCBoots == [reason : {"none", "EXTERN1", "CARDRESET", "several"}, pinhole : BOOLEAN]
============================================================================
