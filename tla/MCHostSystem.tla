--------------------------- MODULE MCHostSystem ---------------------------
(* The closed host system on small bounds.                                *)
EXTENDS HostSystem
MCCounts == {}
\* A healthy BMC with automatic reboot enabled.
Healthy == [oneTime |-> TRUE, user |-> TRUE, readable |-> TRUE,
            ready |-> TRUE, updating |-> FALSE, sent |-> TRUE]
\* ... or disabled once, or with a firmware update in progress.
MCMixed == {Healthy, [Healthy EXCEPT !.oneTime = FALSE],
            [Healthy EXCEPT !.updating = TRUE]}
===========================================================================
