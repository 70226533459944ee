---------------------------- MODULE MCBMCSystem ----------------------------
(* One service that is in both lists of the monitor, one target.           *)
EXTENDS BMCSystem

CONSTANT mapper

MCServices == {mapper}
MCTargets == {"standby"}
MCErrors == [t \in MCTargets |-> {"failed", "timeout", "dependency"}]
MCBoots == {[reason |-> "none", pinhole |-> FALSE]}
============================================================================
