------------------------------ MODULE MCBoot ------------------------------
(* Delays of up to two seconds, a timeout of one, and in every state one    *)
(* fault: a reset, a call that fails or the death of the host manager.      *)
EXTENDS BootSystem
=============================================================================
