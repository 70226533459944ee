----------------------------- MODULE Readiness -----------------------------
(***************************************************************************)
(* What a client of xyz.openbmc_project.State.BMC may rely on between two   *)
(* readings of CurrentBMCState.  "Down" means that nobody owns the name;    *)
(* "Rebooting" is the NotReady that announces a reboot, as opposed to the   *)
(* one of a BMC that is still starting.                                     *)
(***************************************************************************)
VARIABLE life

Lives == {"Down", "NotReady", "Ready", "Quiesced", "Rebooting"}

LifeInit == life = "Down"

\* A manager that comes up finds the BMC starting, up or quiesced.
Appear == life = "Down" /\ life' \in {"NotReady", "Ready", "Quiesced"}

\* All that is started by default is up.
Reach == life = "NotReady" /\ life' = "Ready"

\* Only a reboot leads out of Quiesced.
Quiesce == life \in {"NotReady", "Ready"} /\ life' = "Quiesced"

\* Nothing is taken back: the next state a client sees is the next boot's,
\* or that of another manager.
Announce == life # "Down" /\ life' = "Rebooting"

Vanish == life' = "Down"

LifeNext == Appear \/ Reach \/ Quiesce \/ Announce \/ Vanish

LifeSpec == LifeInit /\ [][LifeNext]_life
============================================================================
