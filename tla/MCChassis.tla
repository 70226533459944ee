------------------------------ MODULE MCChassis ------------------------------
\* Chassis with the bounds and the sets of each MCChassis*.cfg.
EXTENDS Chassis
CONSTANTS
  p1, p2,
  MaxEvents   \* bound: requests, input changes and mishaps, together

\* Any MaxEvents of what may happen from outside, in any order, rather than all.
FewEvents ==
  spent.requests + spent.inputs + spent.deaths + spent.resets + spent.losses
    + spent.failures + spent.unread <= MaxEvents
=============================================================================
