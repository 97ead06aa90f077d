----------------------- MODULE MCHardwareValidation -----------------------
(* Two machines behind one URL, two names for it, and two runs of each     *)
(* script: one to publish a set and one to replace it.                     *)
EXTENDS HardwareValidation, TLC

CONSTANTS host1, host2, e1, e2

MCMachines  == {host1, host2}
MCEndpoints == {e1, e2}
\* Everything in order, or arms that could not be ranked.
Good == [plan_frozen |-> TRUE, reconciled |-> TRUE, tau_b |-> "above"]
MCOutcomes == {Good, [Good EXCEPT !.tau_b = "none"]}
Symmetry    == Permutations(MCMachines) \cup Permutations(MCEndpoints)
=============================================================================
