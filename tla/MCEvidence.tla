----------------------------- MODULE MCEvidence -----------------------------
(* Two chains that share one sink: of their decisions, one the rollout gate *)
(* takes, two it does not, and one that is a structural defect.  Two        *)
(* attempts, two cells of a candidate, three arms.  One regime at one       *)
(* arrival scale.                                                           *)
EXTENDS Evidence

CONSTANTS r1, r2, k1, k2, mixed, overload

MCRequests == {r1, r2}
MCKeys     == {k1, k2}
Symmetry   == Permutations(MCRequests) \cup Permutations(MCKeys)

Decided(owner, mode, shadow, fallback) ==
    [owner |-> owner, mode |-> mode, shadow |-> shadow, fallback |-> fallback]

MCDecisions == {Decided("master", "shadow", "same", FALSE),
                Decided("master", "enforce", "none", TRUE),
                Decided("master", "shadow", "none", FALSE),
                Decided("turbo", "shadow", "other", FALSE)}

MCArms     == {1, 2, 3}
MCScores   == {0, 1, 2}
Half       == <<1, 2>>
Nothing    == <<0, 1>>
FourFifths == <<4, 5>>

OneRegime == <<mixed>>
OneScale  == <<overload>>
=============================================================================
