--------------------------- MODULE MCChainHarness ---------------------------
(***************************************************************************)
(* Values for the constants of ChainHarness: two instances, of which the   *)
(* second is chosen once the first has refused, and an instance that       *)
(* reports every capability or lacks the one that grants depend on.        *)
(***************************************************************************)
EXTENDS ChainHarness, TLC

CONSTANTS h1, h2

MCHosts == {h1, h2}
MCMaps  == {[candidates |-> <<h1, h2>>, hits |-> (h1 :> 1) @@ (h2 :> 0)]}

AllCapabilities  == {Capability}
SomeCapabilities == {Capability, {"PREFIX_CACHE_QUERY"}}

\* Bound: a newer map and a partial handshake are followed for one attempt, the
\* second instance for two, up to the first frame; what comes after an end that
\* was not forced, for two attempts.
Explored ==
    /\ \/ lastViewEpoch > 0
       \/ handshake.done /\ handshake.reported # Capability
       => frames = <<>> /\ attempt <= 1
    /\ h2 \in failedHosts \cup {currentHost} => frames = <<>> /\ attempt <= 2
    /\ Finished /\ ~Exhausted => attempt <= 2
=============================================================================
