--------------------------- MODULE MCCausalKernel ---------------------------
(* Small pools and workloads for TLC. *)
EXTENDS CausalKernel, TLC

CONSTANTS p1, p2, d1, d2

\* Key 2 takes twice the tokens of key 1.
MCTokens == 1 :> 1 @@ 2 :> 2

Req(arrival, prefix, output) == [arrival |-> arrival, prefix |-> prefix, output |-> output]

MCWorkloads == {<<Req(0, <<1>>, 3), Req(0, <<1, 2>>, 2), Req(2, <<1>>, 2)>>}

Completes(p, d, delay, claims, fence) ==
    [p |-> p, d |-> d, delay |-> delay, claims |-> claims, fails |-> FALSE,
     missing |-> 0, reusable |-> TRUE, fence |-> fence]

Fails(p, reusable) ==
    [Completes(p, d1, 0, {}, 0) EXCEPT !.fails = TRUE, !.missing = 1, !.reusable = reusable]

\* The first two requests meet on one prefill and one decode node; the third
\* may claim what they leave there from another node, or decode elsewhere.
MCPlans ==
    <<{Completes(p1, d1, 0, {}, 0), Fails(p1, FALSE), Fails(p1, TRUE)},
      {Completes(p1, d1, 0, {}, 0), Completes(p1, d1, 0, {}, 5)},
      {Completes(p2, d1, 0, {1}, 0), Completes(p1, d2, 1, {}, 0)}>>

\* The same with one decode node.
MCPlansOfOneNode == [r \in DOMAIN MCPlans |-> {plan \in MCPlans[r] : plan.d = d1}]
=============================================================================
