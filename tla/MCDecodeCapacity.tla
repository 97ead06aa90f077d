-------------------------- MODULE MCDecodeCapacity --------------------------
(* Small pools, workloads and predictions for TLC. *)
EXTENDS DecodeCapacity, TLC

MCTokens == 1 :> 1 @@ 2 :> 2

Req(arrival, prefix, output) == [arrival |-> arrival, prefix |-> prefix, output |-> output]

MCWorkloads ==
    {<<Req(0, <<1>>, 3), Req(0, <<1, 2>>, 2), Req(2, <<1>>, 2)>>}

\* The placement policy plans; nothing is left to the workload.
MCPlans == <<{}, {}, {}>>
=============================================================================
