------------------------------ MODULE Evidence ------------------------------
(* What an experiment leaves behind, one part per behaviour: the decision   *)
(* records of its chains, the join and verdict of its replays, and the      *)
(* artifact set a grid script publishes.  The parts share no state.         *)
EXTENDS DecisionLog, Reconciliation, Campaign

VARIABLE part       \* which of them this behaviour is about

vars == <<part, logVars, joinVars, campaignVars>>

Init ==
    /\ part \in {"records", "replay", "campaign"}
    /\ LogInit /\ JoinInit /\ CampaignInit
    \* What the other parts would have chosen is fixed.
    /\ part # "records" => fsync = TRUE
    /\ part # "campaign" => kind = "final"

RecordDecisions ==
    /\ part = "records" /\ LogNext
    /\ UNCHANGED <<part, joinVars, campaignVars>>

JoinReplay ==
    /\ part = "replay" /\ JoinNext
    /\ UNCHANGED <<part, logVars, campaignVars>>

RunCampaign ==
    /\ part = "campaign" /\ CampaignNext
    /\ UNCHANGED <<part, logVars, joinVars>>

\* A candidate is judged once.
Judged == part = "replay" /\ stage = "decided" /\ UNCHANGED vars

Next == RecordDecisions \/ JoinReplay \/ RunCampaign \/ Judged

Spec == Init /\ [][Next]_vars
=============================================================================
