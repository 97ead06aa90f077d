-------------------------- MODULE Reconciliation --------------------------
(***************************************************************************)
(* The join of a replay's three observation sources (replay/reconcile.py), *)
(* the fault injector that states, without it, which ledger a damaged      *)
(* bundle must give (replay/faults.py), and the shadow decision that rests *)
(* on the joins of all cells and on the agreement of two rankings          *)
(* (replay/shadow.py, replay/ranking.py, replay/orchestrator.py).          *)
(*                                                                         *)
(* Cell after cell of a candidate arm, a clean bundle is damaged by a plan *)
(* and joined; after the last one the candidate is judged.  Ledgers        *)
(* and rows are sets: the code sorts them.  What only one source sees of   *)
(* an attempt is the field "own".                                          *)
(***************************************************************************)
EXTENDS Integers, Sequences, FiniteSets

CONSTANTS
    Keys,           \* attempts of a cell
    Values,         \* what a perturbation may write
    Cells,          \* arrival scales an arm is replayed at
    Arms,           \* numbered; the first is the baseline
    Scores,         \* what an arm may score
    MinReconciled,  \* thresholds of the shadow gate, as <<numerator,
    MaxDisagreement,\*   denominator>>
    MinTau,
    MaxFaults       \* bound: damages of one plan

ASSUME ReconciliationAssumption ==
    /\ Values \subseteq Nat \ {0}
    /\ Cells \in Nat \ {0} /\ MaxFaults \in Nat
    /\ Arms \in SUBSET Nat /\ 1 \in Arms /\ Scores \in SUBSET Int
    /\ IsFiniteSet(Keys) /\ IsFiniteSet(Arms)
    /\ {MinReconciled, MaxDisagreement} \subseteq Nat \X (Nat \ {0})
    /\ MinTau \in Int \X (Nat \ {0})

VARIABLES
    stage,      \* planning, injected, joined, deciding or decided
    plan,       \* damages: at most one per record
    bundle,     \* bundle[s][k]: the records source s has of attempt k
    report,     \* the join of the bundle
    cells,      \* the fractions of the cells joined so far
    decision    \* the rankings, the candidate and what withholds it

joinVars == <<stage, plan, bundle, report, cells, decision>>

Sources == {"ENGINE_HIT", "CLIENT_LATENCY", "ATTEMPT_TRACE"}

\* The fields more than one source observes, and their observers.
Observers == [input_tokens |-> Sources,
              node_id      |-> {"ENGINE_HIT", "ATTEMPT_TRACE"}]

SharedFields == DOMAIN Observers

FieldsOf(s) == {f \in SharedFields : s \in Observers[f]} \cup {"own"}

CleanValue == 0
ABSENT     == -1

CleanRecord(s) == [f \in FieldsOf(s) |-> CleanValue]

Clean == [s \in Sources |-> [k \in Keys |-> <<CleanRecord(s)>>]]
-----------------------------------------------------------------------------
\* Damages.

Targets == Sources \X Keys

Faults(s, k) ==
    {[kind |-> kind, target |-> <<s, k>>] : kind \in {"drop", "duplicate"}}
      \cup {[kind |-> "perturb", target |-> <<s, k>>, field |-> f, value |-> v] :
                f \in FieldsOf(s), v \in Values}

Hit(kind) == {fault.target : fault \in {d \in plan : d.kind = kind}}

PerturbationOf(s, k) ==
    {fault \in plan : fault.kind = "perturb" /\ fault.target = <<s, k>>}

\* What the records of one attempt at one source become.
Damaged(s, k) ==
    IF <<s, k>> \in Hit("drop") THEN <<>>
    ELSE IF <<s, k>> \in Hit("duplicate")
         THEN bundle[s][k] \o bundle[s][k]
         ELSE [i \in DOMAIN bundle[s][k] |->
                 [f \in FieldsOf(s) |->
                    IF \E fault \in PerturbationOf(s, k) : fault.field = f
                    THEN (CHOOSE fault \in PerturbationOf(s, k) : TRUE).value
                    ELSE bundle[s][k][i][f]]]

\* An entry names a defect of an attempt, a field when it is about one, and
\* what each source involved reports.
Entry(kind, k, field, values) ==
    [kind |-> kind, key |-> k, field |-> field, values |-> values]

\* The oracle.  All candidate defects of an attempt, from the plan and the clean
\* bundle alone, then the most severe kind that has any.
DefectsOf(k) ==
    LET at(kind)    == {s \in Sources : <<s, k>> \in Hit(kind)}
        told(s, f)  == IF \E fault \in PerturbationOf(s, k) : fault.field = f
                       THEN (CHOOSE fault \in PerturbationOf(s, k) : TRUE).value
                       ELSE CleanValue
        whole(kind, ss, v) ==
            IF ss = {} THEN {} ELSE {Entry(kind, k, "", [s \in ss |-> v])}
    IN [DUPLICATE    |-> whole("DUPLICATE", at("duplicate"), 2),
        MISSING      |-> whole("MISSING", at("drop"), ABSENT),
        DISAGREEMENT |->
          {Entry("DISAGREEMENT", k, f, [s \in Observers[f] |-> told(s, f)]) :
              f \in {g \in SharedFields :
                       Cardinality({told(s, g) : s \in Observers[g]}) > 1}}]

Precedence == <<"DUPLICATE", "MISSING", "DISAGREEMENT">>

ExpectedEntries(k) ==
    UNION {LET c == DefectsOf(k)
           IN IF \A j \in 1 .. i - 1 : c[Precedence[j]] = {}
              THEN c[Precedence[i]] ELSE {} : i \in DOMAIN Precedence}

ExpectedLedger == UNION {ExpectedEntries(k) : k \in {d.target[2] : d \in plan}}
-----------------------------------------------------------------------------
\* The join.

Seen == {k \in Keys : \E s \in Sources : bundle[s][k] # <<>>}

\* variant: a missing source is charged before a duplicated one.
ChargesMissingFirst(k) ==
    LET duplicated == {s \in Sources : Len(bundle[s][k]) > 1}
        absent     == {s \in Sources : bundle[s][k] = <<>>}
    IN CASE absent # {} -> {Entry("MISSING", k, "", [s \in absent |-> ABSENT])}
         [] absent = {} /\ duplicated # {} ->
              {Entry("DUPLICATE", k, "",
                     [s \in duplicated |-> Len(bundle[s][k])])}
         [] OTHER -> {}

\* The entries of one attempt: a source that has it twice leaves nothing to
\* compare, and neither does one that lacks it.
Charges(k) ==
    LET duplicated == {s \in Sources : Len(bundle[s][k]) > 1}
        absent     == {s \in Sources : bundle[s][k] = <<>>}
        told(s, f) == bundle[s][k][1][f]
    IN IF duplicated # {}
       THEN {Entry("DUPLICATE", k, "",
                   [s \in duplicated |-> Len(bundle[s][k])])}
       ELSE IF absent # {}
       THEN {Entry("MISSING", k, "", [s \in absent |-> ABSENT])}
       ELSE {Entry("DISAGREEMENT", k, f, [s \in Observers[f] |-> told(s, f)]) :
               f \in {g \in SharedFields :
                        Cardinality({told(s, g) : s \in Observers[g]}) > 1}}

Reconcile ==
    [attempts |-> Seen, ledger |-> UNION {Charges(k) : k \in Seen},
     settled  |-> {k \in Seen : Charges(k) = {}}]

NoReport == [attempts |-> {}, ledger |-> {}, settled |-> {}]

\* Attempts of a report that carry an entry of a kind.
ChargedWith(r, kind) == {e.key : e \in {d \in r.ledger : d.kind = kind}}

Fractions(r) ==
    [attempts     |-> Cardinality(r.attempts),
     settled      |-> Cardinality(r.settled),
     disagreement |-> Cardinality(ChargedWith(r, "DISAGREEMENT"))]

\* n of m attempts against a threshold; of no attempts, the fraction is 0.
Below(n, m, threshold) ==
    IF m = 0 THEN threshold[1] > 0 ELSE n * threshold[2] < threshold[1] * m

Above(n, m, threshold) == m > 0 /\ n * threshold[2] > threshold[1] * m
-----------------------------------------------------------------------------
\* Rankings: left and right score every arm.

Pairs == {p \in Arms \X Arms : p[1] < p[2]}

Sign(x) == IF x > 0 THEN 1 ELSE IF x < 0 THEN -1 ELSE 0

Order(scores, p) == Sign(scores[p[2]] - scores[p[1]])

Concordance(left, right) ==
    LET strict == {p \in Pairs : Order(left, p) # 0 /\ Order(right, p) # 0}
        agree  == {p \in strict : Order(left, p) = Order(right, p)}
    IN [concordant |-> Cardinality(agree),
        discordant |-> Cardinality(strict \ agree),
        left_ties  |-> Cardinality({p \in Pairs : Order(left, p) = 0}),
        right_ties |-> Cardinality({p \in Pairs : Order(right, p) = 0})]

\* tau-b is excess / sqrt(denominator), and undefined when that is 0.
TauB(left, right) ==
    LET c  == Concordance(left, right)
        n0 == Cardinality(Pairs)
    IN [excess      |-> c.concordant - c.discordant,
        denominator |-> (n0 - c.left_ties) * (n0 - c.right_ties)]

TauBelow(tau, threshold) ==
    LET tau2 == tau.excess * tau.excess * threshold[2] * threshold[2]
        thr2 == threshold[1] * threshold[1] * tau.denominator
    IN  IF threshold[1] < 0 THEN tau.excess < 0 /\ tau2 > thr2
                            ELSE tau.excess < 0 \/ tau2 < thr2
-----------------------------------------------------------------------------
\* The verdict: the worst cell, the agreement of the two rankings, and the
\* scores at the first arrival scale.

Least(fractions, part) ==
    CHOOSE c \in fractions : \A d \in fractions :
        IF c.attempts = 0 THEN TRUE
        ELSE d.attempts # 0 /\ c[part] * d.attempts <= d[part] * c.attempts

\* variant: the fractions of the last cell stand for all.
GateReasonsLast(left, right, candidate) ==
    LET c   == cells[Len(cells)]
        tau == TauB(left, right)
    IN {r \in {"RECONCILED_FRACTION_BELOW_GATE"} :
            Below(c.settled, c.attempts, MinReconciled)}
         \cup {r \in {"DISAGREEMENT_FRACTION_ABOVE_GATE"} :
            Above(c.disagreement, c.attempts, MaxDisagreement)}
         \cup {r \in {"RANKING_CONSISTENCY_UNAVAILABLE"} : tau.denominator = 0}
         \cup {r \in {"RANKING_CONSISTENCY_BELOW_GATE"} :
            tau.denominator # 0 /\ TauBelow(tau, MinTau)}
         \cup {r \in {"CANDIDATE_DOES_NOT_BEAT_BASELINE"} :
            left[candidate] <= left[1]}

GateReasons(left, right, candidate) ==
    LET fractions == {cells[i] : i \in DOMAIN cells}
        worst     == Least(fractions, "settled")
        tau       == TauB(left, right)
    IN {r \in {"RECONCILED_FRACTION_BELOW_GATE"} :
            Below(worst.settled, worst.attempts, MinReconciled)}
         \cup {r \in {"DISAGREEMENT_FRACTION_ABOVE_GATE"} :
            \E c \in fractions :
                Above(c.disagreement, c.attempts, MaxDisagreement)}
         \cup {r \in {"RANKING_CONSISTENCY_UNAVAILABLE"} : tau.denominator = 0}
         \cup {r \in {"RANKING_CONSISTENCY_BELOW_GATE"} :
            tau.denominator # 0 /\ TauBelow(tau, MinTau)}
         \cup {r \in {"CANDIDATE_DOES_NOT_BEAT_BASELINE"} :
            left[candidate] <= left[1]}

NoDecision == [made |-> FALSE]

JoinInit ==
    /\ stage = "planning" /\ plan = {} /\ bundle = Clean
    /\ report = NoReport /\ cells = <<>> /\ decision = NoDecision

\* One more damage in the plan, of a record the plan does not touch yet.
Damage(fault) ==
    /\ stage = "planning" /\ Cardinality(plan) < MaxFaults
    /\ \A d \in plan : d.target # fault.target
    /\ plan' = plan \cup {fault}
    /\ UNCHANGED <<stage, bundle, report, cells, decision>>

\* apply_faults: an attempt the plan touches is there once in every source.
Inject ==
    /\ stage = "planning"
    /\ \A d \in plan, s \in Sources : Len(bundle[s][d.target[2]]) = 1
    /\ bundle' = [s \in Sources |-> [k \in Keys |-> Damaged(s, k)]]
    /\ stage' = "injected"
    /\ UNCHANGED <<plan, report, cells, decision>>

Join ==
    /\ stage = "injected"
    /\ report' = Reconcile /\ stage' = "joined"
    /\ UNCHANGED <<plan, bundle, cells, decision>>

\* The fractions are kept and the next cell begins.
KeepCell ==
    /\ stage = "joined"
    /\ cells' = Append(cells, Fractions(report))
    /\ stage' = IF Len(cells) + 1 = Cells THEN "deciding" ELSE "planning"
    /\ plan' = {} /\ bundle' = Clean /\ report' = NoReport
    /\ UNCHANGED decision

Decide(left, right, candidate) ==
    /\ stage = "deciding"
    /\ decision' = [made |-> TRUE, left |-> left, right |-> right,
                    candidate |-> candidate,
                    reasons |-> GateReasons(left, right, candidate)]
    /\ stage' = "decided"
    /\ UNCHANGED <<plan, bundle, report, cells>>

JoinNext ==
    \/ \E s \in Sources, k \in Keys : \E fault \in Faults(s, k) : Damage(fault)
    \/ Inject \/ Join \/ KeepCell
    \/ \E left, right \in [Arms -> Scores], candidate \in Arms \ {1} :
          Decide(left, right, candidate)

-----------------------------------------------------------------------------
\* The reconciler finds exactly the defects the plan put in (faults.py 1-10):
\* the oracle and the join are two derivations of one ledger.  Attempts no
\* source reports any more are left out: the join cannot see them.
OracleAgrees ==
    stage = "joined" =>
        report.ledger = {e \in ExpectedLedger : e.key \in report.attempts}

\* Every attempt is settled or charged, "never both and never neither"
\* (reconcile.py 262-263), and charged with one kind of defect only.
EveryAttemptAccounted ==
    stage = "joined" =>
        LET charged == {e.key : e \in report.ledger}
        IN /\ report.settled \cap charged = {}
           /\ report.settled \cup charged = report.attempts
           /\ \A d, e \in report.ledger : d.key = e.key => d.kind = e.kind

\* Each attempt is joined as the oracle says, and counted once.
JoinIsExact == OracleAgrees /\ EveryAttemptAccounted

Recommended == decision.made /\ decision.reasons = {}

\* A recommendation holds cell by cell: no cell with a gap or a disagreement
\* beyond the gate can be outweighed by the others (orchestrator.py 350-373),
\* and a gate that asks for any reconciled attempt sees one in every cell.
RecommendationIsUnanimous ==
    Recommended => \A i \in DOMAIN cells :
        /\ cells[i].settled * MinReconciled[2]
               >= cells[i].attempts * MinReconciled[1]
        /\ cells[i].disagreement * MaxDisagreement[2]
               <= cells[i].attempts * MaxDisagreement[1]
        /\ MinReconciled[1] > 0 => cells[i].attempts > 0

\* A ranking that has a tau-b has a pair both sides order, so the agreement its
\* record recomputes is defined too, and its tau-b is within [-1, 1]
\* (ranking.py 170-235): no comparison is refused by its own constructor.
RankingNeverRefused ==
    decision.made =>
        LET c   == Concordance(decision.left, decision.right)
            tau == TauB(decision.left, decision.right)
        IN tau.denominator # 0 =>
             /\ c.concordant + c.discordant > 0
             /\ tau.excess * tau.excess <= tau.denominator

\* A verdict is computed from rankings that have one, and recommends no arm over
\* a cell that speaks against it.
VerdictStands == RecommendationIsUnanimous /\ RankingNeverRefused
=============================================================================
