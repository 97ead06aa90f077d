--------------------------- MODULE MCPhaseStudies ---------------------------
EXTENDS PhaseStudies

\* Conversations that fork behind two blocks, one prompt longer than the linker
\* reads, and one too short to be linked.
MCRoutedPrompt == {<<1, 2>>, <<1, 2, 3>>, <<1, 2, 4, 5>>, <<2>>}

View(load, full, since) == [load |-> load, full |-> full, since |-> since]
Per(a, b, c) == (0 :> a) @@ (1 :> b) @@ (2 :> c)

\* Idle; one or two nodes overloaded; some or all full.
MCViews == {View(Per(0, 0, 0), {}, Per(0, 0, 0)), View(Per(9, 0, 0), {}, Per(2, 1, 0)),
            View(Per(0, 9, 9), {}, Per(0, 0, 0)), View(Per(1, 8, 1), {2}, Per(0, 0, 0)),
            View(Per(0, 0, 1), {0, 1}, Per(1, 0, 0)), View(Per(3, 2, 9), {0, 1, 2}, Per(0, 0, 0))}

MCOwner(key) == key % 3

MCTraceBlock == {<<k>> : k \in 1..4}

Prompt(numbers, last) ==
    [blocks |-> [i \in 1..Len(numbers) |-> <<numbers[i]>>],
     sizes  |-> [i \in 1..Len(numbers) |-> IF i = Len(numbers) THEN last ELSE 2]]

\* Prompts that share a prefix, and one block that is the first of a prompt and
\* the middle of another.
MCKvsPrompt == {Prompt(<<1>>, 2), Prompt(<<1, 2>>, 1), Prompt(<<1, 2, 3>>, 1),
                Prompt(<<4, 3>>, 2), Prompt(<<3>>, 2)}

\* With a full and with a partial last block.
MCLeasePrompt == {Prompt(<<1>>, 1), Prompt(<<1, 2>>, 1), Prompt(<<1, 2>>, 2), Prompt(<<3>>, 2)}

MCLeaseConfig ==
    [policy : {"D1", "D1_5"}, enabled : {TRUE}, recovery : {"R0", "R1"},
     rounds : {2, 8}, migrate : BOOLEAN, maxRecovery : {3, 1000}]
    \cup [policy : {"D0", "D1"}, enabled : {FALSE}, recovery : {"R1"},
          rounds : {8}, migrate : {FALSE}, maxRecovery : {1000}]

MCSchedule == <<1, 2>>

MCProtocols == {"P0_PD", "P1_DP", "P2_GATED_PD", "P3_GATED_DP", "P4_KVS_DECOUPLED"}

\* Next to one another, and with a gap.
MCCountSets == {{1, 2}, {1, 3}}

\* Two tenants and two tiers.
MCWorkload == <<[tenant |-> "a", tier |-> "STRICT", arrival |-> 0, tokens |-> 2],
                [tenant |-> "b", tier |-> "STRICT", arrival |-> 1, tokens |-> 3],
                [tenant |-> "a", tier |-> "RELAXED", arrival |-> 1, tokens |-> 1]>>
MCTierSlo  == [STRICT |-> 4, RELAXED |-> 8]

MCBaseline == [completion |-> <<1, 1>>, tier |-> <<1, 2>>, fairness |-> <<2, 3>>,
               queue |-> 1, kvs |-> 1]
MCStrict   == [MCBaseline EXCEPT !.tier = <<1, 1>>]
MCFloors   == <<<<1, 4>>, <<1, 2>>, <<1, 1>>>>
MCMultipliers == <<2, 4, 8>>

Attempt(request, index, terminal, finish) ==
    [request |-> request, index |-> index, terminal |-> terminal, finish |-> finish]

\* All in time, the first at its deadline and the second in its second attempt;
\* one late; all in time with a long queue.  The control is never short of prefill nodes.
MCCellRuns ==
    LET ended(finish) == {Attempt(1, 0, "COMPLETED", 4), Attempt(2, 0, "ABORTED", 2),
                          Attempt(2, 1, "COMPLETED", finish),
                          Attempt(3, 0, "COMPLETED", 6)}
        good == [attempts |-> ended(5), queue |-> 1, kvs |-> 0]
        late == [attempts |-> ended(7), queue |-> 1, kvs |-> 1]
        full == [attempts |-> ended(5), queue |-> 2, kvs |-> 1]
    IN  [LOCAL_ONLY |-> {good, late, full}, SHARED_KVS |-> {good, late, full},
         ZERO_TRANSFER_PRICE_CONTROL |-> {good, late}]

Request(raw, cohort, eligible, slack) ==
    [raw |-> raw, cohort |-> cohort, eligible |-> eligible, slack |-> slack]

\* Prefixes of one another in two cohorts, one that only one node may serve, one
\* that bears little delay, and one without input.
MCArriving ==
    {Request(<<1, 2, 3>>, 1, {0, 1}, 10000), Request(<<1, 2>>, 1, {0, 1}, 300),
     Request(<<1, 2, 3, 4>>, 1, {1}, 10000), Request(<<1, 2, 3>>, 2, {1}, 10000),
     Request(<<>>, 1, {0, 1}, 10000)}
=============================================================================
