# prefill-cache-simulator in TLA+

The package `src/src/prefill_cache_sim` is a set of discrete-event simulators
for LLM serving with separate prefill and decode pools, a faithful,
transport-free implementation of the protocol (the *chain*) by which a client,
a selector owner, a prefill node and decode nodes serve one request, and the
experiment machinery around them: replay, reconciliation, calibration against
hardware, and the scripts that publish what came out. This directory holds TLA+
models of the state machines in it, the TLC runs that check them, and TLAPS
proofs about the chain, the local simulator, the kernel with its decode credits,
the results directory, the final grid and its outcome, the decision log and its
report, the join of a replay and the verdict on its candidate, the eviction
policies with their books, the hardware claims, and two of the studies: the
lifecycle protocols and the placement policy.

## 1. Inventory

Paths are relative to `src/src/prefill_cache_sim`, scripts to `src/scripts`.

| Component | State | Operations | Interacts with | What is hard | What makes it correct |
|---|---|---|---|---|---|
| Chain harness (`chain/harness.py`, `chain/protocol.py`) | per request: pending selection, prefill commit, active leg, attempt, retry ledger, durable output ack, handshake, newest view epoch | handshake, select, commit/rollback prefill, admit/reject decode, emit and deliver frame, expire lease, report checkpoint, crash and restart, finish | output fence, R2 store, D2 controller, decision observer | orphaned legs keep emitting; crashes; stale maps; retry budgets; an advisory path that must not raise | the user's stream is exactly once and in order; a leg that lost its authority never writes again; budgets are honoured |
| Cooperative preemption (`preemption.py`) | output authority, R2 checkpoint, the controller's latest epoch and counts | accept, advance epoch, put checkpoint, report checkpoint | called by the chain | holds an authority object the client may have replaced | one writer per epoch; checkpoints only move forward |
| Decision log and pairing (`chain/decision_log.py`) | a JSONL file, what the file object still holds, the pair report | write, recover, read all, close, report | the chain's observer | a write that fails half way, a crash in the middle of a line, records repeated or out of order | what was acknowledged is there and reads back; the report says what the records say |
| Local replay simulator (`simulator.py`, `cache.py`, `eviction.py`) | event heap; per node: slots, queue, pins, inflight blocks, cache and policy; cached view | arrive, start, wait for an inflight block, finish, schedule | selectors | waiters hold slots; pins shared by requests; ties; delayed views | no hit is evicted under a running request; slots and pins come back; nobody waits for ever |
| M12 causal kernel (`m12_kernel.py`) | event heap, attempts, prefill queues, node caches, queue proxy, decode availability | arrival, ready, prefill start/finish, decode start, lease boundary, completion | a policy through hooks | seven kinds of events at one instant; retries; aborts; stale wake-ups | pools run one attempt at a time; nothing is seen before it happened; no attempt is lost |
| Decode credits (`m12_decode.py`) | reservations, executions, debts; fences and predictions | reserve, activate, settle; plan, fence, start, reprice, finish, retry | kernel hooks | predictions are wrong, so decodes overrun reservations | credits within capacity; every debt settled; ledger agrees with the kernel |
| M12 eviction, census, digest ledger (`m12_eviction.py`, `run_m12_final.py`) | the policy's LRU orders, census, delayed observations, digests | sample, look up, propose a mutation | kernel hooks | three books of a cache, each kept by other code at another moment than the cache changes | the books name the cache; the last hot copy stays |
| M12 placement (`m12_placement.py`, `m12_priced_spill.py`) | families and their limits, estimates read off the kernel | plan an arrival under one of six strategies | kernel caches and queues | a plan is made long before its prefill starts | what a plan counted on is still there |
| M12 sizing and metrics (`m12_sizing.py`, `m12_metrics.py`, `run_m12_sizing.py`) | grid of cells, verdicts, frontiers | run cells in a pool, judge, publish | kernel, artifact directory | results in any order; truncated grids | a published minimum is one, and certified |
| Final experiment grid and watchdog (`run_m12_final.py`) | plan, results, failures, the watchdog thread and its signal | probe, run a cell, abort, audit, judge | artifact directory | a thread, a signal and the main loop race | the grid stops at its memory limit, and every cell is accounted for |
| Artifact publication (`run_m12_final.py`, `run_m12_placement.py`, `run_m12_sizing.py`) | live, staging and backup directories | stage, swap, commit, roll back, clean up | next process | crash between two renames; interrupts; leftovers of an earlier process | a reader sees no half set; a committed set is never lost |
| Hardware calibration and validation (`calibration/`, `replay/hardware.py`, `run_m9_hardware.py`, `run_m10_hardware.py`) | artifacts of both scripts, the engine behind a URL | handshake, sweep, judge, publish, bind, validate | each other, through the disk | restarts between handshake and sweep; torn sets; a calibration replaced behind its validation | a hardware label is one that a run earned |
| Replay reconciliation and shadow decisions (`replay/`) | fault plan, bundles of three sources, ledger, rankings | inject, join, rank, decide | replays | damaged, lost and repeated records; ties | every defect is charged once; no recommendation over a bad cell |
| KV store topology and study (`kvs.py`, `mooncake_selector.py`, `m5_experiment.py`) | shared store with two indices, HBM and DRAM caches, node work | observe, select, transfer, store | none | store at capacity; tiers that disagree | a tier never claims what is not there |
| Decode leases (`decode_lease.py`, `continuation.py`) | queues of quanta, continuations, stores | step a quantum, recover, migrate, publish | prefix store | partial blocks; recovery too dear; last round | every token is kept, and every filled block published |
| Request lifecycle (`lifecycle.py`, `slo.py`) | when each node is free again | serve under one of five protocols | none | gates on old information, rollback, cut-off | a node serves one request at a time; a gate keeps its promise |
| Node selectors, reuse analysis (`selectors.py`, `affinity.py`, `reuse_time.py`) | linker, sticky homes, hot blocks; the analysis' own tracker | select, analyse | simulator views | fallback under load; two copies of one rule | affinity gives way only under load, and returns |
| Scenario runner, trace, identity, configuration, CLI, fits, fingerprints | none | parse, hash, report, fit | all | none of a state machine | see section 7 |

`PROJECT.json` lists the same components with their status, and under "hazards"
the places where the code can go wrong in a way a unit test would hardly reach.

## 2. Modules

```
ChainSelection ---> ChainHarness ---> MCChainHarness      (TLC)
                        |  \--------> ChainHarnessProofs  (TLAPS)
                        \--implements--> FencedOutputStream
BlockCache -------> LocalSimulator ---> MCLocalSimulator
     |                  \--------------> LocalSimulatorProofs  (TLAPS)
     \------------> PrefixStore ---> KvsReplay, DecodeLease
CausalKernel -----> MCCausalKernel
     \------------> DecodeCapacity ---> MCDecodeCapacity
DecodeLedger -----/        \----------> KernelProofs  (TLAPS)
SumTheorems (TLAPS) ---> LocalSimulatorProofs, KernelProofs, EvidenceProofs,
                         EvictionProofs, StudyProofs
Eviction ---------> MCEviction
     \------------> EvictionProofs  (TLAPS)
HardwareValidation > MCHardwareValidation
     \------------> HardwareProofs  (TLAPS)
ArtifactPublication \
FinalGrid ----------> Campaign --\
DecisionLog ----------------------> Evidence ---> MCEvidence
Reconciliation ------------------/      \--> EvidenceProofs  (TLAPS)
KvsReplay, DecodeLease -----------------------\
AttemptMetrics ---> Sizing -------------------> PhaseStudies ---> MCPhaseStudies
NodeSelection, Lifecycle, Placement ---------/      \--> StudyProofs  (TLAPS)
```

An arrow is EXTENDS; the refinement is an INSTANCE with a mapping. In all models an operation that raises before it
changes anything is a disabled action; one that raises *after* changing
something keeps its change, and an exception that ends a run is a state of its
own where a property is about it.

### Chain

`ChainHarness` models one logical request; each public method that changes
state is one action of the same name. The variables are the harness's fields:
`authority` is the client's `OutputAuthority`, `durable` the output ack,
`legs` all `DecodeLeg`s ever admitted, each of which may go on emitting,
`detached` the authority object the D2 controller still holds after a restart
has rebuilt the client's. `StrayFrame` delivers any frame a leg could stamp, at
any time: lost, repeated and reordered frames. `ChainSelection` holds the
functions of the selector protocol. `AbortSelf` is the whole granted path of
`report_checkpoint`: store, fence, ledgers and the leg's end in one step. The
economics of a move are a free choice.

`FencedOutputStream` is the promise to the user: writers are granted a fence,
only the current one appends, in order, and at most one terminal closes the
stream. The refinement maps `stream` to the accepted frames, `fence` to the
authority's epoch, `writer` to the active leg.

Left out: counters, the transcript, the attribution of wasted prefill.
`settle_orphan_leg` and `hard_abort` change nothing that is modelled.

### Local replay simulator

`LocalSimulator` is `ClusterSimulator.run`: the heap of start and finish
events, slots, queues, pins and inflight blocks per node; `BlockCache` is
`LocalNodeCache` with its policy. `Arrive`/`ReplayAtArrival`, `Start`, `Wait`,
`Run` and `Finish` are the code's `_run_queued`/`_run_cache_only`, `_start` and
`_finish`; an action performs the trailing `_schedule_starts`. A trace is drawn
one arrival at a time so that all short traces are covered. The unit of time is
the service time of one uncached token. A selector is a free choice of node.

### Causal kernel and decode credits

`CausalKernel` is `CausalKernel.run`: `queue` is the heap with the code's order
(time, priority, serial), one action per kind of event, plus
`StaleDecodeStart` for the wake-ups that outlived their attempt's start.
`attempts` joins `planned` and `pending`: an attempt whose `ready` is None is
planned. What a policy decides in a hook is an argument of the action, chosen
freely by `KernelNext`. Time is counted in the work of one decoded token.

`DecodeLedger` is `DecodeCreditLedger` as functions on a ledger value;
`DecodeCapacity` puts `DecodeCapacityPolicy` into the hooks: each action is the
kernel's action with the arguments the policy computes and with the policy's
own changes. A prediction is any member of a set, which covers the oracle, the
noisy oracle and the causal predictor. The placement policy is reduced to its
choice of nodes and claims.

### Eviction

`Eviction` puts `M12EvictionPolicy` (LRU or census), the census with or without
delayed visibility, and the digest ledger of the final grid beside the caches
of the kernel. The interplay is what is modelled: a policy changes its books
when it *proposes* a mutation, the kernel changes the cache when it applies it,
and drops the proposals of attempts that failed without reusable prefill
(`dropped`). A request is planned once and finishes at any later moment, so the
requests of a node finish in any order. A request longer than the capacity is
excluded (`PrefixAssumption`): LRU raises on it, the census refuses silently.
An exception is the state `failed`.

### Hardware

`HardwareValidation` runs both scripts, any number of times, on one disk. A
machine behind the URL may be replaced at any moment (`Restart`), also between
handshake and sweep. Artifacts are written file by file, the manifest last, and
a run may die after any file. Choices of the operator are made where they are
first used; what a fit or a ranking comes to is a choice among the outcomes the
gates tell apart; a directory is read in one step.

### Evidence: decision log, reconciliation, campaign

Three parts in one composition, `Evidence`, one per behaviour (`part`). They
share no state; joining them lets one run check what an experiment leaves on
disk.

`DecisionLog` models the sink with the file object's buffer: a write may fail
with any part of the pending lines on disk, the process or the machine may die,
`Reopen` cuts the file at the first line that does not parse or has no newline.

`Reconciliation` damages a clean bundle by a fault plan, joins its three sources,
and judges a candidate over its cells. `ExpectedLedger` is `faults.py`, which
derives from the plan alone what the join must find; `Reconcile` is
`reconcile.py`. Ledgers are sets: the code sorts them.

`Campaign` composes `FinalGrid` (probes, plan, cells, the watchdog thread, its
signal, the verdicts) with `ArtifactPublication` (the three ways a script
replaces its results directory) into processes that run one after the other on
what the previous one left. A directory is a function from file names to the
run that wrote them, so a mixture of runs shows. A signal is handled before the
main thread's next step. The final script's swap is one action per call that
touches the disk: `Reserve` (`mkdtemp` of a placeholder, from which on its
handler sees a backup), `RemovePlaceholder` (`rmdir`), `MoveAway` and `Commit`
(the two `os.replace`), each of which may fail or be interrupted
(`MoveFails`, `PlaceholderStays`, `RenameFails`, `CommitFails`,
`CommitInterrupted`); `ClearLive` and `RollBack` are the handler, and
`RemoveBackup` what follows a commit. `undone` remembers why a handler ran over a
live set that nobody had moved away, until a later publication is durable.

### Phase studies

`PhaseStudies` runs one sequential study per behaviour (`study`):

* `NodeSelection`: the affinity selectors S3 and S4 with linker, sticky homes and
  fallback, and the gate row of the reuse analysis on the same trace. `Owner`
  stands for the hash ring.
* `KvsReplay`: `run_m5_case` in three topologies over `PrefixStore` (the shared
  store with its two indices, HBM and DRAM caches, the tiered observation).
* `DecodeLease`: quanta, continuations, recovery and migration. A generated
  block is named by its parent, its request's line and its index, which is what
  its hash covers.
* `Lifecycle`: five protocols against tiered deadlines.
* `Sizing`: the grid in a pool of workers that finish in any order, gates,
  minimum with certificates, and both frontiers; `AttemptMetrics` holds the
  ratios. What the attempts of a cell come to is a choice.
* `Placement`: six strategies against caches and queues that change between a
  plan and its start. Blocks are one token long; where the code hashes a name
  to pick a node, any node may be picked; nothing is evicted.

## 3. Runs

| Run | Question | Result |
|---|---|---|
| `chain_stream` | Is the user's stream exactly once, in order and fenced through refusals, leases, grants, crashes and stray frames, does the chain implement `FencedOutputStream`, and does a selection ever rest on a map older than one already seen? | holds, 308,254 states |
| `local_replay` | Do pins, slots, inflight entries, policies and views stay sound, and does the replay drain? | holds, 67,942 states |
| `local_waiter_pins` | Do a waiter's pins hold until it starts? | violated |
| `kernel_run` | Are pools used one attempt at a time, in order, with nothing seen early and no attempt lost, under any policy? | holds, 178,136 states |
| `kernel_backlog` | Does the work a run is charged fit its pool? | violated |
| `decode_credits` | Do credits stay within capacity, does the ledger agree with the kernel and never raise, does everything settle? | holds, 167,624 states |
| `eviction` | Do the policy's order, the census and the digest ledger agree with the kernel's caches, and does the last copy of a hot key stay? | holds, 1,050,790 states |
| `eviction_room` | Do the victims the policy reports make room for what the request brings? | violated |
| `hardware_labels` | Is every hardware label on disk one a run earned, whatever dies or restarts? | holds, 123,093 states |
| `evidence` | Is the log kept and its report true; is each damage charged once and each verdict unanimous; is a publication whole and the grid's outcome the truth? | holds, 1,915,987 states |
| `publication_failure` | Does a publication that fails leave the last committed set in place? | violated |
| `phase_studies` | Does affinity give way only under load; do tiers, leases, bookings, verdicts and placements keep what they promise? | holds, 278,934 states |

### Bounds, and why they are enough

* Chain: two hosts (a refusal needs another to go to), three attempts (a leg, a
  second that supersedes it, and a third after a crash or a grant), output
  positions 0..1 (a frame before and after each change of fence), views of two
  epochs, either of them too old or not (newer, older, equal), and an instance
  with and without the capability that grants need. `MaxAttempts`, `MaxOutput`
  and `MaxViewEpoch` bound the instance only; the budget and the rounds are the
  code's and are small enough to be exhausted. `Explored` keeps what only the
  selection can tell apart to the first attempt (the second host to two), and what
  comes after an end that was not forced to two attempts. The run is in enforce mode with
  a budget of 2: the refusals of REQUIRED mode and the budgets 0 and 1 are covered
  by the proofs, which have no bound.
* Simulator: one node, because nodes share nothing but the clock and the view;
  two blocks of capacity against three to four distinct blocks, so that every
  placement evicts; up to three slots; delayed views two units old. Block 3
  takes as long as blocks 1 and 2 together, which makes finishes coincide.
* Kernel: three requests over two prefill and two decode nodes. Two arrive at
  one instant on one node, the third arrives while they run and may claim what
  the first leaves; one retry; a cache of one entry that must evict; plans that
  fail with and without a reusable prefill, fences that outlast the node, an
  aborting lease. A window of 12 lets some runs end and cuts others short.
* Credits: capacity 3 against predictions 1, 2 and 4 for outputs of 2 and 3, so
  predictions are too low, exact, too high, and wider than the capacity (two
  chunks). The window of 40 is longer than any run, so that liveness is not an
  artefact of the window.
* Eviction: two nodes of two keys each, three keys and five requests, two of
  which overlap with a common prefix: every admission after the first evicts.
  A census of two entries (of three keys) is at its limit; refreshes every 2
  units and observations visible 1 unit late interleave with three moments of
  arrival; a history of three accesses forgets.
* Hardware: two machines behind one URL and two names for it, so that every
  pair can be confused; two calibrations (one replaces or betrays the other)
  and a validation; each directory's files are all named, and a run may die
  between any two. Machines and names are symmetric.
* Evidence: three pushes of two requests with two attempts each are the fewest
  that repeat one attempt, overtake another and leave a torn tail between two
  whole lines; two cells with up to three damages each let one attempt have
  every pair of defects while a cell outweighs another; three arms with three
  scores give tau-b its ties on either side. One regime at one arrival scale,
  one failing cell, one thread that outlives its join, two processes.
* Studies: 4 routed requests and a refresh every 3 (a threshold that is learnt
  and one that is stale), 3 nodes, families of at most 3; 4 KVS requests over
  tiers of 2, 3 and 3 blocks, which all overflow; 2 leases of up to 6 tokens,
  blocks of 2 tokens and quanta of 1 to 5 (full and partial blocks, a second
  and a last round); 3 lifecycle requests over 2 prefill nodes and 1 decode
  node; a sizing grid of 2 counts and 3 topologies, whole and truncated; 3
  placements over 2 nodes, with families of at most 2. `HYBRID`'s comparison of
  two non-empty prefixes needs longer prompts than these.

Deadlock is checked except in the runs of the chain (a finished request stops),
of the simulator and the kernel (a drained heap stops) and in
`hardware_labels`, where nobody need start another run. In the eviction,
evidence and studies models the end of a run is a stuttering step of its own
(`Over`, `Judged`, `Stopped`), so that any other stop is found.

### Fairness

The chain is passive: its methods are called by clients that may stop, so its
specification has no fairness and no liveness is claimed. The two event loops
pop until their heap is empty, in one thread, so weak fairness on popping is
what the code does (`WF` on `PopEvent`, `KernelNext`, `PolicyNext`). Arrivals
of the simulator's trace are not fair: `ReplayDrains` says that whatever has
arrived is completed. The scripts and studies make no liveness claim: they are
processes that may be killed, or loops over a finite trace.

## 4. Properties worth reading first

Each checked name is a conjunction of named parts, with a comment on each. The
type invariants are parts too: of `PinsMatchRequests`, `AttemptsAdvance`,
`LedgerMatchesKernel` and `ClaimsAreEarned`; `chain_stream` lists its own.

* `ExactlyOnceInOrder`, `SupersededLegsFenced`, `LedgerMirrorsFence`: the fence
  and the durable ack agree at every point a crash could hit.
* `AdvisoryReportNeverRaises`: every report that gets past the harness's own
  checks passes the controller's, although the controller may hold an authority
  object from before a restart.
* `SlotsFilledExactly` (with `RunningHitsResident`, `NoDuplicateCompute`),
  `DelayedViewReadsThePast`: the cache as running requests, waiters and delayed
  readers see it.
* `AttemptsAdvance` (with `OneFuturePerAttempt`): an attempt is always ahead of
  exactly one event, so it is neither lost nor carried on twice, stale wake-ups
  included. `NobodyOversleeps`: an abort frees a decode node early and
  everybody gated on it is woken.
* `CreditsWithinCapacity`, `LedgerMatchesKernel`: a decode that overruns its
  prediction invalidates reservations but loses no debt, and the fences are
  always ones the ledger honours.
* `ViewsNameTheCache`: three books about one cache, each changed by other code
  at another moment, agree with it as long as every proposal was applied.
* `LogIsKept`, `ReportTellsTheTruth`: the log through every way to die, and the
  report's fold against a declarative reading of the records.
* `JoinIsExact`: the oracle and the join are two derivations of one ledger.
* `PublicationIsSafe`, `GridStopsAtItsLimit`, `OutcomeTellsTheTruth`: what a
  reader of the results directory may conclude from it and from an exit code.
* `ClaimsAreEarned`: a complete validation can be followed back to the
  calibration, the commit and the machine it names.
* `VerdictIsSound`, `PlacementIsSound`, `AffinityIsSound`, `TiersAreSound`,
  `LeasesKeepTheirTokens`, `BookingsAreHonest`: one promise per study.

Each has a mutant in `PROJECT.json`: a plausible bug, kept beside the definition
it would replace, that breaks it.

## 5. Proofs

`ChainHarnessProofs` proves, for every set of hosts, maps and capabilities,
every mode, budget and bound, from `HarnessAssumption` alone:

* `TypeCorrect`: `Spec => []TypeOK`.
* `Invariance`: `Spec => []IInv`. `ExactlyOnceInOrder` is not inductive. It
  needs the fence to stand at the user's position (`FenceAtUserPosition`), which
  a restart preserves only because the ledger mirrors the memory
  (`LedgerMirrorsFence`), and a grant only because no leg is ahead of the fence
  (`LegNeverAheadOfFence`). Fencing needs that only the active leg has the live
  epoch (`SupersededLegsFenced`, `AttemptsOutliveNoLeg`,
  `LegIdentitiesAdvance`) and that the stream is below it (`FramesUnderFence`).
  That reports never raise needs `ControllerInSync`: once a client-driven
  advance puts the controller behind, the harness's own check keeps it there.
* `ExactlyOnce`, `SupersededLegsStayFenced`, `LedgerIsCurrent`,
  `ReportsNeverRaise`: consequences of `IInv`.
* `Refinement`: `Spec => ImplementsPromise`; a frame the fence accepts is a
  `Write`, an admission a `Grant`, and lease expiry, a grant to move and a
  restart are each one `Revoke`.

The proof of a step has one case per action. The actions that move the fence
share `FenceRaised`, those that judge a frame share `FrameJudged` and
`FrameKeepsIInv`, and the rest share `QuietStep`.

Of its retries and its views it proves, under the same assumption:

* `RetriesAreAccounted`, `Spec => []RetryLedgerSound`, from `LedgerInv`: the
  failed hosts are finitely many (or their number would mean nothing), the
  ledger is sound, and a budget is exhausted only while no leg is active. The
  last conjunct is why a refusal can never be charged past exhaustion.
* `ExhaustionEnds` and `SelectionsNeverRegress`, the two action properties, from
  `IInv` and `LedgerInv`, and from `TypeOK`.

`EvidenceProofs` proves all four parts of `Evidence`, for any number of processes
(`MaxRunsAssumption`), any value of `Absent` that is not a directory's
(`AbsentAssumption`), any requests, decisions and bounds of the log
(`DecisionAssumption`), and any attempts, values, cells, arms, scores and
thresholds of the replay (`ReconciliationAssumption`: attempts and arms are
finitely many, the two fraction thresholds are not negative, and the one of tau-b
has either sign, as `ShadowPolicy` allows):

* `PublicationStaysSafe`, `Spec => []PublicationIsSafe`. `PublicationIsSafe` is
  not inductive: `StepKnows` adds what the script relies on at each step (the
  placeholder is empty and is gone before the first rename, the staged set is
  whole, the live directory is out of the way before the commit and the new set
  after it, the backup holds what was moved), and `DurableIsKept` that the last
  committed set is never *only* in a live directory that a handler is about to
  empty (`Settled`). What it promises ends where the code's promise does: from a
  rollback over a live set (`undone`; finding 4 of section 6) until the next
  durable publication.
* `GridStopsInOrder`, `Spec => []GridStopsAtItsLimit`. `GridInv` adds who
  may hold a signal at each stage of a guarded cell as long as no thread has
  outlived its join (`strays`): the handler in place is that of the running
  cell (`Watched`), between cells there is neither handler nor thread nor
  signal (`Resting`), and an aborted grid names its cell.
* `OutcomesAreTrue`, `Spec => []OutcomeTellsTheTruth`, from `OutcomeInv`, which
  adds to the two above what the main thread has done at each phase: the cells
  still queued, the results and the failures never overlap and make up the plan
  of the probed pairs (`Recorded`), and an exit code is chosen only after the last
  rename (`Returned`). That the verdicts hide no gap is a case per gate.
* `LogStaysKept`, `Spec => []LogIsKept`. That an open sink reads back depends
  on what is still in the file object: `LogInv` says that the pending records
  come after every finished line, and that a line which was only begun is the
  last one and of the first pending record (`Pends`), so that the next flush
  completes it instead of garbling it; that every line before the last is whole
  (`FileFits`), which is why recovery never cuts into a record whose write
  returned; and that those records are below what fsync covered, or in a whole
  line as long as the machine has not gone down (`Remembered`).
* `ReportStaysTrue`, `Spec => []ReportTellsTheTruth`. `Tallied` is what the
  loop of the report knows after `k` records: what it has seen, that a request's
  high-water mark is an attempt it has seen and none it has seen is above, and
  that each status was counted once for each record that deserves it. A record
  that is no duplicate is then below the mark exactly when an earlier one of its
  request was not below it, whatever was counted out of order in between.
* `JoinStaysExact`, `Spec => []JoinIsExact`, from `ReplayInv`: a plan damages a
  record at most once (`PlanFits`), each source holds of an attempt exactly what
  that damage leaves (`BundleFits`), and a report is the join of this bundle. The
  oracle, which reads the plan, and the join, which reads the bundle, then charge
  every attempt alike; an attempt the plan does not touch has no defect in
  either, which is why the oracle may pass over it.
* `VerdictsStand`, `Spec => []VerdictStands`. The worst cell exists, because
  cross-multiplied fractions of finitely many cells have a least one
  (`FractionsInOrder`, `WorstExists`), and a gate it passes is passed by all.
  That a ranking with a tau-b orders some pair on both sides is
  `BothOrderOne`: to be tied is an equivalence on each side, and two
  equivalences that together relate all arms are not both proper, so that one
  ranking ties everything and the denominator is 0. That tau-b is
  within [-1, 1] bounds the excess by the pairs both sides order.

`LocalSimulatorProofs` proves the four safety invariants of the replay, for any
nodes, blocks and prefixes, block sizes, capacities, configurations and lengths
of the trace, from `SimulatorAssumption` and `CacheAssumption`: `PinsAreHonest`,
`SlotsStayFilled`, `PoliciesTrackResidents` and `DelayedViewsReadThePast`.
`SimInv` is the conjunction of

* `EventsInv`: each request has at most one event ahead of it, none is overdue,
  and what a start waits for is of its own prefix. Without it a waiter's pin
  could name a block nobody ever releases;
* `NodeInv(n)`, for each node. `CacheFits`: the lists of the policy are
  distinct, disjoint, and make up the resident set. `QueueFits`: the items of
  the queue that were promised a slot are those with a start ahead, and nobody
  queues who runs. `SlotsFit`: slots are taken by those who run and those who
  were promised one, and one is left only when all who queue were promised
  theirs. `PinsFit`: the pins of a block are the running requests that hit it,
  and with dedup what a running request computes is in flight, which is why the
  next one waits instead of computing it too. `HistoryFits`: the open intervals
  are those of the resident blocks, and those that cover the time of the view
  are what the node held then;
* `ViewInv`: a finish that is due at the very time of a view computes nothing.
  A view stands between two events of the same instant, and the history cannot
  tell a block placed after the view from one placed before it at that instant;
  such a finish places only blocks it has pinned, so that nothing is evicted
  (`PlacedFits`);
* `OnePass`: the replay without queues leaves no event and takes no view.

Each event has a lemma (`ArriveKeeps`, `ReplayAtArrivalKeeps`, `WaitKeeps`,
`RunKeeps`, `FinishKeeps`). They share `LookedUpFits` and `PlacedFits`, what a
lookup and a placement do to any cache under any of the four policies (pinned
blocks stay, an eviction finds a victim or the block is not inserted), by
induction over the prefix; `NodeScheduled`, that the trailing
`_schedule_starts` fills the slots; and `HistoryWritten`, that the residency
history follows the cache.

`KernelProofs` proves all five safety invariants of the kernel, for any
workload, nodes, plans and window (`KernelAssumption`). `KernelInv` is the
conjunction of

* `LifeInv`: the fields of an attempt are set in order and never ahead of time
  (`AttemptShape`); in each state it has the event that carries it on
  (`AttemptGoesOn`); each event fits the attempt it is about, stale wake-ups
  included (`EventFits`); of the kinds that carry on there is one each
  (`OneNextEvent`);
* `NodeInv` and `OrderInv`: a busy prefill node is in exactly one event, those
  who wait are those who became ready and have not started, and starts are in
  the order of readiness, so that a finish precedes the next start;
* `DecodeInv`: a decode node is free no sooner than each of its decodes ends,
  which an abort preserves although it moves that time *back*;
* `SleepInv`: somebody gated has a wake-up no later than its node is free;
* `CacheInv`: each key of a cache is from an attempt that was published.

It then proves the three invariants of the decode credits, for any capacity, predictions and gate, from `PolicyAssumption`,
`CapacityAssumption` and `KernelAssumption`, and `KernelUnderPolicy`: all of the
kernel's invariants hold under the policy too, because each of its actions is
one of the kernel's with plans the kernel accepts. `PolicyInv` adds to
`KernelInv`

* `LedgerOK`: the credits held are within the capacity at *every* time, past
  and future, not only at the starts `CreditsWithinCapacity` looks at. That is what makes room findable: the last release is always free
  (`AvailableIsFree`), the chunks of a wide decode fit one after another
  (`ChunksInARow`), and an activation that overruns invalidates every
  reservation it overlaps (`ActivateKeeps`);
* `MatchInv`: the ledger executes exactly what the kernel runs, from when it
  runs, and owes its credits exactly to the attempts the gate has promised them
  to (`Promised`), of which those with a live reservation do not run yet;
* `AbortInv`: only a first attempt is aborted, and no plan fails on its own.

`HardwareProofs` proves `EveryClaimIsEarned`, `Spec => []ClaimsAreEarned`, for
any machines, names, gates and bounds, from `HardwareAssumption`.
`ClaimIsBacked` speaks of a whole set on disk; `HardwareInv` says why it holds
whatever is torn: no run stands in a directory for another verdict than its own
(`DiskInv`, `JobInv`), and an accepted validation was backed when it was judged,
because it saw its calibration's set whole (`HistoryInv`).

`EvictionProofs` proves the two invariants of the eviction for any nodes, keys,
workload, capacity, policy and delays (`PrefixAssumption`): `ViewsStayTrue` and
`LastHotCopyIsSafe`, from `EvictionInv`. As long as no proposal was dropped and
nothing failed, the books are the cache (`Books`): the order of a node is a sequence of
what it holds, every census entry names holders that hold its key, and every
observation that is still to become visible is true already. What keeps the
census true is that a node which evicts a key strikes it from the entries *and*
from the pending observations; what keeps the caches within the capacity without
overlaps is that a plan reserves room for what it adds, so a mutation never evicts
what it admits unless the run fails. The census is a sequence that is
sorted, cut and flattened; that each of these keeps its members is proved first.

`StudyProofs` proves what five of the studies promise, as theorems of the
specification of `PhaseStudies`, for any pools, prices, requests, views, grids,
floors, tiers and limits (`LifecycleAssumption`, `PlacementAssumption`,
`SelectionAssumption`, `SizingAssumption`, `StoreAssumption`,
`KvsAssumption`):

* `BookingsStayHonest`, `Spec => []BookingsAreHonest`, from `LifeInv`: a pool is
  booked up to the time it counts as free, by every record that booked it. Each
  outcome gives back another part of its booking, so each has a lemma: a
  rollback books decode only under the protocols that decode first, a failed
  handoff not at all, a cut-off up to the deadline. `GateForesees` compares what
  the gate computes with what the booking then does, and needs the weight of the
  tier to be one or less: a STRICT request weighs two, a STANDARD one, a RELAXED half.
* `PlacementsKeepTheirPromise`, `Spec => []PlacementIsSound`, from `CoverInv` and
  `FamilyInv`. What an attempt was scored with is covered when it starts,
  because what it counts on is in its reach when it is planned (`DecisionIs`,
  under all six strategies, whatever node they pick) and caches only grow
  (`CoverGrows`). Families share their root because every prefix that points to
  a family begins what all of the family's requests begin with; a prefix that is
  taken over from a full family belongs to the request that takes it.
* `AffinityHolds`, `Spec => []AffinityIsSound`, from `SelectInv`, which has a part
  per clause. `HotInv`: counts and histogram of both trackers are the tally of
  the trace (`ObserveIs`: moving a block from one bin to the next keeps it one),
  and the threshold is the one a reader of the trace would compute, since the
  percentile over the bins and the one over the blocks count the same blocks
  (`PercentileIs`). `LinkInv`: the sizes are true and capped, and every prefix leads
  to a family that has a request and begins with it. It is stronger than the
  shared root, which a prefix that is registered in passing could otherwise
  break later. `KeyInv`: whatever went to a key without a fallback went to its
  primary, so a fallback in between moves nobody's home.
* `VerdictsHold`, `Spec => []VerdictIsSound`, from `SizeInv`: no cell is planned
  twice or planned and run (`PlanIs`, for any set of counts, cut at any limit),
  so that what ran is a grid in whatever order the workers finished, and what was
  published is the verdict of what ran. Of any grid, `FirstIs` says that the first
  feasible cell is the least; `PairIs` that the cells with one node less are one
  per topology, which is what counting them relies on; `MinimaRise`
  that the minima rise with the floor, since what meets a floor meets a lower
  one (`NotBelowTransits`, on cross-multiplied fractions); and `FrontiersMeet`
  that the ledger of a cell, measured again with deadlines scaled by one, gives
  back the observation the cell was judged by (`OnTimeIs`).
* `TiersHold`, `Spec => []TiersAreSound`, from `KvsInv`: every cache and the
  store are lists of distinct entries within their capacity (`LruFits`,
  `StoreFits`), in which a use moves its entry to the end. A placement files the blocks of a prompt one after
  another (`LruPlaces`, `ObjectPlaces`); `AllFiled` shows that as many as the
  list may hold are all there at the end, because what this request refreshed or
  inserted is the young end of the list and the victim is the oldest that it did
  not insert. The four indices of the store are functions of the set of its
  objects, which grows or shrinks by one copy at a time (`CopyComes`,
  `CopyGoes`), so they agree after every request (`FitsAgrees`).
  `ObservedSplits`: an observation splits the tokens of a prompt into what is
  local, what is elsewhere and what is computed, and what it migrates is in the
  store. `CandidateIs`: a node is charged for what it found elsewhere, since the
  best prefix in the cluster is no shorter than what the node itself found.

`SumTheorems` holds what these proofs needed of finite sums, of induction over
finite sets and intervals, of functions defined step by step, and of the
operators on sequences: what a list that is kept by recency does when an entry
is filed, that the sum over an interval is that of its parts, and that a least
score exists among them. The library states those with an operator
parameter, which the provers cannot instantiate; here the set of all subsets
(numbers) with a property takes its place. Sums are `SumFunctionOnSet` of a
function, for the same reason, and chunks are a recursive function.

Only model-checked:

* one of the six studies: the leases (see section 8);
* all liveness (fairness and ENABLED are beyond the prover);
* what `SelectSeq`, `FoldLeft` and the other operators of operators compute,
  which no prover here can expand. The modules that are proved about use
  recursive functions, set expressions and `FlattenSeq` instead.

## 6. Where the code and its documents disagree

With a run:

1. `local_waiter_pins`: `waiter_pins` is a set without a count, so the start of
   one waiter (`simulator.py:422`) unpins the blocks of another; its pinned
   block is evicted and computed again. DESIGN-v3.md:376 forbids evicting a
   pinned block.
2. `kernel_backlog`: a run that ends on a backlog is charged all the decode work
   of attempts that never decoded, and the report raises instead of censoring
   them (`m12_metrics.py:407`).
3. `eviction_room`: the additions of a mutation are counted before the victims
   are chosen (`m12_eviction.py:346`), a victim may be a block of the same
   request, and the kernel admits that block again beyond the capacity:
   `m12_kernel.py:1064` raises "cache admission exceeds bounded capacity". Two
   requests that overlap on a full LRU node suffice, in the code as in the
   model. The repository's own results never met it: their 45 primary cells all
   have `capacity_binding=false`.
4. `publication_failure`: `_write_atomic` names its backup with `mkdtemp` and
   removes that empty directory again before it moves the live one there. If the
   removal fails, or an interrupt comes before it (`run_m12_final.py:1961`), the
   handler finds a backup that exists and a live directory "in its way": it
   deletes the committed set (1967) and renames the empty placeholder into its
   place (1968). A death in between leaves half a set. The test
   `test_atomic_directory_swap_restores_old_tree_on_replace_failure`
   (`test_run_m12_final.py:384`) promises the old tree back, and injects only a
   failing rename. `PublicationIsSafe` holds of every path that does not take
   this one (`undone`).

Read off the code while modelling, without a run:

* `negotiate` subtracts what the instance reported from what the *owner*
  supports, so a capability neither side named counts as available
  (`chain/protocol.py:159`, against its docstring 156-158).
* `crash_and_restart` opens an attempt after the budget is exhausted
  (`chain/harness.py:906`, against docs/m11-production-rfc.md:67). Nothing
  visible follows, as that attempt can admit nothing.
* `event.wait_started_ms or event.time_ms` (`simulator.py:384`) takes a wait
  that began at 0.0 for none (against DESIGN-v3.md:825).
* With an observer attached, the default `logical_request_id` makes `select`
  raise after it has placed the leg (`chain/harness.py:487` and 505,
  `chain/decision_log.py:225`).
* `rollback_prefill` reads the frame count of the last leg, which a lease expiry
  does not reset: the rollback is refused in the next attempt
  (`chain/harness.py:534`).
* A rejected validation that had read an accepted calibration raises and writes
  no report (`run_m10_hardware.py:1204`, against line 50).
* A sweep that outlives a restart of the engine attributes its points to the
  machine of the handshake (`run_m9_hardware.py:380`).
* An attempt that all three sources lost is not charged (`reconcile.py:455`);
  nor does the sink detect records that were never written.
* An interrupt right after the commit rename rolls the commit back
  (`run_m12_final.py:1963` and 1974), as the same handler does in finding 4:
  while it empties the directory a reader may see half a set, but the one it
  replaces comes back. `LiveIsWhole` exempts it by name (`undone`),
  `CommittedSurvives` does not. The sizing script's fixed backup name makes the second
  publication after a crash refuse. The placement script publishes a failed
  grid under a valid manifest and then exits with 1.
* A watchdog thread that outlives its join can blame the next cell, swallow an
  abort, or kill the process (`run_m12_final.py:195`); `strays` exempts it.
* The lease study is called shared-clock (`decode_lease.py:1`) but books a whole
  prefill at arrival: a request at 100,000 ms delays a recovery at 30 ms by
  100,000 ms. Its drain branch (165-173) and `_full_block_prefix` are dead.
* "Match S4's history-only p99 rule" (`reuse_time.py`) holds up to prompts of 32
  blocks: the linker truncates (`affinity.py:60`), the analysis does not.
* `record_transfer` counts the first blocks of the prompt, not those of the
  remote segment (`kvs.py`); under P4 the partial tokens of a request that is
  cut off ignore the pull (`lifecycle.py`).
* After `finish` the chain still lets select, commit, admit, reject and report
  through, though nothing reaches the user; `place` may evict stranded resident
  blocks of the very request it places (DESIGN-v3.md:824 rules this out); a
  waiter's own hits are not pinned while it waits; the end of a prefill
  overtakes a wake-up of the same instant; an abort gives credits back but
  wakes only those gated on its own node.

## 7. What the models leave out

* Decision log: a stale map that fails open with a score is judged by that
  score, as in the code. Fields of a record beyond request, attempt and
  decision.
* Final grid: what a cell computes, Pareto dominance, the first divergent
  decision, the merge of a repair, and the gap a region reports when its cells ran
  with caches of different sizes (`CACHE_CAPACITY_MISMATCH`). The policies
  `execute_cell` wraps around the kernel (decision ledger, delayed census) are in
  `Eviction`. Errors inside probes and audit end the grid, as in the code. Two
  scripts at once on one directory.
* Sizing and metrics: the taxonomy of GPU work, goodput ratios, the check that a
  record has exactly the three tiers of the code (`_record_row` raises; the run has
  two); what a cell's run comes to is chosen per topology. Milliseconds and percentiles are never
  summed unless read back.
* Placement: the decode node (the least busy), evictions, `evaluate_g12_2`; the
  order of the kernel's events of different nodes is free.
* Selectors: S0, S1, S2, S5 and S6 keep no state of their own;
  `LocalSimulator` lets a selector pick any node, and S5 and S6 return in
  `Placement`. Nodes that are not alive: no view of the simulator has one.
* Prompts that repeat a block: `SelectionAssumption` and `KvsAssumption` rule them
  out. The loader does not check it, but a trace's block names hash their whole
  prefix.
* Lifecycle and leases: the action log, the ratios, `RelativeSloOverlay`.
* Decode credits: predictions of zero tokens (1e-9 durations in the code), zero
  capacity (raises), and the sums kept only for the report.

Not modelled at all: the scenario runner (twelve fixed scripts over the
harness, each call of which is an action of `ChainHarness`); trace parsing,
identities, configuration and the CLI; curve fits, HTTP transport and
serialisation of the calibration; payload readers and fingerprints of the
replay. They are pure functions or I/O, without states to explore.

## 8. What is left to do

Proofs: the lease study, which is only model-checked. It folds and filters
sequences with operators the prover cannot expand (`Continuation`, `Picked`), so
`DecodeLease` would first have to be written with recursive functions, as
`KvsReplay`, `Eviction`, `NodeSelection` and `Sizing` were.

Models: goodput metrics and `evaluate_g12_2` as further definitions of
`AttemptMetrics`; Pareto dominance and the first divergence of the final grid;
an abstract serving pool that runs one attempt at a time, which `CausalKernel`
would implement; a counted pin table that the simulator would implement once
finding 1 is repaired; placement and eviction together, so that a plan meets a
cache that shrinks.
