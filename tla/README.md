# racejack in TLA+

racejack runs the same storefront twice, once guarded against races and once not,
drives both with concurrent load, and judges what the shared PostgreSQL store looks
like afterwards.  This directory models the guards, the broken shapes, the
instrumentation that makes the damage reproducible, and the three programs that judge
(the harness, the comparison, the sequential demonstration), checks the models with TLC
and proves with TLAPS every safety property, action property and refinement that TLC
finds to hold, for all values of the constants.  Liveness is model-checked only.

Paths below are relative to `src/src/racejack/`.

## 1. The system

| Component | State it keeps | Operations | What makes it correct |
|---|---|---|---|
| Secure counter guards (`secure/guards.py` 44-143, `secure/app.py`, `api.py`) | `drops.units_sold`, rows of `orders`, row locks, open transactions; a connection pool per replica | place an order with a conditional UPDATE or under `SELECT ... FOR UPDATE`; 503 when the database fails | never more sold than there is, counter = rows, refuse only when sold out, every answer true |
| Secure redemption guard (`secure/guards.py` 146-176) | wallets, rows of `redemptions`, the unique index with its uncommitted keys | credit, record, roll back on a duplicate or an unknown target | one credit per code, no credit without its record |
| Vulnerable shapes (`vulnerable/shapes.py`, `vulnerable/app.py`) | the same tables; one `asyncio.Lock` per process; two pools per replica | the check-then-act unguarded, under the process lock, in one transaction, and on a code | it is meant to be wrong: how wrong, and what stays intact |
| Window rendezvous (`instrumentation.py` 90-236) | gate row, arrivals, timeline, `timed_out` | arm, disarm, arrive, rank, poll, time out, record, read back | the batch that should be inside together is, and the round ends |
| Harness (`harness/engine.py`, `burst.py`, `ledger.py`) | scenarios, references, rounds, checks | prepare, burst, read back, judge, exit status | never accuse a correct store, never pass a demonstration that did not happen |
| Seeding, schema (`seed.py`, `schema.py`) | fixtures, presence of the two backstop constraints | reset, pre-sell, drop and restore the constraints | each run meets the constraints it reports |
| Store views (`store.py`) | - | two read-only queries | each consistent in itself |
| Client (`httpclient.py`, `demo/client.py`) | replica URLs, pool | round-robin requests, given up on after 30 s | spreads a burst over the replicas; a program always ends |
| Audit (`audit.py`, `auditcheck.py`) | standard output | one event per refusal; compare the logs with the summary of a run | exactly one event per refusal |
| Configuration, fixtures, credentials (`config.py`, `fixtures.py`, `auth.py`) | constants, environment | parse, authenticate | values in range |
| Comparison (`compare/engine.py`, `compare/table.py`) | rows of a table | three harness runs, one round per scenario, reduced to rows; a narrative under the table | the narrative is true of the rows above it |
| Sequential demonstration (`demo/sequential.py`) | checks, refusals, remembered responses | seed, one request at a time, read back, judge, summary for the audit gate | it passes exactly when the secure application is as described, and counts only its own requests |
| Transcripts, artifacts, entry points, health check | - | print, write files, start | output only |

Requests reach replicas over HTTP; replicas share nothing but the database; inside one
replica requests interleave at every `await`.  The harness resets the store, drops or
restores the constraints and arms the gate through connections of its own, then sends a
burst through the replicas, and reads the result back through their two views.

The demonstration and the comparison use the same store, one after another with the
harness, and each finds what the others left.  `scripts/verify.sh` runs the audit gate on
the logs of the secure replicas when a demonstration has passed.

Hard behaviours: the interleaving of statements at READ COMMITTED (a blocked statement
re-evaluates on the committed version); a connection lost between two statements or
during COMMIT, where the client is told 503 while the server may still commit; pools and
locks at their limit; the two pools of a vulnerable replica taken in order; arrival ids
that become visible out of order; a deadline racing a late arrival; waves; a run that
dies between two statements or mid-burst and leaves constraints off, a gate armed and
requests in flight; a client that gives up while its request goes on, may still write and
may still write its audit line into the logs of the next run.  `PROJECT.json` lists each
under `hazards` with its line and the properties aimed at it.

## 2. Modules

| Module | Models | Composition |
|---|---|---|
| `DropLedger` | what is promised of one limited resource: units, owners, answers | the abstract specification |
| `SecureCounter` | both counter guards, any mix, any number of replicas | implements `DropLedger` (`ImplementsLedger`) |
| `SingleUse` | the redemption guard over codes and wallets | for each code implements `DropLedger` with one unit (`EachCodeIsALedger`) |
| `CheckThenAct` | the four vulnerable shapes, pools, process lock, backstop, waves | - |
| `Rendezvous` | `hold_window_open` and the gate, for a set of parties | - |
| `HeldBurst` | a deterministic round, with requests a dead round has left | extends `CheckThenAct`, instantiates `Rendezvous` |
| `HarnessRun` | runs of the harness one after another on one store | uses what the above show of a burst, in one step |
| `Comparison` | the comparison, before and after other runs of the harness | extends `HarnessRun` |
| `SequentialDemo` | the demonstration and the audit gate, before and after everything else | uses what `SecureCounter` and `SingleUse` show of one request, in one step |
| `SecureCounterProofs`, `SingleUseProofs`, `CheckThenActProofs`, `SequentialDemoProofs` | theorems about the module they are named for | extend it and TLAPS |
| `HeldBurstProofs` | the types of a deterministic round and its damage | extends `HeldBurst` and `CheckThenActProofs` |
| `HarnessRunProofs`, `HealthyRunProofs` | any run of the harness; a run nobody disturbs | each extends the one before it, the first `HarnessRun` |
| `ComparisonProofs` | the comparison and its table | extends `Comparison` and `HealthyRunProofs` |
| `MC...` | model values, scenarios and configurations of the runs | - |

How state and actions correspond to the code:

* **SecureCounter.**  `pc` is the statement a handler is at; `units_sold` and `orders` are
  committed, `inserted` and `rowLock` belong to open transactions, `seen` is the value a
  transaction read or wrote.  `ClaimUnit`/`ClaimNothing`/`Classify` are the conditional
  write, `LockDrop`/`DecideRefused`/`IncrementUnitsSold` the pessimistic lock,
  `InsertOrder` and `Commit` are common.  `ConnectionLost` answers 503; the backend then
  does `ServerRollback`, or `ServerCommit` if COMMIT had been sent.  The CHECK constraint
  is left out on purpose: `BackstopNeverReached` shows it is not needed.
* **SingleUse.**  The wallet row lock and the pending keys of the unique index decide who
  waits.  `InsertRedemption` succeeds, `UniqueViolation` rolls the credit back; an
  insert that meets an uncommitted key waits for its owner.
* **CheckThenAct.**  `check`, `window`, `act`, `insert`, `record`, `commit` follow
  `_check_then_act_on_the_counter` and `redeem_unguarded`; `value` is units sold or
  credits given.  `MaySend` is the wave of `concurrent_burst`; wave 1 is the sequential
  control.  `BackstopViolation` is the unhandled 500.
* **Rendezvous, HeldBurst.**  One action per statement of `hold_window_open`.  An
  arrival takes its id (`TakeArrivalId`) before its row is visible (`ArrivalCommits`).
  `GateSettings` is what the engine arms for the scenario.  `ghosts` are requests of a
  round whose client died, and may be anywhere before their write (`GhostsAreAbout`):
  waiting for the pool or for the process lock, about to check, at any statement of
  `hold_window_open`, or past it.  One that waits checks after the reset, as a request of
  the burst would.  One in the window may have the batch size of an older gate; its old
  arrival row is gone and a new one counts.  Behind a process lock at most one request of
  each process is past the lock, and that one holds it (`Holder`).
* **HarnessRun.**  `PlanOf` translates the three scenario builders; `Preparation` is the
  list of statements of a round, each executed by its own action; `Burst` may leave in
  the store what the other models allow; `ReadDrop` and `ReadWallet` are the two views;
  `RoundFailures` and `JudgeRun` are the checks; `failures = {}` is exit status 0.
  `Die` and `DieDuringBurst` end a run anywhere and leave `stragglers`, which may write
  at any later time, as far as their guard and the constraints let them.  Some of them
  (`late`) have yet to come to a gate: `BurstInterfered` is a burst one of whose batches
  such an arrival completes, so that fewer than the whole batch may write.
* **Comparison.**  A `CompareNext` turns the scenarios of a finished run into rows
  (`RowsFor`, first round of each key) and launches the next variant; `PrintTable` ends
  it, after one run when the vulnerable application does not answer its health check.
  No row depends on the checks of its run: the code prints the table either way.
* **SequentialDemo.**  `Script` is the list of statements of the four scenarios and the
  final check; `Seed`, `Send`, `Receive`, `ReadBack` and `Judge` execute them.  In the
  application, `Handle` is a request's transaction, `EmitRefusal` its audit line and its
  409; between the two, or before, `TimeOut` or `Die` may end the client and leave the
  request behind.  `Fail` is a 503 with or without the write.  `VulnerableRun`,
  `SecureRun` and `RestoreBaseline` stand for the other programs between two
  demonstrations.  `AuditGate` compares the logs with `refusals`.

## 3. Runs

| Run | Bounds | What it shows |
|---|---|---|
| `secure_counter` | 3 requests, 2 replicas, 2 units, pools of 1 | all safety properties of the guards, `ExactlyAvailableSold` (no unit is wasted), `EveryRequestAnswered` and the refinement |
| `single_use` | 3 requests, 2 codes, 2 wallets, unknown targets, pool of 2 | one credit per code, records and balances agree after any failure, one winner, refinement per code |
| `single_use_backstop` (violation) | as above | the redemption guard runs into `redemptions_single_use` as a matter of course |
| `check_then_act` | 3 requests, 1 or 2 replicas, 2 units of which 1 is sold before, or one code; waves of 1 to 3, pools of 2, 1 failure, with and without the backstop | the overrun is bounded by the width of the window plus transactions in doubt, is always visible in the timeline, never corrupts the two numbers, never passes the backstop; the two pools cannot deadlock; the burst ends |
| `racing_reads` (violation) | 3 requests, process lock behind one replica | refused requests form a "racing group" without any defect |
| `held_burst` | 3 requests, 2 units, 2 replicas, 1 failure, each kind of deterministic scenario; or a burst of 2 (redemption, single transaction, process lock at 1 and 2 replicas) and 1 request of a dead round, anywhere before its write, that may know a gate of 2 | at the engine's gate the damage is a function of the scenario, unless the valve was used or a request failed; a leftover request adds at most its own write; every round ends |
| `narrow_gate` (violation) | 3 redemptions in flight, gate of 1 | narrowing the gate alone does not narrow the damage |
| `harness_run` | 2 programs, each a harness run of any variant or a comparison, 2 replicas, 3 orders for 2 units, 3 credits, throttle step 2, 2 stragglers of which 1 has yet to come to a gate, 1 round per scenario | no false accusation, no false alarm, no unearned pass, a store that is as reported, and a table whose narrative is true, whatever the previous program died at |
| `sequential_demo` | 2 demonstrations of a drop of 2 units, 2 bad credentials, 1 failing request, any other program before, between and after | a demonstration is decided by the backstop alone, counts only its own requests, and always ends; the audit gate is exact up to events of others |
| `vulnerable_before` (violation) | 1 demonstration | a demonstration fails on the schema a vulnerable run has left |
| `throttled_to_all` (violation) | redemption concurrency = a throttle step | two scenarios share a key; the coverage check fails although all ran |
| `crowded_gate` (violation) | 4 requests, 3 connections | the gate cannot fill at one replica; the valve is the normal path |

Three requests are enough for the interleavings at issue: one holder of a lock, one
waiter that re-evaluates, and one that arrives after both; two units give a last unit
that is contested and one that is not.  The pool bound is below the number of requests
wherever exhaustion matters.  `MaxFailures` bounds lost connections and pool timeouts in
the two vulnerable models; the secure models bound nothing but the set of requests.
Every safety property is also proved for all values of these bounds (section 4); they matter
for liveness and for the violations only.

`MaxRuns` = 2 is one run and its successor: a run learns of earlier ones only through
the store, the schema, the gate and the stragglers, and all four are reset or carried
over by one step of that kind. In one run at most one burst has failing requests, and at
most one dead run's requests are in flight at a time. `MaxStragglers` = 2 is enough to
oversell two units by waiting behind the constraint, and `MaxLate` = 1 lets an arrival of
one of them interfere with a batch while the other is still about; the two violations of
the harness need neither.
The concurrencies of `harness_run` keep the relations of the defaults (60 orders > 12
units, 40 credits > throttle steps 8 and 2 > 1) with one throttle step, which is below
the full burst. `MaxGhosts` = 1: what a leftover request does to a round (complete a
batch, be held by it, open its valve, hold the process lock or queue for it, check after
the reset) it does on its own; `DamageDetermined` is proved for any number. In
`SequentialDemo` two runs give the second the requests, the schema and the logs of the
first; `MaxFaults` = 1 is one 503, or one answer without a view, per behaviour; a
harness run on the secure application writes one audit event.

The violated properties are quoted from docstrings, from the documentation or from a check
of the harness itself; each finding in `PROJECT.json` names both lines.

All these systems may stop, so `CHECK_DEADLOCK FALSE` is set: all requests are answered,
or all runs have been made.  Where progress is due a liveness property says so.

**Fairness.**  Weak fairness of each handler's own steps (the event loop runs every ready
task, PostgreSQL grants a free row lock and executes what it is sent), of the client's
sends, and of the backend noticing a lost connection.  Failures, pool timeouts and the
loss of a connection get none.  In `HeldBurst` a deadline must pass only once some
request has failed or used the valve, or one of a dead round is at the gate: as long as
the burst is alone and well, `RoundEnds` shows the batch fills by itself.  In
`SequentialDemo` only the client's own statements and its timeout are fair; nothing is
asked of the application, so `DemoEnds` rests on the timeout.

## 4. Proofs

The theorems hold for every finite set of requests, every number of units, codes,
wallets, replicas, rounds and runs, every pool size, every series of throttle steps and
any number of failures.  The assumptions are the named ones of the modules.  The theorems
state every safety property, every action property and both refinements that the passing
runs check.  What the assumptions ask for and where the code has it:

* `HarnessAssumption`: throttle steps differ, are more than one and there is one
  (`MODELLED_THROTTLE_STEPS = (8, 2)`, `harness/engine.py` 55), there is something to
  sell, a round to run and a connection, and one or two replicas (`config.py`).
* `RoundAssumption`: the burst has a request, no deterministic round has the backstop
  (`_prepare_round` drops it), and behind a process lock all but one unit is sold before
  the burst (`contested` in `_deterministic_scenarios`).
* `ComparisonAssumption`: one round per scenario and the same sizes for each variant
  (`replace(config, rounds=1)`).

The arguments, module by module:

* **SecureCounter.**  None of the properties is inductive.  `IInv` adds
  `LockDiscipline` (whoever has read or written the row inside a transaction holds the
  lock), `HolderIsCurrent` (so what it saw is still the committed value, and what it wrote
  is one more), `Stages`, `OrderOwners` and `RefusalsAreFinal` (a refusal, decided or
  sent, met a full counter).  From it: `TypeCorrect`, `NeverOversold`, `CounterAgrees`,
  `RefusalMeansSoldOut`, `AnswersAreTrue`, and `Refinement`, which maps each step to one
  step of `DropLedger` or to a stutter.  `ExactlySold` adds `KnownAnswers` and `Audited`
  (the events written are as many as the requests refused) and counts: when all is
  quiet, the known requests are the owners of the orders and the refused, which are disjoint.
* **SingleUse.**  `IInv` adds who holds a wallet row, who holds an uncommitted key, and
  that a code has at most one record.  From it: `TypeCorrect`, `CreditsAreRecorded`,
  `SingleCredit`, `RefusalMeansRedeemed`, `AnswersAreTrue`.  `OneWinner` maps the
  redemptions one to one to the codes asked for.  `Refinement` sorts the steps into those
  that tell one request its answer, those that record one redemption and those no ledger
  sees (`Tells`, `Records`, `Hidden`); an invariant says why a recorded code had no redeemer.
* **CheckThenAct.**  Nothing protects the check, so no bound on the value is inductive by
  itself.  What is protected is the act: whoever has written and not committed holds the
  row (`OneWriter`), so at most one write is pending, and value and rows change together.
  `IInv` adds `Stages`, `RowOwners`, `RefusalsAreFinal`, `PendingFits` (with the backstop
  a pending write leaves the limit alone) and `WritersHaveRead` (whoever wrote had read a
  value below the limit, and the timeline has it).  From it: `TypeCorrect`,
  `CounterAgrees`, `BackstopSuffices`, `AnswersAreTrue`.  `OverrunVisible` is a pigeonhole argument: an oversold burst has
  more writers than values they may have read.  `InstrumentationNeverWaits` needs
  `PoolRespected` for both pools and the order in which they are taken.
  `SumBounded`: the value plus the writes still to come passes the limit by less than the
  width of the window plus the failed requests.  While the limit is not met,
  `WindowIsNarrow` bounds the writes to come, because requests in flight are one wave
  (`OneWave`) or one per process (`LockHeld`); once it is met, no check lets another in
  and the sum cannot grow.  From it: `OverrunIsBounded` and, with `ViolationsAreFinal`, `ExactOneAtATime`.
* **HeldBurst.**  `HeldTypeCorrect` needs `BatchesAreKnown`: whoever is in
  `hold_window_open` has read a batch size that is not zero.  A step of a round is a step
  of a burst or stutters (`HeldIsNext`), so what is proved of a burst is at hand:
  `RoundIsABurst` says so of a round without leftover requests, `HeldAnswersAreTrue` of
  any.  `DamageDetermined` is two arguments.
  From above, whatever is at the gate: behind a process lock, `LockSumBounded`, an
  instance of the lemma behind `OverrunIsBounded`; otherwise `WritersAreNeeded`, because
  once the waves it takes to sell out (`WavesNeeded`) have been answered, all of them have
  bought or somebody was refused, so the limit is met and nobody else enters the window.
  From below, for a round that is `Alone` (nobody left of a dead one, no failure, no
  valve), `Orderly`: the place in `hold_window_open` tells who has arrived (`Staged`), ids
  are given in the order of the waves (`IdsGrow`), so that the rank of an arrival lies in
  its own wave (`RankTellsTheWave`), its target is the end of that wave
  (`TargetIsTheWave`), and nobody passes before all of the wave has arrived
  (`FullIsTheWave`, kept by `WavesAreWhole`).  So nobody of a wave that is needed finds the
  limit met (`TurnedAwayIfNotNeeded`), and all of it buys.  Behind a process lock every
  writer has read the last unit, and who passes has seen one arrival per process.
* **HarnessRun.**  `IInv` follows a preparation statement by statement: `PreparationDone`
  says which part of the store each statement already executed has put in order, whatever
  an earlier run left, and `SecureStore` and `SecureView` what the requests of a dead run
  may still do to a store whose constraints are on.  `ResultsAreJudged` and
  `ResultsAreThere` carry what a round has measured into the failures of the run.  From
  it: `TypeCorrect`, `SecureIsSafe`, `StoreIsPrepared`, `RestoringSucceeds`,
  `PassesAreEarned`.  The plan is a concatenation of lists of scenarios; the lemmas say
  what its elements are, never what its i-th one is.
* **HealthyRun.**  `HInv` adds what a run that has the store to itself leaves after each
  burst, exactly, and follows it through the view, the references and the results
  (`ViewIsOfStore`, `BurstIsExact`, `ReferenceIsExact`, `ResultsAreExact`) to
  `NothingFails`, hence `HealthyRunsPass`: no check raises a false alarm.  The coverage
  check compares numbers of keys; it holds because different scenarios of an ample plan
  have different keys.
* **Comparison.**  A step of a comparison is a step of a run or of the table alone, so
  `HInv` is kept by the lemmas above (`ComparedRunsAreSound`); `CInv` adds that each row
  comes from a finished run of its variant and, in an ample run, says what the plan
  predicts.  From it: `ComparisonTypeCorrect`, `TableIsHonest`.
* **SequentialDemo.**  `Positions`, `Chapters` and `NextPosition` say what the i-th
  statement of the script is, for any number of units and credentials.  `IInv`: the
  client waits for a request of its own, requests in flight were handed out, the refusals
  are those of the scenarios judged so far, the answers are in the order of the script,
  what was confirmed is stored, each event of the run is counted.  From it:
  `DemoTypeCorrect`, `ConfirmedAreOwn` and, an action property, `GateIsExact`.  `UInv`
  adds what an undisturbed run has been answered: `VerdictIsOfTheBackstop`.

Only model-checked: the liveness properties `EveryRequestAnswered`,
`EveryRedemptionAnswered`, `BurstCompletes`, `RoundEnds` and `DemoEnds`, because the
provers know neither weak fairness nor `ENABLED` here; and the violations, which are
counterexamples and need no proof.  `Rendezvous` has no theorem of its own: what its gate
is worth depends on who enters the window when, and is proved where that is known.

## 5. Abstractions

* A backend whose client is gone while it waits for a row counts as ended; one that holds
  the row rolls back, or commits what was sent, at a time of its choosing.
* In `CheckThenAct` the check and its timeline entry are one step, and a failure of the
  instrumentation connection rolls the outer transaction back at once.
* Amounts in cents are multiples of the code's value and are counted.
* In `HarnessRun` a burst is one step whose outcomes are those the other models show;
  requests in flight from a dead run act between steps, or complete a batch of the burst
  (`BurstInterfered`).  Statements that
  are one transaction in the code (`reset_fixtures`, dropping or restoring both
  constraints, arming the gate) are one step.
* In `RoundFailures` three checks are left out.  That of the racing groups and that of
  partial redemptions ask something of the applications, which `OverrunIsVisible` and
  `CounterMatchesRows` of `CheckThenAct` and `WalletsMatchRedemptions` of `SingleUse`
  show; that of the isolation level compares a constant of the deployment.
* In `HeldBurst` the requests of a dead round are of the shape of the round, as those of
  an interrupted repetition are; what they write between the reset and the burst is as
  if they wrote first thing in it.
* Time is abstract: a party that waits for a batch may find its deadline passed at any
  poll, and a client's timeout may expire whenever it waits for an answer.
* In `SequentialDemo` a program other than the demonstration is one step that leaves what
  `HarnessRun` says it leaves; the logs of the vulnerable replicas are not the gate's.
* In `Comparison` the cells of a row other than overrun and verdict are stood for by the
  scenario's place in its plan; of a run that was disturbed only the verdicts are kept.

Not modelled, and why:

* Transcripts, artifacts, entry points and the health check: output and process start-up
  with no state that a later step reads.
* The layout of the table, the wording of events and answers: the checks in the code
  compare constants.
* Parsing of headers, tokens and the environment: total functions of one input without
  state; their results (a valid buyer or a 401, a legal configuration) are inputs of the models.
* `wait_until_ready`: it polls before a run touches anything, and a run it ends has done
  nothing.
* The limit of 400 entries of `read_timeline`: a burst of at most 96 requests writes
  fewer.  The check on the isolation level compares a constant of the connection; the
  check on racing groups of a round follows from `OverrunIsVisible`.

## 6. Plan

Done: the guards, the vulnerable shapes, the rendezvous, the harness, the comparison and
the demonstration with the audit gate; the theorems of section 4.  Next, in this order:

1. `HarnessRun` assumes of a burst what the other models show, in one step.  State as
   theorems that the values a `CheckThenAct` burst and a `HeldBurst` round end with are
   among those `Burst` may leave, and the same of `SecureCounter` and `SingleUse`.
2. The same for `SequentialDemo`: one request of `SecureCounter` or `SingleUse`, alone, is
   one `Handle`, `Fail` or neither.
3. The converse of the findings: with a gate of one and a burst of one, the vulnerable
   code is exact; with throttle steps below the concurrency, coverage is not denied.
