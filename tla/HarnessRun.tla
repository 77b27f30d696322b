------------------------------ MODULE HarnessRun ------------------------------
(***************************************************************************)
(* The concurrent load harness, harness/engine.py: runs of it one after    *)
(* another against the same shared store, each a list of scenarios, each   *)
(* scenario some rounds of prepare, burst, read back and judge.            *)
(*                                                                         *)
(* A burst is one step here: what it may leave behind is what SecureCounter*)
(* SingleUse, CheckThenAct and HeldBurst show of it.  A run may die at any *)
(* statement, and a run that dies during a burst leaves requests in flight *)
(* in the applications (stragglers) that write when they please.           *)
(***************************************************************************)
EXTENDS Integers, FiniteSets, Sequences, SequencesExt

CONSTANTS
    UnitsAvailable,  \* fixtures.DROP_UNITS_AVAILABLE
    ThrottleSteps,   \* MODELLED_THROTTLE_STEPS, a sequence
    Configs,         \* the harness configurations the operator may run
    Rounds,          \* rounds of each scenario
    PoolSize,        \* pool_max_size of a vulnerable replica
    MaxRuns,         \* bound: runs of the harness
    MaxStragglers,   \* bound: requests an aborted burst leaves in flight
    MaxLate          \* bound: of these, the ones that have not been at a gate yet

Variants == {"secure", "deterministic", "natural"}
Invariants == <<"counter", "single_use">>
Constraints == {"drops_units_sold_within_availability", "redemptions_single_use"}
Verdicts == {"invariant_held", "invariant_violated", "inconclusive"}
Anything == -1
NoGate == [expected |-> 0, arm_at |-> Anything]

ASSUME HarnessAssumption ==
    /\ UnitsAvailable \in Nat \ {0} /\ Rounds \in Nat \ {0} /\ PoolSize \in Nat \ {0}
    /\ ThrottleSteps \in Seq(Nat \ {0, 1}) /\ ThrottleSteps # <<>> /\ IsInjective(ThrottleSteps)
    /\ MaxRuns \in Nat /\ MaxStragglers \in Nat /\ MaxLate \in 0 .. MaxStragglers
    /\ Configs \subseteq [variant : Variants, replicas : {1, 2},
                          orders : Nat \ {0}, credits : Nat \ {0}]

VARIABLES
    runs,        \* runs started so far
    config,      \* the configuration of the current run
    at,          \* <<scenario, round>>; scenario 0 is the secure reference run
    phase,       \* what the run does next
    todo,        \* statements left of the preparation
    view,        \* the store's own view, as the round has read it so far
    reference,   \* the canonical state of each sequential reference run
    results,     \* of each scenario: what its rounds measured
    failures,    \* the checks that failed
    disturbed,   \* a request of this run failed, or it did not have the store alone
    backstop,    \* the backstop constraints the store carries
    instrumented,\* the instrumentation tables exist
    gate,        \* the armed gate, or NoGate
    timed_out,   \* its safety valve was used
    store,       \* units_sold, rows in orders, rows in redemptions
    stragglers   \* requests of a dead run that are still to write, or to come to a gate

program == <<runs, config>>
report == <<reference, results, failures>>
schema == <<backstop, instrumented>>
vars == <<program, at, phase, todo, view, report, disturbed, schema, gate, timed_out,
          store, stragglers>>

Empty == [sold |-> 0, orders |-> 0, redeemed |-> 0]
Nobody == [invariant |-> "counter", secure |-> TRUE, count |-> 0, late |-> 0]
Least(a, b) == IF a < b THEN a ELSE b
Room == IF store.sold < UnitsAvailable THEN UnitsAvailable - store.sold ELSE 0

------------------------------------------------------------------------------
(* What a run consists of. *)

Scenario(invariant, shape, replicas, issued, expectation) ==
    [invariant |-> invariant, shape |-> shape, replicas |-> replicas, issued |-> issued,
     expectation |-> expectation, gate |-> NoGate, preSold |-> 0, wave |-> issued,
     stagger |-> 0, sequential |-> FALSE]

Held(s, expected) == [s EXCEPT !.gate = [expected |-> expected, arm_at |-> Anything]]
Sequentially(s) == [s EXCEPT !.sequential = TRUE, !.expectation = "sequential_correct"]

\* for replicas in range(1, available + 1)
AtEachCount(c, part(_)) == IF c.replicas = 1 THEN part(1) ELSE part(1) \o part(2)

SecureScenarios(c) ==
    LET guards(p) ==
            << Scenario("counter", "conditional_write", p, c.orders, "secure_holds"),
               Scenario("counter", "pessimistic_lock", p, c.orders, "secure_holds"),
               Scenario("single_use", "unique_constraint", p, c.credits, "secure_holds") >>
    IN  AtEachCount(c, guards)

Unguarded(c, p, expectation) ==
    << Scenario("counter", "unguarded", p, c.orders, expectation),
       Scenario("single_use", "unguarded", p, c.credits, expectation) >>

DeterministicScenarios(c) ==
    LET burst(p) ==
            LET plain == Unguarded(c, p, "defect_required")
                transaction == [plain[1] EXCEPT !.shape = "single_transaction"]
            IN  << Held(plain[1], c.orders), Held(plain[2], c.credits),
                   Held(transaction, c.orders) >>
        lock(p) ==
            [Scenario("counter", "process_lock", p, c.orders,
                      IF p = 1 THEN "looks_fixed" ELSE "defect_required")
               EXCEPT !.gate = [expected |-> p, arm_at |-> UnitsAvailable - 1],
                      !.preSold = UnitsAvailable - 1]
        last == Unguarded(c, c.replicas, "defect_required")
        throttled(w) == [Held(last[2], w) EXCEPT !.wave = w]
    IN  AtEachCount(c, burst)
        \o [p \in 1 .. c.replicas |-> lock(p)]
        \o [i \in DOMAIN ThrottleSteps |-> throttled(ThrottleSteps[i])]
        \o << Sequentially(last[1]), Sequentially(last[2]) >>

NaturalScenarios(c) ==
    LET burst(p) == Unguarded(c, p, "observe_only")
        staggered(d) == [burst(c.replicas)[2] EXCEPT !.stagger = d]
    IN  AtEachCount(c, burst)
        \o << staggered(2), staggered(10) >>

PlanOf(c) == IF c.variant = "secure" THEN SecureScenarios(c)
             ELSE IF c.variant = "deterministic" THEN DeterministicScenarios(c)
             ELSE NaturalScenarios(c)

\* Harness.scenarios of the current run.
PlanFor == [c \in Configs |-> PlanOf(c)]
plan == PlanFor[config]

\* Broken variant: the replica count is missing from the key.
KeyWithoutReplicas(s) == <<s.invariant, s.shape, s.gate.expected, s.stagger, s.sequential>>

Key(s) == <<s.invariant, s.shape, s.replicas, s.gate.expected, s.stagger, s.sequential>>

\* The scenario being run; the references are sequential runs of either invariant.
Secure == config.variant = "secure"
Current ==
    IF at[1] > 0 THEN plan[at[1]]
    ELSE [Scenario(Invariants[at[2]], "reference", config.replicas,
                   IF at[2] = 1 THEN config.orders ELSE config.credits, "secure_holds")
            EXCEPT !.sequential = TRUE]

\* Broken variant: the constraints are not put back.
WithoutRestore == <<"reset", "drop_instrumentation">>

\* Broken variant: the constraints are restored before the fixtures are reset.
RestoreFirst == <<"restore", "reset", "drop_instrumentation">>

\* prepare_secure_run, before each reference run.
PrepareSecureRun == <<"reset", "restore", "drop_instrumentation">>

\* Broken variant: a scenario without a gate leaves the last one armed.
PrepareWithStaleGate(s) ==
    <<"reset", "drop_backstop", "create_instrumentation">>
    \o (IF s.preSold > 0 THEN <<"pre_sell">> ELSE <<>>)
    \o (IF s.gate # NoGate THEN <<"arm_gate">> ELSE <<>>)

\* prepare_vulnerable_run and what _prepare_round adds to it, before each round.
PrepareVulnerableRun(s) ==
    <<"reset", "drop_backstop", "create_instrumentation">>
    \o (IF s.preSold > 0 THEN <<"pre_sell">> ELSE <<>>)
    \o (IF s.gate # NoGate THEN <<"arm_gate">> ELSE <<"disarm_gate">>)

\* A secure round resets the fixtures and nothing else.
Preparation(secure, place, s) ==
    IF ~secure THEN PrepareVulnerableRun(s)
    ELSE IF place[1] = 0 THEN PrepareSecureRun
    ELSE <<"reset">>

Ledger == [sold : Nat, orders : Nat, redeemed : Nat]
Stragglers ==
    {s \in [invariant : {"counter", "single_use"}, secure : BOOLEAN,
            count : 0 .. MaxStragglers, late : 0 .. MaxLate] : s.late <= s.count}

TypeOK ==
    /\ runs \in 0 .. MaxRuns
    /\ config \in Configs
    /\ at \in (0 .. Len(plan)) \X (1 .. IF Rounds < 2 THEN 2 ELSE Rounds)
    /\ phase \in {"idle", "prepare", "burst", "read_drop", "read_wallet", "judge", "verdict", "over"}
    /\ todo \in Seq({"reset", "restore", "drop_instrumentation", "drop_backstop",
                     "create_instrumentation", "pre_sell", "arm_gate", "disarm_gate"})
    /\ {view, store} \subseteq Ledger
    /\ reference \in [counter : Ledger, single_use : Ledger]
    /\ results \in [DOMAIN plan -> SUBSET [overrun : Nat, window_timed_out : BOOLEAN,
                                            verdict : Verdicts]]
    /\ failures \subseteq {"overrun", "shortfall", "disagreement", "canonical_state", "valve",
                           "defect", "half_fix", "sequential", "spread", "zero_violations",
                           "lock_contrast", "throttle_series", "coverage"}
    /\ disturbed \in BOOLEAN /\ instrumented \in BOOLEAN /\ timed_out \in BOOLEAN
    /\ backstop \subseteq Constraints
    /\ gate \in [expected : Nat, arm_at : Nat \cup {Anything}]
    /\ stragglers \in Stragglers

Prepare(c, scenarios, place) ==
    /\ at' = place
    /\ phase' = "prepare"
    /\ todo' = Preparation(c.variant = "secure", place,
                           IF place[1] = 0 THEN Empty ELSE scenarios[place[1]])

NoReport ==
    /\ reference' = [counter |-> Empty, single_use |-> Empty]
    /\ results' = [i \in DOMAIN plan' |-> {}]
    /\ failures' = {}

\* A store that racejack.seed has created and filled.
Init ==
    /\ runs = 0 /\ config \in Configs /\ at = <<1, 1>>
    /\ phase = "idle" /\ todo = <<>> /\ view = Empty
    /\ reference = [counter |-> Empty, single_use |-> Empty]
    /\ results = [i \in DOMAIN plan |-> {}] /\ failures = {} /\ disturbed = FALSE
    /\ backstop = Constraints /\ instrumented = FALSE /\ gate = NoGate /\ timed_out = FALSE
    /\ store = Empty /\ stragglers = Nobody

\* Harness.run on a fresh report.
Launch(c) ==
    /\ config' = c
    /\ Prepare(c, PlanFor[c], IF c.variant = "secure" THEN <<0, 1>> ELSE <<1, 1>>)
    /\ NoReport
    /\ disturbed' = (stragglers.count > 0)
    /\ UNCHANGED <<view, schema, gate, timed_out, store, stragglers>>

StartRun(c) ==
    /\ phase \in {"idle", "over"} /\ runs < MaxRuns
    /\ runs' = runs + 1
    /\ Launch(c)

------------------------------------------------------------------------------
(* Preparing a round. *)

Execute(statement) ==
    /\ phase = "prepare" /\ Head(todo) = statement
    /\ todo' = Tail(todo)
    /\ phase' = IF Tail(todo) = <<>> THEN "burst" ELSE "prepare"
    /\ UNCHANGED <<program, at, view, report, disturbed, stragglers>>

ResetFixtures ==
    /\ Execute("reset")
    /\ store' = Empty
    /\ UNCHANGED <<schema, gate, timed_out>>

\* ALTER TABLE ... ADD CONSTRAINT checks the rows that are there.
Restorable == store.sold <= UnitsAvailable /\ store.redeemed <= 1

RestoreBackstop ==
    /\ Execute("restore") /\ Restorable
    /\ backstop' = Constraints
    /\ UNCHANGED <<instrumented, gate, timed_out, store>>

DropInstrumentation ==
    /\ Execute("drop_instrumentation")
    /\ instrumented' = FALSE /\ gate' = NoGate /\ timed_out' = FALSE
    /\ UNCHANGED <<backstop, store>>

DropBackstop ==
    /\ Execute("drop_backstop")
    /\ backstop' = {}
    /\ UNCHANGED <<instrumented, gate, timed_out, store>>

CreateInstrumentation ==
    /\ Execute("create_instrumentation")
    /\ instrumented' = TRUE
    /\ UNCHANGED <<backstop, gate, timed_out, store>>

\* units_sold is overwritten, the orders are added.
PreSellUnits ==
    /\ Execute("pre_sell")
    /\ store' = [store EXCEPT !.sold = Current.preSold, !.orders = @ + Current.preSold]
    /\ UNCHANGED <<schema, gate, timed_out>>

ArmGate ==
    /\ Execute("arm_gate")
    /\ gate' = Current.gate /\ timed_out' = FALSE
    /\ UNCHANGED <<schema, store>>

DisarmGate ==
    /\ Execute("disarm_gate")
    /\ gate' = NoGate /\ timed_out' = FALSE
    /\ UNCHANGED <<schema, store>>

------------------------------------------------------------------------------
(* The burst. *)

InFlight(s) == IF s.sequential THEN 1 ELSE Least(s.wave, s.issued)

\* How many requests can be inside the window together: a process lock admits
\* one per process, the pools of each replica PoolSize of its round-robin share.
Together(s) ==
    IF s.shape = "process_lock" THEN Least(s.issued, s.replicas)
    ELSE Least(InFlight(s), s.replicas * PoolSize)

GateApplies(s) ==
    /\ gate # NoGate
    /\ gate.arm_at = Anything \/ (s.invariant = "counter" /\ gate.arm_at = store.sold)
    /\ IF s.invariant = "counter" THEN Room > 0 ELSE store.redeemed = 0

GateFills(s) == Together(s) >= gate.expected

\* The writes a burst of which no request fails may commit.
Writes(s) ==
    LET open     == IF s.invariant = "counter" THEN Room > 0 ELSE store.redeemed = 0
        right    == IF s.invariant = "counter" THEN Least(s.issued, Room) ELSE Least(s.issued, 1)
        enforced == IF s.invariant = "counter" THEN "drops_units_sold_within_availability" \in backstop
                    ELSE "redemptions_single_use" \in backstop
    IN  IF ~open THEN IF Secure /\ s.invariant = "single_use" /\ ~enforced THEN {s.issued} ELSE {0}
        ELSE IF Secure THEN IF s.invariant = "counter" \/ enforced THEN {right} ELSE {s.issued}
        ELSE IF enforced \/ (s.sequential /\ gate = NoGate) THEN {right}
        ELSE IF GateApplies(s) /\ GateFills(s) THEN {gate.expected}
        ELSE right .. s.issued

Write(n) ==
    store' = IF Current.invariant = "counter"
             THEN [store EXCEPT !.sold = @ + n, !.orders = @ + n]
             ELSE [store EXCEPT !.redeemed = @ + n]

\* concurrent_burst or sequential_run, every request answered.
Burst ==
    /\ phase = "burst"
    /\ \E n \in Writes(Current) : Write(n)
    /\ timed_out' = (timed_out \/ (GateApplies(Current) /\ ~GateFills(Current)))
    /\ phase' = "read_drop"
    /\ UNCHANGED <<program, at, todo, view, report, disturbed, schema, gate, stragglers>>

\* Some of them answered 503: their writes may or may not be there.  Bound: one
\* such burst per run, after which the run promises nothing but an honest verdict.
FaultyWrites(s) == IF Secure THEN UNION {0 .. n : n \in Writes(s)} ELSE 0 .. s.issued

BurstWithFailures ==
    /\ phase = "burst" /\ ~disturbed
    /\ \E n \in FaultyWrites(Current) : Write(n)
    /\ \E valve \in BOOLEAN : timed_out' = (timed_out \/ (valve /\ gate # NoGate))
    /\ disturbed' = TRUE
    /\ phase' = "read_drop"
    /\ UNCHANGED <<program, at, todo, view, report, schema, gate, stragglers>>

\* No request failed, but some of a dead vulnerable run came to the gate during the
\* burst.  An arrival that is not of the burst may complete a batch of it: the party
\* it replaces leaves by the valve, or checks after the others have written.
InterferedWrites(s) ==
    Least(s.issued, IF s.invariant = "counter" THEN Room ELSE 1)
        .. Least(s.issued, gate.expected)

BurstInterfered ==
    /\ phase = "burst" /\ GateApplies(Current) /\ stragglers.late > 0
    /\ \E n \in InterferedWrites(Current) : Write(n)
    /\ \E valve \in BOOLEAN : timed_out' = (timed_out \/ valve)
    /\ \E n \in 0 .. stragglers.late - 1 :
           stragglers' = [stragglers EXCEPT !.late = n]
    /\ phase' = "read_drop"
    /\ UNCHANGED <<program, at, todo, view, report, disturbed, schema, gate>>

\* The run dies: interrupted, or by an exception nobody handles.  A burst leaves
\* requests behind, in the applications.
Dead ==
    /\ phase' = "idle" /\ todo' = <<>> /\ view' = Empty /\ disturbed' = FALSE
    /\ at' = <<1, 1>>
    /\ UNCHANGED <<program, schema, gate, timed_out>>
    /\ NoReport

Die ==
    /\ phase \in {"prepare", "read_drop", "read_wallet"}
    /\ Dead
    /\ UNCHANGED <<store, stragglers>>

\* Bound: the requests of one dead run at a time.
DieDuringBurst ==
    /\ phase = "burst" /\ stragglers.count = 0
    /\ Dead
    /\ \E n \in FaultyWrites(Current) : Write(n)
    /\ \E n \in 0 .. MaxStragglers :
           stragglers' = [invariant |-> Current.invariant, secure |-> Secure, count |-> n,
                          late |-> IF Secure THEN 0 ELSE Least(n, MaxLate)]

------------------------------------------------------------------------------
(* Requests of a dead run. *)

\* One that was waiting in the window may open the safety valve of the next run.
StragglerGone ==
    /\ stragglers' = IF stragglers.count = 1 THEN Nobody
                     ELSE [stragglers EXCEPT !.count = @ - 1,
                                             !.late = Least(@, stragglers.count - 1)]
    /\ \E valve \in BOOLEAN :
           timed_out' = (timed_out \/ (valve /\ instrumented /\ ~stragglers.secure))

\* The database lets it write unless its guard, or the backstop, does not.
StragglerMayWrite ==
    IF stragglers.invariant = "counter"
    THEN Room > 0 \/ ~(stragglers.secure \/ "drops_units_sold_within_availability" \in backstop)
    ELSE store.redeemed = 0 \/ "redemptions_single_use" \notin backstop

StragglerWrites ==
    /\ stragglers.count > 0 /\ StragglerMayWrite
    /\ store' = IF stragglers.invariant = "counter"
                THEN [store EXCEPT !.sold = @ + 1, !.orders = @ + 1]
                ELSE [store EXCEPT !.redeemed = @ + 1]
    /\ StragglerGone
    /\ UNCHANGED <<program, at, phase, todo, view, report, disturbed, schema, gate>>

StragglerEnds ==
    /\ stragglers.count > 0
    /\ StragglerGone
    /\ UNCHANGED <<program, at, phase, todo, view, report, disturbed, schema, gate, store>>

------------------------------------------------------------------------------
(* Reading the store back, through two of its own views. *)

ReadDrop ==
    /\ phase = "read_drop"
    /\ view' = [view EXCEPT !.sold = store.sold, !.orders = store.orders]
    /\ phase' = "read_wallet"
    /\ UNCHANGED <<program, at, todo, report, disturbed, schema, gate, timed_out, store, stragglers>>

ReadWallet ==
    /\ phase = "read_wallet"
    /\ view' = [view EXCEPT !.redeemed = store.redeemed]
    /\ phase' = "judge"
    /\ UNCHANGED <<program, at, todo, report, disturbed, schema, gate, timed_out, store, stragglers>>

------------------------------------------------------------------------------
(* The ledger and its judgement. *)

\* Broken variant: the difference is not clamped at zero.
Unclamped(a, b) == a - b

Excess(a, b) == IF a > b THEN a - b ELSE 0
Achieved(s) == IF s.invariant = "counter" THEN view.orders ELSE view.redeemed
Allowed(s) == IF s.invariant = "counter" THEN UnitsAvailable ELSE 1
Overrun(s) == Excess(Achieved(s), Allowed(s))
Shortfall(s) == Excess(Allowed(s), Achieved(s))
Disagreement == view.sold # view.orders

\* Broken variant: vulnerable code that lost no race counts as correct.
VerdictOnDamageAlone(s) ==
    IF Overrun(s) > 0 \/ Disagreement THEN "invariant_violated" ELSE "invariant_held"

\* Reconciliation.verdict: only secure code can hold the invariant.
Verdict(s) ==
    IF Overrun(s) > 0 \/ Disagreement THEN "invariant_violated"
    ELSE IF Secure THEN "invariant_held" ELSE "inconclusive"

Failing(checks) == {c \in DOMAIN checks : checks[c]}

\* Broken variant: the safety valve is not looked at.
RoundFailuresNoValve(s) ==
    Failing([defect |-> s.expectation = "defect_required" /\ Overrun(s) = 0])

\* _judge_secure_round, _judge_required_reproduction, _judge_looks_fixed,
\* _judge_sequential_control; a natural observation requires nothing.
RoundFailures(s) ==
    LET secure     == s.expectation = "secure_holds"
        gated      == s.expectation \in {"defect_required", "looks_fixed"}
        sequential == s.expectation = "sequential_correct"
    IN  Failing([overrun         |-> secure /\ Overrun(s) > 0,
                 shortfall       |-> secure /\ Shortfall(s) > 0,
                 disagreement    |-> secure /\ Disagreement,
                 canonical_state |-> secure /\ view # reference[s.invariant],
                 valve           |-> gated /\ timed_out,
                 defect          |-> s.expectation = "defect_required"
                                     /\ (Overrun(s) = 0
                                         \/ (s.invariant = "counter" /\ view.sold <= UnitsAvailable)),
                 half_fix        |-> s.expectation = "looks_fixed"
                                     /\ (view.orders # UnitsAvailable \/ view.sold # UnitsAvailable),
                 sequential      |-> sequential
                                     /\ (Overrun(s) > 0 \/ Shortfall(s) > 0 \/ Disagreement),
                 spread          |-> s.replicas > 1 /\ ~s.sequential /\ s.issued < s.replicas])

NextPlace ==
    IF at[1] = 0 THEN IF at[2] = 1 THEN <<0, 2>> ELSE <<1, 1>>
    ELSE IF at[2] < Rounds THEN <<at[1], at[2] + 1>>
    ELSE <<at[1] + 1, 1>>

GoOn ==
    /\ view' = Empty
    /\ UNCHANGED <<disturbed, schema, gate, timed_out, store, stragglers>>
    /\ IF NextPlace[1] > Len(plan)
       THEN phase' = "verdict" /\ UNCHANGED <<program, at, todo>>
       ELSE Prepare(config, plan, NextPlace) /\ UNCHANGED program

KeepReference ==
    /\ phase = "judge" /\ at[1] = 0
    /\ reference' = [reference EXCEPT ![Current.invariant] = view]
    /\ GoOn
    /\ UNCHANGED <<results, failures>>

Judge ==
    /\ phase = "judge" /\ at[1] > 0
    /\ failures' = failures \cup RoundFailures(Current)
    /\ results' = [results EXCEPT ![at[1]] = @ \cup
           {[overrun |-> Overrun(Current), verdict |-> Verdict(Current),
             window_timed_out |-> Current.gate # NoGate /\ timed_out]}]
    /\ GoOn
    /\ UNCHANGED reference

Overruns(i) == {result.overrun : result \in results[i]}

\* _judge_lock_contrast
LockContrastFails ==
    LET rounds(replicas) == UNION {Overruns(i) : i \in
            {j \in DOMAIN plan : plan[j].shape = "process_lock" /\ plan[j].replicas = replicas}}
    IN  /\ rounds(1) # {} /\ rounds(2) # {}
        /\ (rounds(1) # {0} \/ 0 \in rounds(2))

\* _judge_throttle_series: the overrun falls with the window and never to zero.
ThrottleSeriesFails ==
    LET series == {i \in DOMAIN plan :
                     /\ plan[i].gate # NoGate /\ plan[i].gate.arm_at = Anything
                     /\ ~plan[i].sequential /\ plan[i].invariant = "single_use"
                     /\ plan[i].shape = "unguarded" /\ plan[i].replicas = config.replicas}
        width(i)  == plan[i].gate.expected
        widest(w) == Max(UNION {Overruns(i) : i \in {j \in series : width(j) = w}})
        widths    == {width(i) : i \in series}
    IN  /\ Cardinality(widths) > 1
        /\ \/ \E v, w \in widths : v > w /\ widest(v) <= widest(w)
           \/ \E w \in widths : widest(w) = 0

Covered == {Key(plan[i]) : i \in {j \in DOMAIN plan : results[j] # {}}}

JudgeRun ==
    /\ phase = "verdict"
    /\ failures' = failures \cup Failing(
           [zero_violations |-> Secure /\ failures \cap {"overrun", "disagreement"} # {},
            lock_contrast   |-> config.variant = "deterministic" /\ LockContrastFails,
            throttle_series |-> config.variant = "deterministic" /\ ThrottleSeriesFails,
            coverage        |-> Cardinality(Covered) # Len(plan)])
    /\ phase' = "over"
    /\ UNCHANGED <<program, at, todo, view, reference, results, disturbed, schema, gate,
                   timed_out, store, stragglers>>

------------------------------------------------------------------------------
Preparing ==
    \/ ResetFixtures \/ RestoreBackstop \/ DropInstrumentation \/ DropBackstop
    \/ CreateInstrumentation \/ PreSellUnits \/ ArmGate \/ DisarmGate

Next ==
    \/ \E c \in Configs : StartRun(c)
    \/ Preparing \/ Burst \/ BurstWithFailures \/ BurstInterfered \/ ReadDrop \/ ReadWallet
    \/ KeepReference \/ Judge \/ JudgeRun
    \/ Die \/ DieDuringBurst \/ StragglerWrites \/ StragglerEnds

Spec == Init /\ [][Next]_vars

------------------------------------------------------------------------------
(* What the harness can be trusted with. *)

\* The secure application is never accused: whatever earlier runs died at, left in
\* the store or left in flight, a run of the secure variant finds no overrun and
\* no disagreement.  The requests of a vulnerable run that are still in flight are
\* kept in check by the backstop the run has put back before it measures anything.
SecureIsNeverAccused ==
    Secure => failures \cap {"overrun", "disagreement", "zero_violations"} = {}

\* What each burst is told about the store is so: secure bursts meet both
\* constraints and no instrumentation, vulnerable ones neither constraint and
\* exactly the gate of their scenario, however the last run ended; and a run alone
\* with the store meets the fixtures of its scenario and nothing else.
StoreIsAsReported ==
    phase = "burst" =>
        /\ IF Secure THEN backstop = Constraints /\ ~instrumented /\ gate = NoGate
           ELSE backstop = {} /\ instrumented /\ gate = Current.gate
        /\ ~disturbed => store = [sold     |-> Current.preSold,
                                  orders   |-> Current.preSold,
                                  redeemed |-> 0]

\* "Order matters": unless requests of a dead run are about, putting the
\* constraints back never fails on rows a vulnerable run has left.
RestoreNeverFails ==
    phase = "prepare" /\ Head(todo) = "restore" /\ ~disturbed => Restorable

\* Exit status 0 is earned: every scenario ran, every defect that had to reproduce
\* did in every round, the half-fix held behind one process, the sequential
\* controls were exact, and nothing was measured through the safety valve.
PassIsEarned ==
    phase = "over" /\ failures = {} =>
        \A i \in DOMAIN plan :
            /\ results[i] # {}
            /\ \A result \in results[i] : ~result.window_timed_out
            /\ plan[i].expectation = "defect_required" => 0 \notin Overruns(i)
            /\ plan[i].expectation \notin {"defect_required", "observe_only"} => Overruns(i) = {0}

\* A configuration whose bursts are large enough for every scenario.
Ample(c) ==
    /\ c.orders > UnitsAvailable /\ c.orders >= c.replicas /\ c.credits >= c.replicas
    /\ c.orders <= PoolSize /\ c.credits <= PoolSize
    /\ c.variant = "deterministic" => \A i \in DOMAIN ThrottleSteps : c.credits > ThrottleSteps[i]

\* No false alarm: an ample run no request of which failed and which has the store
\* to itself passes every check, secure or vulnerable.
HealthyRunPasses ==
    phase = "over" /\ ~disturbed /\ Ample(config) => failures = {}

\* "every scenario ran at every addressed replica count" (engine.py) is never
\* denied of a run in which every scenario ran.
CoverageIsNotDenied ==
    phase = "over" /\ (\A i \in DOMAIN plan : results[i] # {}) => "coverage" \notin failures

\* instrumentation.py, WINDOW_TIMEOUT_SECONDS: "A safety valve, never a normal path."
ValveIsNeverNormal == phase = "read_drop" /\ ~disturbed => ~timed_out

=============================================================================
