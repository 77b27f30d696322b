--------------------------- MODULE HarnessRunProofs ---------------------------
(***************************************************************************)
(* What holds of every run of the load harness, for any fixtures, rounds,  *)
(* configurations and pools: the secure application is never accused, each *)
(* burst meets the store it was promised, and a pass is earned.            *)
(*                                                                         *)
(* The inductive invariant IInv follows a preparation statement by         *)
(* statement (which part of the store each one has put in order) and       *)
(* carries what a round has measured into the failures of the run.  Step   *)
(* is Next without the choice of a configuration, so that the comparison,  *)
(* which makes that choice itself, can use the same lemmas.                *)
(***************************************************************************)
EXTENDS HarnessRun, FiniteSetTheorems, SequenceTheorems, TLAPS

Expectations == {"secure_holds", "defect_required", "looks_fixed", "sequential_correct",
                 "observe_only"}

ScenarioType ==
    [invariant   : {"counter", "single_use"},
     shape       : {"conditional_write", "pessimistic_lock", "unique_constraint", "unguarded",
                    "single_transaction", "process_lock"},
     replicas    : {1, 2},
     issued      : Nat \ {0},
     expectation : Expectations,
     gate        : [expected : Nat, arm_at : Nat \cup {Anything}],
     preSold     : Nat,
     wave        : Nat \ {0},
     stagger     : Nat,
     sequential  : BOOLEAN]

\* A scenario without a gate, on the fixtures as they are.
Plain(s) == s.gate = NoGate /\ s.preSold = 0

\* A gate that holds as many as can come at once.
HeldOpen(s) ==
    /\ s.expectation = "defect_required" /\ s.shape # "process_lock"
    /\ s.shape = "single_transaction" => s.invariant = "counter"
    /\ s.gate = [expected |-> s.wave, arm_at |-> Anything] /\ s.preSold = 0
    /\ ~s.sequential
    /\ IF s.invariant = "counter" THEN s.wave = s.issued
       ELSE s.wave = s.issued \/ \E i \in DOMAIN ThrottleSteps : s.wave = ThrottleSteps[i]

\* One unit left, a gate for one request per process.
HalfFix(s) ==
    /\ s.invariant = "counter" /\ s.shape = "process_lock"
    /\ s.gate = [expected |-> s.replicas, arm_at |-> UnitsAvailable - 1]
    /\ s.preSold = UnitsAvailable - 1
    /\ ~s.sequential
    /\ s.expectation = IF s.replicas = 1 THEN "looks_fixed" ELSE "defect_required"

\* What a run of each variant consists of.
Planned(c) ==
    {s \in ScenarioType :
        /\ s.issued = IF s.invariant = "counter" THEN c.orders ELSE c.credits
        /\ c.replicas = 1 => s.replicas = 1
        /\ IF c.variant = "secure"
           THEN s.expectation = "secure_holds" /\ Plain(s) /\ ~s.sequential
           ELSE IF c.variant = "deterministic"
           THEN \/ HeldOpen(s) \/ HalfFix(s)
                \/ s.expectation = "sequential_correct" /\ Plain(s) /\ s.sequential
                   /\ s.shape = "unguarded"
           ELSE s.expectation = "observe_only" /\ Plain(s) /\ ~s.sequential}

LEMMA PairIsASeq ==
    ASSUME NEW S, NEW a \in S, NEW b \in S PROVE <<a, b>> \in Seq(S)
OBVIOUS

LEMMA TripleIsASeq ==
    ASSUME NEW S, NEW a \in S, NEW b \in S, NEW d \in S PROVE <<a, b, d>> \in Seq(S)
OBVIOUS

LEMMA ConcatIsASeq ==
    ASSUME NEW S, NEW s \in Seq(S), NEW t \in Seq(S)
    PROVE  s \o t \in Seq(S) /\ Len(s \o t) >= Len(s)
BY ConcatProperties, LenProperties

LEMMA LengthIsAtLeast ==
    ASSUME NEW s, NEW n \in Nat, Len(s) = n PROVE Len(s) >= n
OBVIOUS

LEMMA LongIsNotEmpty ==
    ASSUME NEW s, Len(s) > 0 PROVE s # <<>>
BY Len(<<>>) = 0

LEMMA ConfigType ==
    ASSUME NEW c \in Configs
    PROVE  /\ c.variant \in Variants /\ c.replicas \in {1, 2}
           /\ c.orders \in Nat \ {0} /\ c.credits \in Nat \ {0}
BY HarnessAssumption

LEMMA SecurePlan ==
    ASSUME NEW c \in Configs, c.variant = "secure"
    PROVE  PlanOf(c) \in Seq(Planned(c)) /\ PlanOf(c) # <<>>
<1> DEFINE G(p) == << Scenario("counter", "conditional_write", p, c.orders, "secure_holds"),
               Scenario("counter", "pessimistic_lock", p, c.orders, "secure_holds"),
               Scenario("single_use", "unique_constraint", p, c.credits, "secure_holds") >>
<1>1. ASSUME NEW p \in {1, 2}, c.replicas = 1 => p = 1 PROVE G(p) \in Seq(Planned(c)) /\ Len(G(p)) = 3
  <2>1. /\ Scenario("counter", "conditional_write", p, c.orders, "secure_holds") \in Planned(c)
        /\  Scenario("counter", "pessimistic_lock", p, c.orders, "secure_holds") \in Planned(c)
        /\ Scenario("single_use", "unique_constraint", p, c.credits, "secure_holds") \in Planned(c)
    BY <1>1, ConfigType DEF Scenario, Planned, ScenarioType, Expectations, Plain, NoGate
  <2> QED BY ONLY <2>1, TripleIsASeq DEF G
<1> HIDE DEF G
<1>2. PlanOf(c) = IF c.replicas = 1 THEN G(1) ELSE G(1) \o G(2)
  BY DEF PlanOf, SecureScenarios, AtEachCount, G
<1>3. CASE c.replicas = 1
  <2>1. G(1) \in Seq(Planned(c)) /\ Len(G(1)) = 3
    BY <1>1
  <2> QED BY <1>2, <1>3, <2>1, LongIsNotEmpty
<1>4. CASE c.replicas = 2
  <2>1. G(1) \in Seq(Planned(c)) /\ Len(G(1)) = 3 /\ G(2) \in Seq(Planned(c)) /\ Len(G(2)) = 3
    BY <1>1, <1>4
  <2>2. G(1) \o G(2) \in Seq(Planned(c)) /\ Len(G(1) \o G(2)) >= Len(G(1))
    BY ONLY <2>1, ConcatIsASeq
  <2>3. PlanOf(c) = G(1) \o G(2)
    BY <1>2, <1>4
  <2>4. Len(PlanOf(c)) > 0
    BY <2>1, <2>2, <2>3
  <2> QED BY <2>2, <2>3, <2>4, LongIsNotEmpty
<1> QED BY <1>3, <1>4, ConfigType

LEMMA DeterministicPlan ==
    ASSUME NEW c \in Configs, c.variant = "deterministic"
    PROVE  PlanOf(c) \in Seq(Planned(c)) /\ PlanOf(c) # <<>>
<1> DEFINE U(p, e) == Unguarded(c, p, e)
           D(p) == << Held(Unguarded(c, p, "defect_required")[1], c.orders),
                      Held(Unguarded(c, p, "defect_required")[2], c.credits),
                      Held([Unguarded(c, p, "defect_required")[1]
                               EXCEPT !.shape = "single_transaction"], c.orders) >>
           L(p) == [Scenario("counter", "process_lock", p, c.orders,
                             IF p = 1 THEN "looks_fixed" ELSE "defect_required")
                      EXCEPT !.gate = [expected |-> p, arm_at |-> UnitsAvailable - 1],
                             !.preSold = UnitsAvailable - 1]
           W(w) == [Held(Unguarded(c, c.replicas, "defect_required")[2], w) EXCEPT !.wave = w]
           S == << Sequentially(Unguarded(c, c.replicas, "defect_required")[1]),
                   Sequentially(Unguarded(c, c.replicas, "defect_required")[2]) >>
           Ls == [p \in 1 .. c.replicas |-> L(p)]
           Ws == [i \in DOMAIN ThrottleSteps |-> W(ThrottleSteps[i])]
           A  == IF c.replicas = 1 THEN D(1) ELSE D(1) \o D(2)
<1>1. ASSUME NEW p \in {1, 2}, c.replicas = 1 => p = 1 PROVE D(p) \in Seq(Planned(c)) /\ Len(D(p)) = 3
  <2>1. /\ Held(Unguarded(c, p, "defect_required")[1], c.orders) \in Planned(c)
        /\ Held(Unguarded(c, p, "defect_required")[2], c.credits) \in Planned(c)
        /\ Held([Unguarded(c, p, "defect_required")[1]
                    EXCEPT !.shape = "single_transaction"], c.orders) \in Planned(c)
    BY <1>1, ConfigType
    DEF Held, Unguarded, Scenario, Planned, ScenarioType, Expectations, HeldOpen, NoGate
  <2> QED BY ONLY <2>1, TripleIsASeq DEF D
<1>2. ASSUME NEW p \in {1, 2}, c.replicas = 1 => p = 1 PROVE L(p) \in Planned(c)
  <2>1. UnitsAvailable - 1 \in Nat /\ p \in Nat
    BY HarnessAssumption
  <2>2. L(p) \in ScenarioType
    BY <2>1, ConfigType DEF Scenario, ScenarioType, Expectations
  <2>3. HalfFix(L(p)) /\ L(p).issued = c.orders
    BY <2>1 DEF Scenario, HalfFix, NoGate
  <2> QED BY <1>2, <2>2, <2>3 DEF Planned, HalfFix, Scenario
<1>3. ASSUME NEW i \in DOMAIN ThrottleSteps PROVE W(ThrottleSteps[i]) \in Planned(c)
  <2>1. ThrottleSteps[i] \in Nat \ {0}
    BY HarnessAssumption
  <2> QED
    BY <2>1, ConfigType
    DEF Held, Unguarded, Scenario, Planned, ScenarioType, Expectations, HeldOpen, NoGate
<1>4. S \in Seq(Planned(c))
  <2>1. /\ Sequentially(Unguarded(c, c.replicas, "defect_required")[1]) \in Planned(c)
        /\ Sequentially(Unguarded(c, c.replicas, "defect_required")[2]) \in Planned(c)
    BY ConfigType
    DEF Sequentially, Unguarded, Scenario, Planned, ScenarioType, Expectations, Plain, NoGate
  <2> QED BY ONLY <2>1, PairIsASeq DEF S
<1>5. PlanOf(c) = A \o Ls \o Ws \o S
  BY DEF PlanOf, DeterministicScenarios, AtEachCount
<1>6. c.replicas \in {1, 2} /\ Len(ThrottleSteps) \in Nat
      /\ DOMAIN ThrottleSteps = 1 .. Len(ThrottleSteps)
  BY ConfigType, HarnessAssumption
<1> HIDE DEF D, L, W, S
<1>7. A \in Seq(Planned(c)) /\ Len(A) >= 3
  <2>1. D(1) \in Seq(Planned(c)) /\ Len(D(1)) = 3
    BY <1>1
  <2>2. CASE c.replicas = 1
    <3>1. A = D(1)
      BY ONLY <2>2 DEF A
    <3> HIDE DEF A, D
    <3>2. Len(D(1)) >= 3
      BY ONLY <2>1, LengthIsAtLeast
    <3> QED BY ONLY <2>1, <3>1, <3>2
  <2>3. CASE c.replicas # 1
    <3>1. D(2) \in Seq(Planned(c)) /\ Len(D(2)) = 3
      BY <1>1, <2>3
    <3>2. D(1) \o D(2) \in Seq(Planned(c)) /\ Len(D(1) \o D(2)) >= Len(D(1))
      BY <2>1, <3>1, ConcatIsASeq
    <3>3. A = D(1) \o D(2)
      BY <2>3
    <3> QED BY <2>1, <3>2, <3>3
  <2> QED BY <2>2, <2>3
<1>8. Ls \in Seq(Planned(c)) /\ Ws \in Seq(Planned(c))
  <2>1. \A p \in 1 .. c.replicas : L(p) \in Planned(c)
    <3> SUFFICES ASSUME NEW p \in 1 .. c.replicas PROVE L(p) \in Planned(c)
      OBVIOUS
    <3>1. p \in {1, 2} /\ (c.replicas = 1 => p = 1)
      BY <1>6
    <3> QED BY <1>2, <3>1
  <2> QED BY <1>3, <1>6, <2>1, IsASeq
<1> HIDE DEF A, Ls, Ws
<1> QED BY <1>4, <1>5, <1>7, <1>8, ConcatProperties, EmptySeq

LEMMA NaturalPlan ==
    ASSUME NEW c \in Configs, c.variant = "natural"
    PROVE  PlanOf(c) \in Seq(Planned(c)) /\ PlanOf(c) # <<>>
<1> DEFINE U(p) == Unguarded(c, p, "observe_only")
           S(d) == [U(c.replicas)[2] EXCEPT !.stagger = d]
           T == << S(2), S(10) >>
           A == IF c.replicas = 1 THEN U(1) ELSE U(1) \o U(2)
<1>1. ASSUME NEW p \in {1, 2}, c.replicas = 1 => p = 1 PROVE U(p) \in Seq(Planned(c)) /\ Len(U(p)) = 2
  <2>1. /\ Scenario("counter", "unguarded", p, c.orders, "observe_only") \in Planned(c)
        /\ Scenario("single_use", "unguarded", p, c.credits, "observe_only") \in Planned(c)
    BY <1>1, ConfigType DEF Scenario, Planned, ScenarioType, Expectations, Plain, NoGate
  <2> QED BY ONLY <2>1, PairIsASeq DEF U, Unguarded
<1>2. S(2) \in Planned(c) /\ S(10) \in Planned(c)
  BY ConfigType
  DEF Unguarded, Scenario, Planned, ScenarioType, Expectations, Plain, NoGate
<1>3. PlanOf(c) = A \o T
  BY DEF PlanOf, NaturalScenarios, AtEachCount
<1> HIDE DEF U, S
<1>4. T \in Seq(Planned(c))
  BY <1>2, PairIsASeq
<1>5. A \in Seq(Planned(c)) /\ Len(A) >= 2
  <2>1. U(1) \in Seq(Planned(c)) /\ Len(U(1)) = 2
    BY <1>1
  <2>2. CASE c.replicas = 1
    <3>1. A = U(1)
      BY ONLY <2>2 DEF A
    <3> HIDE DEF A, U
    <3>2. Len(U(1)) >= 2
      BY ONLY <2>1, LengthIsAtLeast
    <3> QED BY ONLY <2>1, <3>1, <3>2
  <2>3. CASE c.replicas # 1
    <3>1. U(2) \in Seq(Planned(c)) /\ Len(U(2)) = 2
      BY <1>1, <2>3
    <3>2. U(1) \o U(2) \in Seq(Planned(c)) /\ Len(U(1) \o U(2)) >= Len(U(1))
      BY <2>1, <3>1, ConcatIsASeq
    <3> QED BY <2>1, <2>3, <3>1, <3>2
  <2> QED BY <2>2, <2>3
<1> HIDE DEF A, T
<1> QED BY <1>3, <1>4, <1>5, ConcatProperties, EmptySeq

\* Whatever the configuration, a run has scenarios, and each is as its variant
\* has them.
LEMMA PlanType ==
    ASSUME NEW c \in Configs
    PROVE  /\ PlanFor[c] \in Seq(Planned(c))
           /\ PlanFor[c] # <<>>
           /\ Len(PlanFor[c]) \in Nat \ {0} /\ DOMAIN PlanFor[c] = 1 .. Len(PlanFor[c])
           /\ \A i \in DOMAIN PlanFor[c] : PlanFor[c][i] \in Planned(c)
<1>1. PlanFor[c] = PlanOf(c)
  BY DEF PlanFor
<1>2. PlanOf(c) \in Seq(Planned(c)) /\ PlanOf(c) # <<>>
  BY ConfigType, SecurePlan, DeterministicPlan, NaturalPlan DEF Variants
<1> QED BY <1>1, <1>2, EmptySeq, ElementOfSeq, LenProperties

------------------------------------------------------------------------------
(* The inductive invariant. *)

\* Where a run is: only the secure one has reference runs, two of them.
Places ==
    /\ at[1] = 0 => Secure /\ at[2] <= 2
    /\ at[1] > 0 => at[2] <= Rounds
    /\ phase = "idle" => at = <<1, 1>>

\* Requests of a dead run are the concern of whoever has been told so.
AloneUnlessDisturbed == phase # "idle" /\ ~disturbed => stragglers.count = 0

Fresh == ~disturbed => store = Empty
GateStep == IF Current.gate # NoGate THEN "arm_gate" ELSE "disarm_gate"

\* The statements left of a preparation, and what those before them have done.
SecurePreparation ==
    IF at[1] = 0
    THEN \/ todo = <<"reset", "restore", "drop_instrumentation">>
         \/ todo = <<"restore", "drop_instrumentation">> /\ Fresh
         \/ todo = <<"drop_instrumentation">> /\ Fresh
    ELSE todo = <<"reset">>

VulnerablePreparation ==
    /\ IF Current.preSold > 0
       THEN todo \in {<<"reset", "drop_backstop", "create_instrumentation", "pre_sell", GateStep>>,
                      <<"drop_backstop", "create_instrumentation", "pre_sell", GateStep>>,
                      <<"create_instrumentation", "pre_sell", GateStep>>,
                      <<"pre_sell", GateStep>>,
                      <<GateStep>>}
       ELSE todo \in {<<"reset", "drop_backstop", "create_instrumentation", GateStep>>,
                      <<"drop_backstop", "create_instrumentation", GateStep>>,
                      <<"create_instrumentation", GateStep>>,
                      <<GateStep>>}
    /\ Head(todo) \in {"drop_backstop", "create_instrumentation", "pre_sell"} => Fresh
    /\ Head(todo) \in {"create_instrumentation", "pre_sell", GateStep} => backstop = {}
    /\ Head(todo) \in {"pre_sell", GateStep} => instrumented
    /\ todo = <<GateStep>> /\ ~disturbed =>
           store = [sold |-> Current.preSold, orders |-> Current.preSold, redeemed |-> 0]

PreparationDone ==
    phase = "prepare" => IF Secure THEN SecurePreparation ELSE VulnerablePreparation

\* From the first reset of a secure run on the counter equals the orders; from the
\* first restore on both constraints hold; from the first drop on no gate is there.
Beyond(statement) ==
    /\ phase # "idle"
    /\ phase = "prepare" /\ at = <<0, 1>> =>
           \A i \in DOMAIN todo : todo[i] # statement

SecureStore ==
    Secure =>
        /\ Beyond("reset") => store.sold = store.orders
        /\ Beyond("restore") => backstop = Constraints /\ Restorable
        /\ Beyond("drop_instrumentation") => ~instrumented /\ gate = NoGate

\* What the round has read is no worse.
SecureView ==
    Secure =>
        /\ phase \in {"read_wallet", "judge"} =>
               view.sold = view.orders /\ view.orders <= UnitsAvailable
        /\ phase = "judge" => view.redeemed <= 1

\* A result that ought to fail a run has failed it.
ResultsAreJudged ==
    \A i \in DOMAIN plan : \A result \in results[i] :
        /\ result.window_timed_out => "valve" \in failures
        /\ plan[i].expectation = "defect_required" /\ result.overrun = 0
               => "defect" \in failures
        /\ result.overrun > 0 =>
               /\ plan[i].expectation = "secure_holds" => "overrun" \in failures
               /\ plan[i].expectation = "looks_fixed" => "half_fix" \in failures
               /\ plan[i].expectation = "sequential_correct" => "sequential" \in failures

\* Every scenario the run has come past has a result.
ResultsAreThere ==
    /\ phase \in {"prepare", "burst", "read_drop", "read_wallet", "judge"} =>
           \A i \in DOMAIN plan : i < at[1] \/ (i = at[1] /\ at[2] > 1) => results[i] # {}
    /\ phase \in {"verdict", "over"} => \A i \in DOMAIN plan : results[i] # {}

IInv ==
    /\ TypeOK
    /\ Places
    /\ AloneUnlessDisturbed
    /\ PreparationDone
    /\ StoreIsAsReported
    /\ SecureStore
    /\ SecureView
    /\ SecureIsNeverAccused
    /\ ResultsAreJudged
    /\ ResultsAreThere

------------------------------------------------------------------------------
(* The scenario being run, and what a burst of it may write. *)

LEMMA PlanOfRun ==
    ASSUME TypeOK
    PROVE  /\ config \in Configs
           /\ plan \in Seq(Planned(config)) /\ plan # <<>>
           /\ Len(plan) \in Nat \ {0} /\ DOMAIN plan = 1 .. Len(plan)
           /\ \A i \in DOMAIN plan : plan[i] \in Planned(config)
BY PlanType DEF TypeOK, plan

LEMMA PlaceType ==
    ASSUME TypeOK
    PROVE  /\ at = <<at[1], at[2]>>
           /\ at[1] \in 0 .. Len(plan) /\ at[2] \in Nat \ {0}
           /\ at[1] > 0 => at[1] \in DOMAIN plan
BY PlanOfRun, HarnessAssumption DEF TypeOK

LEMMA CurrentType ==
    ASSUME TypeOK, Places
    PROVE  /\ Current.invariant \in {"counter", "single_use"}
           /\ Current.issued \in Nat \ {0} /\ Current.wave \in Nat \ {0}
           /\ Current.preSold \in Nat /\ Current.replicas \in {1, 2}
           /\ Current.sequential \in BOOLEAN
           /\ Current.gate \in [expected : Nat, arm_at : Nat \cup {Anything}]
<1>1. CASE at[1] > 0
  <2>1. Current = plan[at[1]] /\ plan[at[1]] \in Planned(config)
    BY <1>1, PlanOfRun, PlaceType DEF Current
  <2> QED BY <2>1 DEF Planned, ScenarioType
<1>2. CASE ~(at[1] > 0)
  <2>1. at[1] = 0 /\ at[2] \in {1, 2} /\ config \in Configs
    BY <1>2, PlaceType, PlanOfRun DEF Places
  <2>2. /\ Current.invariant = Invariants[at[2]] /\ Current.replicas = config.replicas
        /\ Current.issued = (IF at[2] = 1 THEN config.orders ELSE config.credits)
        /\ Current.wave = (IF at[2] = 1 THEN config.orders ELSE config.credits)
        /\ Current.preSold = 0 /\ Current.gate = NoGate /\ Current.sequential = TRUE
    BY <2>1 DEF Current, Scenario
  <2>3. Current.invariant \in {"counter", "single_use"}
    BY <2>1, <2>2 DEF Invariants
  <2>4. /\ Current.issued \in Nat \ {0} /\ Current.wave \in Nat \ {0} /\ Current.preSold \in Nat
        /\ Current.replicas \in {1, 2}
    BY <2>1, <2>2, ConfigType
  <2>5. Current.gate \in [expected : Nat, arm_at : Nat \cup {Anything}]
    BY <2>2 DEF NoGate
  <2> QED BY <2>2, <2>3, <2>4, <2>5
<1> QED BY <1>1, <1>2

LEMMA WritesType ==
    ASSUME TypeOK, Places
    PROVE  Writes(Current) \subseteq Nat /\ FaultyWrites(Current) \subseteq Nat
<1>1. store.sold \in Nat /\ store.redeemed \in Nat /\ gate.expected \in Nat
  BY DEF TypeOK, Ledger
<1>2. Room \in Nat
  BY <1>1, HarnessAssumption DEF Room
<1>3. Writes(Current) \subseteq Nat
  BY <1>1, <1>2, CurrentType DEF Writes, Least
<1> QED BY <1>3, CurrentType DEF FaultyWrites

LEMMA InterferedType ==
    ASSUME TypeOK, Places PROVE InterferedWrites(Current) \subseteq Nat
<1>1. store.sold \in Nat /\ gate.expected \in Nat
  BY DEF TypeOK, Ledger
<1>2. Room \in Nat
  BY <1>1, HarnessAssumption DEF Room
<1> QED BY <1>1, <1>2, CurrentType DEF InterferedWrites, Least

\* Updates of a ledger, field by field.
LEMMA LedgerFields ==
    ASSUME NEW s \in Ledger
    PROVE  /\ s = [sold |-> s.sold, orders |-> s.orders, redeemed |-> s.redeemed]
           /\ s.sold \in Nat /\ s.orders \in Nat /\ s.redeemed \in Nat
BY DEF Ledger

WithDrop(s, m, n) == [s EXCEPT !.sold = m, !.orders = n]
WithRedeemed(s, n) == [s EXCEPT !.redeemed = n]

LEMMA RedeemedUpdate ==
    ASSUME NEW s \in Ledger, NEW n \in Nat
    PROVE  /\ WithRedeemed(s, n) \in Ledger
           /\ WithRedeemed(s, n).sold = s.sold /\ WithRedeemed(s, n).orders = s.orders
           /\ WithRedeemed(s, n).redeemed = n
BY DEF Ledger, WithRedeemed

LEMMA DropUpdate ==
    ASSUME NEW s \in Ledger, NEW m \in Nat, NEW n \in Nat
    PROVE  /\ WithDrop(s, m, n) \in Ledger
           /\ WithDrop(s, m, n).sold = m /\ WithDrop(s, m, n).orders = n
           /\ WithDrop(s, m, n).redeemed = s.redeemed
<1>1. [s EXCEPT !.sold = m] \in Ledger
  BY DEF Ledger
<1>2. ASSUME NEW u \in Ledger PROVE [u EXCEPT !.orders = n] \in Ledger
  BY DEF Ledger
<1>3. [s EXCEPT !.sold = m, !.orders = n] = [[s EXCEPT !.sold = m] EXCEPT !.orders = n]
  OBVIOUS
<1>4. [s EXCEPT !.sold = m, !.orders = n] \in Ledger
  BY <1>1, <1>2, <1>3
<1> QED BY <1>4 DEF Ledger, WithDrop

LEMMA WriteType ==
    ASSUME TypeOK, NEW n \in Nat, Write(n)
    PROVE  /\ store' \in Ledger
           /\ IF Current.invariant = "counter"
              THEN store'.sold = store.sold + n /\ store'.orders = store.orders + n
                   /\ store'.redeemed = store.redeemed
              ELSE store'.sold = store.sold /\ store'.orders = store.orders
                   /\ store'.redeemed = store.redeemed + n
<1>1. store \in Ledger
  BY DEF TypeOK
<1>2. CASE Current.invariant = "counter"
  <2>1. store' = WithDrop(store, store.sold + n, store.orders + n)
    BY <1>2 DEF Write, WithDrop
  <2>2. store.sold + n \in Nat /\ store.orders + n \in Nat
    BY <1>1, LedgerFields
  <2>3. \A p, q \in Nat :
            /\ WithDrop(store, p, q) \in Ledger
            /\ WithDrop(store, p, q).sold = p
            /\ WithDrop(store, p, q).orders = q
            /\ WithDrop(store, p, q).redeemed = store.redeemed
    BY ONLY <1>1, DropUpdate
  <2> QED BY ONLY <1>2, <2>1, <2>2, <2>3
<1>3. CASE Current.invariant # "counter"
  <2>1. store' = WithRedeemed(store, store.redeemed + n)
    BY <1>3 DEF Write, WithRedeemed
  <2>2. store.redeemed + n \in Nat
    BY <1>1, LedgerFields
  <2> QED BY ONLY <1>1, <1>3, <2>1, <2>2, RedeemedUpdate
<1> QED BY <1>2, <1>3

------------------------------------------------------------------------------
(* Types. *)

LEMMA SameRun ==
    ASSUME UNCHANGED program
    PROVE  plan' = plan /\ Secure' = Secure /\ config' = config /\ runs' = runs
BY DEF program, plan, Secure

LEMMA SamePlace ==
    ASSUME UNCHANGED <<program, at>>
    PROVE  Current' = Current
BY SameRun DEF Current, program

Statements == {"reset", "restore", "drop_instrumentation", "drop_backstop",
               "create_instrumentation", "pre_sell", "arm_gate", "disarm_gate"}

LEMMA PreparationType ==
    ASSUME NEW secure, NEW place, NEW s
    PROVE  Preparation(secure, place, s) \in Seq(Statements)
<1>1. <<"reset", "drop_backstop", "create_instrumentation">> \in Seq(Statements)
  BY TripleIsASeq DEF Statements
<1>2. \A t \in Statements : <<t>> \in Seq(Statements)
  OBVIOUS
<1>3. <<>> \in Seq(Statements)
  OBVIOUS
<1>4. PrepareVulnerableRun(s) \in Seq(Statements)
  BY <1>1, <1>2, <1>3, ConcatProperties DEF PrepareVulnerableRun, Statements
<1>5. PrepareSecureRun \in Seq(Statements)
  BY TripleIsASeq DEF PrepareSecureRun, Statements
<1> QED BY <1>2, <1>4, <1>5 DEF Preparation, Statements

LEMMA ResultsType ==
    ASSUME NEW f, NEW g, NEW D, NEW S, f \in [D -> SUBSET S], NEW i \in D, NEW r \in S,
           g = [f EXCEPT ![i] = @ \cup {r}]
    PROVE  g \in [D -> SUBSET S]
OBVIOUS

\* What a check may add to the failures.
RoundChecks == {"overrun", "shortfall", "disagreement", "canonical_state", "valve", "defect",
                "half_fix", "sequential", "spread"}

LEMMA RoundFailuresType ==
    ASSUME NEW s PROVE RoundFailures(s) \subseteq RoundChecks
BY DEF RoundFailures, Failing, RoundChecks

LEMMA LaunchType ==
    ASSUME TypeOK, NEW c \in Configs, Launch(c), runs' \in 0 .. MaxRuns
    PROVE  TypeOK'
<1>1. config' = c /\ plan' = PlanFor[c]
  BY DEF Launch, plan
<1>2. Len(plan') \in Nat \ {0}
  BY <1>1, PlanType
<1>3. at' \in (0 .. Len(plan')) \X (1 .. IF Rounds < 2 THEN 2 ELSE Rounds)
  BY <1>2, HarnessAssumption DEF Launch, Prepare
<1>4. phase' = "prepare" /\ todo' \in Seq(Statements)
  BY PreparationType DEF Launch, Prepare
<1>5. /\ {view', store'} \subseteq Ledger
      /\ reference' \in [counter : Ledger, single_use : Ledger]
  BY DEF TypeOK, Launch, NoReport, Empty, Ledger
<1>6. results' = [i \in DOMAIN plan' |-> {}] /\ failures' = {}
  BY DEF Launch, NoReport
<1>7. disturbed' \in BOOLEAN
  BY DEF TypeOK, Launch
<1>8. UNCHANGED <<schema, gate, timed_out, stragglers>>
  BY DEF Launch
<1> QED BY <1>1, <1>3, <1>4, <1>5, <1>6, <1>7, <1>8 DEF TypeOK, schema, Statements

\* The statement at the head of the preparation is taken off it.
LEMMA ExecuteFrame ==
    ASSUME IInv, NEW statement, Execute(statement)
    PROVE  /\ todo # <<>> /\ todo \in Seq(Statements) /\ todo' \in Seq(Statements)
           /\ phase = "prepare" /\ phase' = IF todo' = <<>> THEN "burst" ELSE "prepare"
           /\ todo' = Tail(todo) /\ Head(todo) = statement
           /\ UNCHANGED <<program, at, view, report, disturbed, stragglers>>
<1>1. /\ phase = "prepare" /\ todo' = Tail(todo) /\ Head(todo) = statement
      /\ UNCHANGED <<program, at, view, report, disturbed, stragglers>>
      /\ phase' = IF todo' = <<>> THEN "burst" ELSE "prepare"
  BY DEF Execute
<1>2. todo \in Seq(Statements)
  BY DEF IInv, TypeOK, Statements
<1>3. todo # <<>>
  BY <1>1 DEF IInv, PreparationDone, SecurePreparation, VulnerablePreparation
<1> QED BY <1>1, <1>2, <1>3, HeadTailProperties

LEMMA ExecuteType ==
    ASSUME IInv, NEW statement, Execute(statement),
           store' \in Ledger, backstop' \subseteq Constraints, instrumented' \in BOOLEAN,
           gate' \in [expected : Nat, arm_at : Nat \cup {Anything}], timed_out' \in BOOLEAN
    PROVE  TypeOK'
<1>1. UNCHANGED <<plan, config, runs, at, view, reference, results, failures, disturbed,
                  stragglers>>
  BY ExecuteFrame, SameRun DEF program, report
<1>2. phase' \in {"prepare", "burst"} /\ todo' \in Seq(Statements)
  BY ExecuteFrame
<1> QED BY <1>1, <1>2 DEF IInv, TypeOK, Statements

LEMMA PreparingType ==
    ASSUME IInv, Preparing
    PROVE  TypeOK'
<1>1. /\ store \in Ledger /\ backstop \subseteq Constraints /\ instrumented \in BOOLEAN
      /\ gate \in [expected : Nat, arm_at : Nat \cup {Anything}] /\ timed_out \in BOOLEAN
  BY DEF IInv, TypeOK
<1>2. NoGate \in [expected : Nat, arm_at : Nat \cup {Anything}] /\ Empty \in Ledger
  BY DEF NoGate, Empty, Ledger
<1>3. CASE ResetFixtures
  BY <1>1, <1>2, <1>3, ExecuteType DEF ResetFixtures, schema
<1>4. CASE RestoreBackstop
  BY <1>1, <1>2, <1>4, ExecuteType DEF RestoreBackstop, Constraints
<1>5. CASE DropInstrumentation
  BY <1>1, <1>2, <1>5, ExecuteType DEF DropInstrumentation
<1>6. CASE DropBackstop
  BY <1>1, <1>2, <1>6, ExecuteType DEF DropBackstop
<1>7. CASE CreateInstrumentation
  BY <1>1, <1>2, <1>7, ExecuteType DEF CreateInstrumentation
<1>8. CASE PreSellUnits
  <2>1. Current.preSold \in Nat
    BY CurrentType DEF IInv
  <2>2. store.orders + Current.preSold \in Nat
    BY <1>1, <2>1, LedgerFields
  <2>3. store' = WithDrop(store, Current.preSold, store.orders + Current.preSold)
    BY <1>8 DEF PreSellUnits, WithDrop
  <2>4. \A p, q \in Nat : WithDrop(store, p, q) \in Ledger
    BY ONLY <1>1, DropUpdate
  <2>5. store' \in Ledger
    BY ONLY <2>1, <2>2, <2>3, <2>4
  <2> QED BY <1>1, <1>8, <2>5, ExecuteType DEF PreSellUnits, schema
<1>9. CASE ArmGate
  <2>1. Current.gate \in [expected : Nat, arm_at : Nat \cup {Anything}]
    BY CurrentType DEF IInv
  <2> QED BY <1>1, <1>9, <2>1, ExecuteType DEF ArmGate, schema
<1>10. CASE DisarmGate
  BY <1>1, <1>2, <1>10, ExecuteType DEF DisarmGate, schema
<1> QED BY <1>3, <1>4, <1>5, <1>6, <1>7, <1>8, <1>9, <1>10 DEF Preparing

LEMMA DeathType ==
    ASSUME IInv, Dead, store' \in Ledger,
           stragglers' \in Stragglers
    PROVE  TypeOK'
<1>1. /\ UNCHANGED <<runs, config, plan, schema, gate, timed_out>>
      /\ phase' = "idle" /\ todo' = <<>> /\ view' = Empty /\ disturbed' = FALSE
      /\ at' = <<1, 1>>
  BY SameRun DEF Dead, program
<1>2. /\ reference' = [counter |-> Empty, single_use |-> Empty]
      /\ results' = [i \in DOMAIN plan |-> {}] /\ failures' = {}
  BY <1>1 DEF Dead, NoReport
<1>3. Empty \in Ledger
  BY DEF Empty, Ledger
<1>4. <<1, 1>> \in (0 .. Len(plan)) \X (1 .. IF Rounds < 2 THEN 2 ELSE Rounds)
  BY PlanOfRun, HarnessAssumption DEF IInv
<1>5. /\ results' \in [DOMAIN plan' -> SUBSET [overrun : Nat, window_timed_out : BOOLEAN,
                                               verdict : Verdicts]]
      /\ reference' \in [counter : Ledger, single_use : Ledger]
  BY <1>1, <1>2, <1>3
<1>6. /\ at' \in (0 .. Len(plan')) \X (1 .. IF Rounds < 2 THEN 2 ELSE Rounds)
      /\ todo' \in Seq(Statements)
  BY <1>1, <1>4
<1> QED BY <1>1, <1>2, <1>3, <1>5, <1>6 DEF IInv, TypeOK, schema, Statements

LEMMA GoOnType ==
    ASSUME IInv, phase = "judge", GoOn,
           reference' \in [counter : Ledger, single_use : Ledger],
           results' \in [DOMAIN plan -> SUBSET [overrun : Nat, window_timed_out : BOOLEAN,
                                                verdict : Verdicts]],
           failures' \subseteq failures \cup RoundChecks
    PROVE  TypeOK'
<1>1. /\ UNCHANGED <<program, disturbed, schema, gate, timed_out, store, stragglers>>
      /\ view' = Empty /\ Empty \in Ledger
  BY DEF GoOn, Empty, Ledger
<1>2. UNCHANGED <<plan, config, runs>>
  BY <1>1, SameRun
<1>3. /\ at' \in (0 .. Len(plan)) \X (1 .. IF Rounds < 2 THEN 2 ELSE Rounds)
      /\ phase' \in {"prepare", "verdict"}
      /\ todo' \in Seq(Statements)
  <2>1. CASE NextPlace[1] > Len(plan)
    BY <2>1 DEF GoOn, IInv, TypeOK, Statements
  <2>2. CASE ~(NextPlace[1] > Len(plan))
    <3>1. Prepare(config, plan, NextPlace)
      BY <2>2 DEF GoOn
    <3>2. /\ at[1] \in 0 .. Len(plan) /\ at[2] \in Nat \ {0} /\ Len(plan) \in Nat \ {0}
          /\ at[1] > 0 => at[2] <= Rounds
      BY PlaceType, PlanOfRun DEF IInv, Places
    <3>3. NextPlace \in (0 .. Len(plan)) \X (1 .. IF Rounds < 2 THEN 2 ELSE Rounds)
      <4>1. Rounds \in Nat \ {0}
        BY HarnessAssumption
      <4>2. CASE at[1] = 0
        BY ONLY <4>1, <4>2, <3>2 DEF NextPlace
      <4>3. CASE at[1] # 0 /\ at[2] < Rounds
        <5>1. NextPlace = <<at[1], at[2] + 1>>
          BY ONLY <4>3 DEF NextPlace
        <5>2. at[2] + 1 \in 1 .. IF Rounds < 2 THEN 2 ELSE Rounds
          BY ONLY <4>1, <4>3, <3>2
        <5> QED BY ONLY <5>1, <5>2, <3>2
      <4>4. CASE at[1] # 0 /\ ~(at[2] < Rounds)
        <5>1. NextPlace = <<at[1] + 1, 1>>
          BY ONLY <4>4 DEF NextPlace
        <5>2. at[1] + 1 \in 0 .. Len(plan)
          BY ONLY <5>1, <2>2, <3>2
        <5>3. 1 \in 1 .. IF Rounds < 2 THEN 2 ELSE Rounds
          BY ONLY <4>1
        <5> QED BY ONLY <5>1, <5>2, <5>3
      <4> QED BY ONLY <4>2, <4>3, <4>4
    <3> QED BY <3>1, <3>3, PreparationType DEF Prepare
  <2> QED BY <2>1, <2>2
<1> QED BY <1>1, <1>2, <1>3 DEF IInv, TypeOK, Statements, schema, RoundChecks

\* Fewer requests of a dead run, or fewer of them yet to come to a gate.
LEMMA FewerStragglers ==
    ASSUME TypeOK, NEW n \in 0 .. stragglers.count, NEW m \in 0 .. stragglers.late, m <= n
    PROVE  [stragglers EXCEPT !.count = n, !.late = m] \in Stragglers
<1> DEFINE fields == [invariant : {"counter", "single_use"}, secure : BOOLEAN,
                      count : 0 .. MaxStragglers, late : 0 .. MaxLate]
           fewer == [stragglers EXCEPT !.count = n, !.late = m]
<1>1. stragglers \in fields /\ MaxStragglers \in Nat /\ MaxLate \in Nat
  BY HarnessAssumption DEF TypeOK, Stragglers
<1>2. n \in 0 .. MaxStragglers /\ m \in 0 .. MaxLate
  BY <1>1
<1>3. fewer \in fields /\ fewer.count = n /\ fewer.late = m
  BY <1>1, <1>2
<1> QED BY <1>3 DEF Stragglers

LEMMA StragglerCounts ==
    ASSUME TypeOK
    PROVE  /\ stragglers.count \in Nat /\ stragglers.late \in Nat
           /\ stragglers.late <= stragglers.count
BY HarnessAssumption DEF TypeOK, Stragglers

LEMMA NobodyIsThere == Nobody \in Stragglers /\ Nobody.count = 0
BY HarnessAssumption DEF Nobody, Stragglers

LEMMA StragglerType ==
    ASSUME IInv, StragglerGone, stragglers.count > 0
    PROVE  stragglers' \in Stragglers /\ timed_out' \in BOOLEAN
<1>1. /\ TypeOK /\ timed_out' \in BOOLEAN
      /\ stragglers.count \in Nat /\ stragglers.late \in Nat
  BY StragglerCounts DEF StragglerGone, IInv, TypeOK
<1>2. CASE stragglers.count = 1
  BY <1>1, <1>2, NobodyIsThere DEF StragglerGone
<1>3. CASE stragglers.count # 1
  <2> DEFINE n == stragglers.count - 1
             m == Least(stragglers.late, n)
  <2>1. n \in 0 .. stragglers.count /\ m \in 0 .. stragglers.late /\ m <= n
    BY <1>1 DEF Least
  <2>2. stragglers' = [stragglers EXCEPT !.count = n, !.late = m]
    BY <1>3 DEF StragglerGone
  <2> HIDE DEF n, m
  <2> QED BY <1>1, <2>1, <2>2, FewerStragglers
<1> QED BY <1>2, <1>3

\* What was achieved, allowed and exceeded are counts.
LEMMA LedgerType ==
    ASSUME TypeOK, NEW s, s.invariant \in {"counter", "single_use"}
    PROVE  /\ view.sold \in Nat /\ view.orders \in Nat /\ view.redeemed \in Nat
           /\ Achieved(s) \in Nat /\ Allowed(s) \in Nat \ {0}
           /\ Overrun(s) \in Nat /\ Shortfall(s) \in Nat
           /\ Overrun(s) > 0 <=> Achieved(s) > Allowed(s)
           /\ Shortfall(s) > 0 <=> Achieved(s) < Allowed(s)
           /\ Verdict(s) \in Verdicts
<1>1. view.sold \in Nat /\ view.orders \in Nat /\ view.redeemed \in Nat
  BY DEF TypeOK, Ledger
<1>2. Achieved(s) \in Nat /\ Allowed(s) \in Nat \ {0}
  BY <1>1, HarnessAssumption DEF Achieved, Allowed
<1>3. /\ Overrun(s) \in Nat /\ Shortfall(s) \in Nat
      /\ Overrun(s) > 0 <=> Achieved(s) > Allowed(s)
      /\ Shortfall(s) > 0 <=> Achieved(s) < Allowed(s)
  BY <1>2 DEF Overrun, Shortfall, Excess
<1> QED BY <1>1, <1>2, <1>3 DEF Verdict, Verdicts

LEMMA BurstType ==
    ASSUME IInv, Burst \/ BurstWithFailures \/ BurstInterfered
    PROVE  TypeOK'
<1>1. PICK n \in Nat : Write(n)
  BY WritesType, InterferedType DEF IInv, Burst, BurstWithFailures, BurstInterfered
<1>2. store' \in Ledger
  BY <1>1, WriteType DEF IInv
<1>3. /\ UNCHANGED <<program, at, todo, view, report, schema, gate>>
      /\ phase' = "read_drop" /\ disturbed' \in BOOLEAN /\ timed_out' \in BOOLEAN
  BY DEF Burst, BurstWithFailures, BurstInterfered, IInv, TypeOK
<1>4. UNCHANGED <<plan, config, runs>>
  BY <1>3, SameRun
<1>5. stragglers' \in Stragglers
  <2>1. CASE BurstInterfered
    <3>1. TypeOK /\ stragglers.count \in Nat /\ stragglers.late \in Nat
          /\ stragglers.late <= stragglers.count
      BY StragglerCounts DEF IInv
    <3>2. PICK m \in 0 .. stragglers.late - 1 : stragglers' = [stragglers EXCEPT !.late = m]
      BY <2>1 DEF BurstInterfered
    <3>3. stragglers' = [stragglers EXCEPT !.count = stragglers.count, !.late = m]
      BY <3>1, <3>2 DEF TypeOK, Stragglers
    <3>4. /\ stragglers.count \in 0 .. stragglers.count /\ m \in 0 .. stragglers.late
          /\ m <= stragglers.count
      BY <3>1, <3>2
    <3> QED BY <3>1, <3>3, <3>4, FewerStragglers
  <2>2. CASE Burst \/ BurstWithFailures
    BY <2>2 DEF Burst, BurstWithFailures, IInv, TypeOK
  <2> QED BY <2>1, <2>2
<1> QED BY <1>2, <1>3, <1>4, <1>5 DEF IInv, TypeOK, report, schema

LEMMA ReadType ==
    ASSUME IInv, ReadDrop \/ ReadWallet
    PROVE  /\ TypeOK'
           /\ ReadDrop => /\ view'.sold = store.sold /\ view'.orders = store.orders
                          /\ view'.redeemed = view.redeemed
           /\ ReadWallet => /\ view'.sold = view.sold /\ view'.orders = view.orders
                            /\ view'.redeemed = store.redeemed
<1>1. view \in Ledger /\ store \in Ledger
  BY DEF IInv, TypeOK
<1>2. store.sold \in Nat /\ store.orders \in Nat /\ store.redeemed \in Nat
  BY <1>1, LedgerFields
<1>3. ASSUME ReadDrop
      PROVE  /\ view' \in Ledger
             /\ view'.sold = store.sold /\ view'.orders = store.orders
             /\ view'.redeemed = view.redeemed
  <2>1. view' = WithDrop(view, store.sold, store.orders)
    BY <1>3 DEF ReadDrop, WithDrop
  <2>2. \A p, q \in Nat : /\ WithDrop(view, p, q) \in Ledger
                          /\ WithDrop(view, p, q).sold = p /\ WithDrop(view, p, q).orders = q
                          /\ WithDrop(view, p, q).redeemed = view.redeemed
    BY ONLY <1>1, DropUpdate
  <2> QED BY ONLY <1>2, <2>1, <2>2
<1>4. ASSUME ReadWallet
      PROVE  /\ view' \in Ledger
             /\ view'.sold = view.sold /\ view'.orders = view.orders
             /\ view'.redeemed = store.redeemed
  <2>1. view' = WithRedeemed(view, store.redeemed)
    BY <1>4 DEF ReadWallet, WithRedeemed
  <2> QED BY ONLY <1>1, <1>2, <2>1, RedeemedUpdate
<1>5. /\ UNCHANGED <<program, at, todo, report, disturbed, schema, gate, timed_out, store,
                     stragglers>>
      /\ phase' \in {"read_wallet", "judge"}
  BY DEF ReadDrop, ReadWallet
<1>6. UNCHANGED <<plan, config, runs>>
  BY <1>5, SameRun
<1>7. TypeOK'
  BY <1>3, <1>4, <1>5, <1>6 DEF IInv, TypeOK, report, schema
<1> QED BY <1>3, <1>4, <1>7

LEMMA KeepReferenceType ==
    ASSUME IInv, KeepReference
    PROVE  TypeOK'
<1>1. reference' \in [counter : Ledger, single_use : Ledger]
  <2>1. /\ reference \in [counter : Ledger, single_use : Ledger] /\ view \in Ledger
        /\ Current.invariant \in {"counter", "single_use"}
        /\ reference' = [reference EXCEPT ![Current.invariant] = view]
    BY CurrentType DEF IInv, TypeOK, KeepReference
  <2> QED BY ONLY <2>1
<1>2. UNCHANGED <<results, failures>> /\ phase = "judge" /\ GoOn
  BY DEF KeepReference
<1>3. /\ results' \in [DOMAIN plan -> SUBSET [overrun : Nat, window_timed_out : BOOLEAN,
                                              verdict : Verdicts]]
      /\ failures' \subseteq failures \cup RoundChecks
  BY <1>2 DEF IInv, TypeOK
<1> QED BY <1>1, <1>2, <1>3, GoOnType

\* The result of the round being judged.
Result == [overrun |-> Overrun(Current), verdict |-> Verdict(Current),
           window_timed_out |-> Current.gate # NoGate /\ timed_out]

LEMMA JudgeFrame ==
    ASSUME IInv, Judge
    PROVE  /\ at[1] \in DOMAIN plan /\ Current = plan[at[1]] /\ Current \in Planned(config)
           /\ phase = "judge"
           /\ results' = [results EXCEPT ![at[1]] = results[at[1]] \cup {Result}]
           /\ failures' = failures \cup RoundFailures(Current)
           /\ Result \in [overrun : Nat, window_timed_out : BOOLEAN, verdict : Verdicts]
           /\ Result.window_timed_out => Current.gate # NoGate /\ timed_out
           /\ UNCHANGED <<program, plan, config, runs, reference>> /\ GoOn
<1>1. at[1] \in DOMAIN plan /\ Current = plan[at[1]] /\ Current \in Planned(config)
  BY PlaceType, PlanOfRun DEF IInv, Judge, Current
<1>2. Result \in [overrun : Nat, window_timed_out : BOOLEAN, verdict : Verdicts]
      /\ (Result.window_timed_out => Current.gate # NoGate /\ timed_out)
  <2>1. Current.invariant \in {"counter", "single_use"} /\ TypeOK
    BY CurrentType DEF IInv
  <2>2. Overrun(Current) \in Nat /\ Verdict(Current) \in Verdicts
    BY <2>1, LedgerType
  <2>3. (Current.gate # NoGate /\ timed_out) \in BOOLEAN
    OBVIOUS
  <2>4. /\ Result.overrun \in Nat /\ Result.verdict \in Verdicts
        /\ Result.window_timed_out <=> Current.gate # NoGate /\ timed_out
    BY <2>2 DEF Result
  <2>5. Result \in [overrun : Nat, window_timed_out : BOOLEAN, verdict : Verdicts]
    BY <2>2, <2>3 DEF Result
  <2> QED BY <2>4, <2>5
<1>3. UNCHANGED program
  BY DEF Judge, GoOn
<1> QED BY <1>1, <1>2, <1>3, SameRun DEF Judge, Result

LEMMA JudgeType ==
    ASSUME IInv, Judge
    PROVE  TypeOK'
<1> DEFINE S == [overrun : Nat, window_timed_out : BOOLEAN, verdict : Verdicts]
<1>1. results \in [DOMAIN plan -> SUBSET S] /\ at[1] \in DOMAIN plan /\ Result \in S
  BY JudgeFrame DEF IInv, TypeOK
<1>2. results' = [results EXCEPT ![at[1]] = @ \cup {Result}]
  BY JudgeFrame
<1> HIDE DEF S
<1>3. results' \in [DOMAIN plan -> SUBSET S]
  BY ONLY <1>1, <1>2, ResultsType
<1>4. failures' \subseteq failures \cup RoundChecks
  BY JudgeFrame, RoundFailuresType
<1>5. reference' \in [counter : Ledger, single_use : Ledger]
  BY JudgeFrame DEF IInv, TypeOK
<1> QED BY <1>3, <1>4, <1>5, JudgeFrame, GoOnType DEF S

LEMMA JudgeRunFrame ==
    ASSUME IInv, JudgeRun
    PROVE  /\ phase = "verdict" /\ phase' = "over"
           /\ UNCHANGED <<program, plan, config, runs, at, todo, view, reference, results,
                          disturbed, schema, gate, timed_out, store, stragglers>>
           /\ failures \subseteq failures'
           /\ failures' \subseteq failures \cup {"zero_violations", "lock_contrast",
                                                 "throttle_series", "coverage"}
           /\ "zero_violations" \in failures' /\ "zero_violations" \notin failures
                  => Secure /\ failures \cap {"overrun", "disagreement"} # {}
<1>1. /\ phase = "verdict" /\ phase' = "over"
      /\ UNCHANGED <<program, at, todo, view, reference, results, disturbed, schema, gate,
                     timed_out, store, stragglers>>
  BY DEF JudgeRun
<1>2. /\ failures \subseteq failures'
      /\ failures' \subseteq failures \cup {"zero_violations", "lock_contrast",
                                            "throttle_series", "coverage"}
      /\ "zero_violations" \in failures' /\ "zero_violations" \notin failures
             => Secure /\ failures \cap {"overrun", "disagreement"} # {}
  BY DEF JudgeRun, Failing
<1> QED BY <1>1, <1>2, SameRun

LEMMA StragglerStepType ==
    ASSUME IInv, StragglerWrites \/ StragglerEnds
    PROVE  TypeOK'
<1>1. /\ stragglers.count > 0 /\ StragglerGone
      /\ UNCHANGED <<program, at, phase, todo, view, report, disturbed, schema, gate>>
  BY DEF StragglerWrites, StragglerEnds
<1>2. store \in Ledger /\ store.sold + 1 \in Nat /\ store.orders + 1 \in Nat
      /\ store.redeemed + 1 \in Nat
  <2>1. store \in Ledger
    BY DEF IInv, TypeOK
  <2> QED BY <2>1, LedgerFields
<1>3. \/ store' = store
      \/ store' = WithDrop(store, store.sold + 1, store.orders + 1)
      \/ store' = WithRedeemed(store, store.redeemed + 1)
  BY DEF StragglerWrites, StragglerEnds, WithDrop, WithRedeemed
<1>4. \A p, q \in Nat : WithDrop(store, p, q) \in Ledger /\ WithRedeemed(store, p) \in Ledger
  BY ONLY <1>2, DropUpdate, RedeemedUpdate
<1>5. store' \in Ledger
  BY ONLY <1>2, <1>3, <1>4
<1>6. UNCHANGED <<plan, config, runs>>
  BY <1>1, SameRun
<1>7. stragglers' \in Stragglers /\ timed_out' \in BOOLEAN
  BY <1>1, StragglerType
<1> QED BY <1>1, <1>5, <1>6, <1>7 DEF IInv, TypeOK, report, schema

LEMMA DieType ==
    ASSUME IInv, Die \/ DieDuringBurst
    PROVE  TypeOK' /\ Dead
<1>1. Dead
  BY DEF Die, DieDuringBurst
<1>2. store' \in Ledger
  <2>1. CASE Die
    BY <2>1 DEF Die, IInv, TypeOK
  <2>2. CASE DieDuringBurst
    <3>1. PICK n \in Nat : Write(n)
      BY <2>2, WritesType DEF IInv, DieDuringBurst
    <3> QED BY <3>1, WriteType DEF IInv
  <2> QED BY <2>1, <2>2
<1>3. stragglers' \in Stragglers
  <2>1. CASE Die
    BY <2>1 DEF Die, IInv, TypeOK
  <2>2. CASE DieDuringBurst
    <3>1. PICK n \in 0 .. MaxStragglers :
              stragglers' = [invariant |-> Current.invariant, secure |-> Secure, count |-> n,
                             late |-> IF Secure THEN 0 ELSE Least(n, MaxLate)]
      BY <2>2 DEF DieDuringBurst
    <3>2. Current.invariant \in {"counter", "single_use"}
      BY CurrentType DEF IInv
    <3>3. Secure \in BOOLEAN
      BY DEF Secure
    <3>4. Least(n, MaxLate) \in 0 .. MaxLate /\ Least(n, MaxLate) <= n /\ MaxLate \in Nat
      BY <3>1, HarnessAssumption DEF Least
    <3>5. PICK m \in 0 .. MaxLate :
              /\ m <= n
              /\ stragglers' = [invariant |-> Current.invariant, secure |-> Secure, count |-> n,
                                late |-> m]
      BY <3>1, <3>4
    <3> QED BY ONLY <3>2, <3>3, <3>5 DEF Stragglers
  <2> QED BY <2>1, <2>2
<1> QED BY <1>1, <1>2, <1>3, DeathType

------------------------------------------------------------------------------
(* The preparation of a round. *)

\* A step of a run: what Next does but for counting runs, which the next run of a
\* comparison also does.
Step ==
    \/ \E c \in Configs : phase \in {"idle", "over"} /\ Launch(c)
    \/ Preparing \/ Burst \/ BurstWithFailures \/ BurstInterfered \/ ReadDrop \/ ReadWallet
    \/ KeepReference \/ Judge \/ JudgeRun
    \/ Die \/ DieDuringBurst \/ StragglerWrites \/ StragglerEnds

LEMMA ThreeAndOne ==
    ASSUME NEW S, NEW a \in S, NEW b \in S, NEW d \in S, NEW e \in S
    PROVE  <<a, b, d>> \o <<e>> = <<a, b, d, e>>
<1> DEFINE u == <<a, b, d>> \o <<e>>
           v == <<a, b, d, e>>
<1>1. <<a, b, d>> \in Seq(S) /\ <<e>> \in Seq(S) /\ v \in Seq(S)
  OBVIOUS
<1>2. u \in Seq(S) /\ Len(u) = 4 /\ u[1] = a /\ u[2] = b /\ u[3] = d /\ u[4] = e
  BY <1>1, ConcatProperties
<1>3. Len(v) = 4 /\ v[1] = a /\ v[2] = b /\ v[3] = d /\ v[4] = e
  BY <1>1
<1> HIDE DEF u, v
<1>4. u = v
  BY <1>1, <1>2, <1>3, SeqEqual
<1> QED BY <1>4 DEF u, v

LEMMA FourAndOne ==
    ASSUME NEW S, NEW a \in S, NEW b \in S, NEW d \in S, NEW e \in S, NEW f \in S
    PROVE  <<a, b, d, e>> \o <<f>> = <<a, b, d, e, f>>
<1> DEFINE u == <<a, b, d, e>> \o <<f>>
           v == <<a, b, d, e, f>>
<1>1. <<a, b, d, e>> \in Seq(S) /\ <<f>> \in Seq(S) /\ v \in Seq(S)
  OBVIOUS
<1>2. u \in Seq(S) /\ Len(u) = 5 /\ u[1] = a /\ u[2] = b /\ u[3] = d /\ u[4] = e /\ u[5] = f
  BY <1>1, ConcatProperties
<1>3. Len(v) = 5 /\ v[1] = a /\ v[2] = b /\ v[3] = d /\ v[4] = e /\ v[5] = f
  BY <1>1
<1> HIDE DEF u, v
<1>4. u = v
  BY <1>1, <1>2, <1>3, SeqEqual
<1> QED BY <1>4 DEF u, v

LEMMA VulnerablePreparations ==
    ASSUME NEW s
    PROVE  LET last == IF s.gate # NoGate THEN "arm_gate" ELSE "disarm_gate"
           IN  PrepareVulnerableRun(s) =
                   IF s.preSold > 0
                   THEN <<"reset", "drop_backstop", "create_instrumentation", "pre_sell", last>>
                   ELSE <<"reset", "drop_backstop", "create_instrumentation", last>>
<1> DEFINE last == IF s.gate # NoGate THEN "arm_gate" ELSE "disarm_gate"
           start == <<"reset", "drop_backstop", "create_instrumentation">>
<1>1. PrepareVulnerableRun(s)
          = start \o (IF s.preSold > 0 THEN <<"pre_sell">> ELSE <<>>) \o <<last>>
  BY DEF PrepareVulnerableRun
<1>2. /\ "reset" \in Statements /\ "drop_backstop" \in Statements
      /\ "create_instrumentation" \in Statements /\ "pre_sell" \in Statements
      /\ last \in Statements
  BY DEF Statements
<1> HIDE DEF last
<1>3. start \o <<"pre_sell">> = <<"reset", "drop_backstop", "create_instrumentation", "pre_sell">>
      /\ start \o <<>> = start
  BY <1>2, ThreeAndOne, ConcatEmptySeq, TripleIsASeq
<1>4. start \o <<last>> = <<"reset", "drop_backstop", "create_instrumentation", last>>
  BY <1>2, ThreeAndOne
<1>5. <<"reset", "drop_backstop", "create_instrumentation", "pre_sell">> \o <<last>>
          = <<"reset", "drop_backstop", "create_instrumentation", "pre_sell", last>>
  BY <1>2, FourAndOne
<1>6. CASE s.preSold > 0
  BY <1>1, <1>3, <1>5, <1>6 DEF last
<1>7. CASE ~(s.preSold > 0)
  BY <1>1, <1>3, <1>4, <1>7 DEF last
<1> QED BY <1>6, <1>7

------------------------------------------------------------------------------
(* The invariant, action by action. *)

\* A preparation starts with nothing done.
LEMMA PreparationStarts ==
    ASSUME NEW c \in Configs, config' = c, NEW i \in Nat, NEW j \in Nat,
           Prepare(c, PlanFor[c], <<i, j>>), i = 0 => c.variant = "secure"
    PROVE  /\ at' = <<i, j>> /\ at'[1] = i /\ at'[2] = j /\ phase' = "prepare"
           /\ i = 0 => todo' = <<"reset", "restore", "drop_instrumentation">>
           /\ PreparationDone'
<1>1. /\ at' = <<i, j>> /\ at'[1] = i /\ at'[2] = j /\ phase' = "prepare"
      /\ Secure' = (c.variant = "secure")
      /\ todo' = Preparation(c.variant = "secure", <<i, j>>,
                             IF i = 0 THEN Empty ELSE PlanFor[c][i])
  BY DEF Prepare, Secure
<1>2. CASE c.variant = "secure"
  <2>1. todo' = IF i = 0 THEN <<"reset", "restore", "drop_instrumentation">> ELSE <<"reset">>
    BY <1>1, <1>2 DEF Preparation, PrepareSecureRun
  <2>2. SecurePreparation'
    BY <1>1, <2>1 DEF SecurePreparation
  <2> QED BY <1>1, <1>2, <2>1, <2>2 DEF PreparationDone
<1>3. CASE c.variant # "secure"
  <2> DEFINE s == PlanFor[c][i]
             last == IF s.gate # NoGate THEN "arm_gate" ELSE "disarm_gate"
  <2>1. i > 0 /\ todo' = PrepareVulnerableRun(s)
    BY <1>1, <1>3 DEF Preparation
  <2>2. Current' = s
    BY <1>1, <2>1 DEF Current, plan
  <2>3. todo' = IF s.preSold > 0
                THEN <<"reset", "drop_backstop", "create_instrumentation", "pre_sell", last>>
                ELSE <<"reset", "drop_backstop", "create_instrumentation", last>>
    BY <2>1, VulnerablePreparations
  <2>4. GateStep' = last
    BY <2>2 DEF GateStep
  <2> HIDE DEF s
  <2>5. Head(todo') = "reset" /\ todo' # <<GateStep'>>
    BY <2>3, <2>4
  <2>6. GateStep' # "reset"
    BY <2>4
  <2>7. VulnerablePreparation'
    BY <2>2, <2>3, <2>4, <2>5, <2>6 DEF VulnerablePreparation
  <2> QED BY <1>1, <1>3, <2>1, <2>7 DEF PreparationDone
<1> QED BY <1>1, <1>2, <1>3 DEF Preparation, PrepareSecureRun

LEMMA LaunchPreserves ==
    ASSUME IInv, NEW c \in Configs, phase \in {"idle", "over"}, Launch(c), runs' \in 0 .. MaxRuns
    PROVE  IInv'
<1>1. TypeOK'
  BY LaunchType DEF IInv
<1>2. /\ config' = c /\ phase' = "prepare" /\ (disturbed' <=> stragglers.count > 0)
      /\ UNCHANGED <<view, schema, gate, timed_out, store, stragglers>>
      /\ results' = [i \in DOMAIN plan' |-> {}] /\ failures' = {}
      /\ Secure' <=> c.variant = "secure"
  BY DEF Launch, Prepare, NoReport, Secure
<1>3. PICK i \in {0, 1} :
          /\ Prepare(c, PlanFor[c], <<i, 1>>)
          /\ i = 0 <=> c.variant = "secure"
  BY DEF Launch
<1>4. /\ at' = <<i, 1>> /\ at'[1] = i /\ at'[2] = 1
      /\ i = 0 => todo' = <<"reset", "restore", "drop_instrumentation">>
      /\ PreparationDone'
  BY <1>2, <1>3, PreparationStarts
<1>5. Places'
  BY <1>2, <1>3, <1>4, HarnessAssumption DEF Places
<1>6. AloneUnlessDisturbed'
  <2>1. stragglers.count \in Nat
    BY StragglerCounts DEF IInv
  <2> QED BY <1>2, <2>1 DEF AloneUnlessDisturbed
<1>7. StoreIsAsReported' /\ SecureView' /\ SecureIsNeverAccused'
  BY <1>2 DEF StoreIsAsReported, SecureView, SecureIsNeverAccused
<1>8. SecureStore'
  <2>1. CASE Secure'
    <3>1. at' = <<0, 1>> /\ todo' = <<"reset", "restore", "drop_instrumentation">>
      BY <1>2, <1>3, <1>4, <2>1
    <3>2. 1 \in DOMAIN todo' /\ 2 \in DOMAIN todo' /\ 3 \in DOMAIN todo'
          /\ todo'[1] = "reset" /\ todo'[2] = "restore" /\ todo'[3] = "drop_instrumentation"
      BY <3>1
    <3>3. ~Beyond("reset")' /\ ~Beyond("restore")' /\ ~Beyond("drop_instrumentation")'
      BY <1>2, <3>1, <3>2 DEF Beyond
    <3> QED BY <3>3 DEF SecureStore
  <2> QED BY <2>1 DEF SecureStore
<1>9. ResultsAreJudged'
  BY <1>2 DEF ResultsAreJudged
<1>10. ResultsAreThere'
  BY <1>1, <1>2, <1>3, <1>4, PlanType DEF ResultsAreThere, plan
<1> QED BY <1>1, <1>4, <1>5, <1>6, <1>7, <1>8, <1>9, <1>10 DEF IInv

LEMMA DeathPreserves ==
    ASSUME IInv, Die \/ DieDuringBurst
    PROVE  IInv'
<1>1. TypeOK' /\ Dead
  BY DieType
<1>2. /\ phase' = "idle" /\ at' = <<1, 1>>
      /\ results' = [i \in DOMAIN plan' |-> {}] /\ failures' = {}
  BY <1>1 DEF Dead, NoReport
<1>3. Places' /\ AloneUnlessDisturbed' /\ PreparationDone' /\ StoreIsAsReported'
  BY <1>2, HarnessAssumption
  DEF Places, AloneUnlessDisturbed, PreparationDone, StoreIsAsReported
<1>4. SecureStore' /\ SecureView' /\ SecureIsNeverAccused'
  BY <1>2 DEF SecureStore, SecureView, SecureIsNeverAccused, Beyond
<1>5. ResultsAreJudged' /\ ResultsAreThere'
  BY <1>2 DEF ResultsAreJudged, ResultsAreThere
<1> QED BY <1>1, <1>3, <1>4, <1>5 DEF IInv

\* What no statement of a preparation touches.
LEMMA ExecuteKeeps ==
    ASSUME IInv, NEW statement, Execute(statement)
    PROVE  /\ Places' /\ AloneUnlessDisturbed' /\ SecureView' /\ SecureIsNeverAccused'
           /\ ResultsAreJudged' /\ ResultsAreThere'
           /\ UNCHANGED <<plan, config, Current, Secure, at, disturbed, GateStep>>
<1>1. /\ phase = "prepare" /\ phase' \in {"prepare", "burst"}
      /\ UNCHANGED <<program, at, view, report, disturbed, stragglers>>
  BY ExecuteFrame
<1>2. UNCHANGED <<plan, config, Current, Secure, view, results, failures>>
  BY <1>1, SameRun, SamePlace DEF report
<1>3. GateStep' = GateStep
  BY <1>2 DEF GateStep
<1>4. Places' /\ AloneUnlessDisturbed' /\ SecureView' /\ SecureIsNeverAccused'
  BY <1>1, <1>2
  DEF IInv, Places, AloneUnlessDisturbed, SecureView, SecureIsNeverAccused
<1>5. ResultsAreJudged' /\ ResultsAreThere'
  BY <1>1, <1>2 DEF IInv, ResultsAreJudged, ResultsAreThere
<1> QED BY <1>1, <1>2, <1>3, <1>4, <1>5

\* Where in its preparation a run is, from the statement it is at.
LEMMA SecureStatement ==
    ASSUME IInv, Secure, NEW statement, Execute(statement)
    PROVE  /\ statement \in {"reset", "restore", "drop_instrumentation"}
           /\ statement = "reset" =>
                  todo' = IF at[1] = 0 THEN <<"restore", "drop_instrumentation">> ELSE <<>>
           /\ statement = "restore" => at[1] = 0 /\ Fresh /\ todo' = <<"drop_instrumentation">>
                                       /\ todo = <<"restore", "drop_instrumentation">>
           /\ statement = "drop_instrumentation" =>
                  at[1] = 0 /\ Fresh /\ todo' = <<>> /\ todo = <<"drop_instrumentation">>
<1>1. todo' = Tail(todo) /\ Head(todo) = statement /\ phase = "prepare"
  BY ExecuteFrame
<1>2. SecurePreparation
  BY <1>1 DEF IInv, PreparationDone
<1>3. CASE at[1] = 0 /\ todo = <<"reset", "restore", "drop_instrumentation">>
  BY <1>1, <1>3
<1>4. CASE at[1] = 0 /\ todo = <<"restore", "drop_instrumentation">> /\ Fresh
  BY <1>1, <1>4
<1>5. CASE at[1] = 0 /\ todo = <<"drop_instrumentation">> /\ Fresh
  BY <1>1, <1>5
<1>6. CASE at[1] # 0 /\ todo = <<"reset">>
  BY <1>1, <1>6
<1> QED BY <1>2, <1>3, <1>4, <1>5, <1>6 DEF SecurePreparation

LEMMA VulnerableStatement ==
    ASSUME IInv, ~Secure, NEW statement, Execute(statement)
    PROVE  /\ statement \in {"reset", "drop_backstop", "create_instrumentation", "pre_sell",
                             GateStep}
           /\ VulnerablePreparation
           /\ LET sells == Current.preSold > 0
              IN  /\ statement = "reset" =>
                         todo' = IF sells
                                 THEN <<"drop_backstop", "create_instrumentation", "pre_sell",
                                        GateStep>>
                                 ELSE <<"drop_backstop", "create_instrumentation", GateStep>>
                  /\ statement = "drop_backstop" =>
                         todo' = IF sells THEN <<"create_instrumentation", "pre_sell", GateStep>>
                                 ELSE <<"create_instrumentation", GateStep>>
                  /\ statement = "create_instrumentation" =>
                         todo' = IF sells THEN <<"pre_sell", GateStep>> ELSE <<GateStep>>
                  /\ statement = "pre_sell" => sells /\ todo' = <<GateStep>>
                  /\ statement \in {"arm_gate", "disarm_gate"} =>
                         /\ statement = GateStep /\ todo' = <<>> /\ todo = <<GateStep>>
<1>1. todo' = Tail(todo) /\ Head(todo) = statement /\ phase = "prepare"
  BY ExecuteFrame
<1>2. VulnerablePreparation
  BY <1>1 DEF IInv, PreparationDone
<1>3. GateStep \in {"arm_gate", "disarm_gate"}
  BY DEF GateStep
<1>5. CASE todo = <<GateStep>>
  BY <1>1, <1>2, <1>3, <1>5
<1>6. CASE todo = <<"pre_sell", GateStep>> /\ Current.preSold > 0
  BY <1>1, <1>2, <1>3, <1>6
<1>7. CASE todo = IF Current.preSold > 0 THEN <<"create_instrumentation", "pre_sell", GateStep>>
                  ELSE <<"create_instrumentation", GateStep>>
  BY <1>1, <1>2, <1>3, <1>7
<1>8. CASE todo = IF Current.preSold > 0
                  THEN <<"drop_backstop", "create_instrumentation", "pre_sell", GateStep>>
                  ELSE <<"drop_backstop", "create_instrumentation", GateStep>>
  BY <1>1, <1>2, <1>3, <1>8
<1>9. CASE todo = IF Current.preSold > 0
                  THEN <<"reset", "drop_backstop", "create_instrumentation", "pre_sell", GateStep>>
                  ELSE <<"reset", "drop_backstop", "create_instrumentation", GateStep>>
  BY <1>1, <1>2, <1>3, <1>9
<1> QED BY <1>2, <1>5, <1>6, <1>7, <1>8, <1>9 DEF VulnerablePreparation

\* The reference runs and the secure scenarios have the fixtures as they are.
LEMMA SecureCurrent ==
    ASSUME IInv, Secure
    PROVE  Current.preSold = 0 /\ Current.gate = NoGate
<1>1. CASE at[1] > 0
  <2>1. Current = plan[at[1]] /\ plan[at[1]] \in Planned(config)
    BY <1>1, PlaceType, PlanOfRun DEF IInv, Current
  <2> QED BY <2>1 DEF Planned, Plain, Secure
<1>2. CASE ~(at[1] > 0)
  BY <1>2 DEF Current, Scenario
<1> QED BY <1>1, <1>2

\* A secure run at its statement.
LEMMA SecurePreparing ==
    ASSUME IInv, Secure, Preparing
    PROVE  PreparationDone' /\ StoreIsAsReported' /\ SecureStore'
<1>1. PICK statement : Execute(statement)
  BY DEF Preparing, ResetFixtures, RestoreBackstop, DropInstrumentation, DropBackstop,
         CreateInstrumentation, PreSellUnits, ArmGate, DisarmGate
<1>2. /\ UNCHANGED <<Current, Secure, at, disturbed>> /\ Secure'
      /\ phase = "prepare" /\ phase' = IF todo' = <<>> THEN "burst" ELSE "prepare"
      /\ Head(todo) = statement
  BY <1>1, ExecuteKeeps, ExecuteFrame
<1>3. Current.preSold = 0 /\ Current.gate = NoGate
  BY SecureCurrent
<1>4. at = <<at[1], at[2]>> /\ at[1] \in Nat
  BY PlaceType DEF IInv
<1>5. Empty = [sold |-> 0, orders |-> 0, redeemed |-> 0] /\ UnitsAvailable \in Nat
  BY HarnessAssumption DEF Empty
<1>6. CASE statement = "reset"
  <2>1. ResetFixtures
    BY <1>1, <1>2, <1>6
       DEF Preparing, ResetFixtures, RestoreBackstop, DropInstrumentation, DropBackstop,
           CreateInstrumentation, PreSellUnits, ArmGate, DisarmGate, Execute
  <2>2. store' = Empty /\ UNCHANGED <<backstop, instrumented, gate, timed_out>>
    BY <2>1 DEF ResetFixtures, schema
  <2>3. todo' = IF at[1] = 0 THEN <<"restore", "drop_instrumentation">> ELSE <<>>
    BY <1>1, <1>6, SecureStatement
  <2>4. PreparationDone'
    BY <1>2, <2>2, <2>3 DEF PreparationDone, SecurePreparation, Fresh
  <2>5. at # <<0, 1>> =>
            /\ Beyond("reset") /\ Beyond("restore") /\ Beyond("drop_instrumentation")
    BY <1>2 DEF Beyond
  <2>6. at # <<0, 1>> => backstop = Constraints /\ ~instrumented /\ gate = NoGate
    BY <2>5 DEF IInv, SecureStore
  <2>7. StoreIsAsReported'
    BY <1>2, <1>3, <1>5, <2>2, <2>3, <2>6 DEF StoreIsAsReported
  <2>8. at = <<0, 1>> => ~Beyond("restore")' /\ ~Beyond("drop_instrumentation")'
    BY <1>2, <2>3 DEF Beyond
  <2>9. Restorable' /\ store'.sold = store'.orders
    BY <1>5, <2>2 DEF Restorable
  <2> QED BY <1>2, <2>2, <2>4, <2>6, <2>7, <2>8, <2>9 DEF SecureStore
<1>7. CASE statement = "restore"
  <2>1. RestoreBackstop
    BY <1>1, <1>2, <1>7
       DEF Preparing, ResetFixtures, RestoreBackstop, DropInstrumentation, DropBackstop,
           CreateInstrumentation, PreSellUnits, ArmGate, DisarmGate, Execute
  <2>2. Restorable /\ backstop' = Constraints /\ UNCHANGED <<instrumented, gate, timed_out, store>>
    BY <2>1 DEF RestoreBackstop
  <2>3. /\ at[1] = 0 /\ Fresh /\ todo' = <<"drop_instrumentation">>
        /\ todo = <<"restore", "drop_instrumentation">>
    BY <1>1, <1>7, SecureStatement
  <2>4. PreparationDone' /\ StoreIsAsReported'
    BY <1>2, <2>2, <2>3 DEF PreparationDone, SecurePreparation, Fresh, StoreIsAsReported
  <2>5. Beyond("reset")
    BY <1>2, <2>3 DEF Beyond
  <2>6. store.sold = store.orders
    BY <2>5 DEF IInv, SecureStore
  <2>7. Beyond("drop_instrumentation")' => Beyond("drop_instrumentation")
    BY <1>2, <2>3 DEF Beyond
  <2>8. Restorable'
    BY <2>2 DEF Restorable
  <2>9. Beyond("drop_instrumentation")' => ~instrumented /\ gate = NoGate
    BY <2>7 DEF IInv, SecureStore
  <2> QED BY <2>2, <2>4, <2>6, <2>8, <2>9 DEF SecureStore
<1>8. CASE statement = "drop_instrumentation"
  <2>1. DropInstrumentation
    BY <1>1, <1>2, <1>8
       DEF Preparing, ResetFixtures, RestoreBackstop, DropInstrumentation, DropBackstop,
           CreateInstrumentation, PreSellUnits, ArmGate, DisarmGate, Execute
  <2>2. instrumented' = FALSE /\ gate' = NoGate /\ UNCHANGED <<backstop, store>>
    BY <2>1 DEF DropInstrumentation
  <2>3. at[1] = 0 /\ Fresh /\ todo' = <<>> /\ todo = <<"drop_instrumentation">>
    BY <1>1, <1>8, SecureStatement
  <2>4. Beyond("reset") /\ Beyond("restore")
    BY <1>2, <2>3 DEF Beyond
  <2>5. store.sold = store.orders /\ backstop = Constraints /\ Restorable
    BY <2>4 DEF IInv, SecureStore
  <2>6. PreparationDone' /\ StoreIsAsReported'
    BY <1>2, <1>3, <1>5, <2>2, <2>3, <2>5 DEF PreparationDone, Fresh, StoreIsAsReported
  <2>7. Restorable'
    BY <2>2, <2>5 DEF Restorable
  <2> QED BY <2>2, <2>5, <2>6, <2>7 DEF SecureStore
<1> QED BY <1>1, <1>6, <1>7, <1>8, SecureStatement

\* A vulnerable run at its statement.
LEMMA VulnerablePreparing ==
    ASSUME IInv, ~Secure, Preparing
    PROVE  PreparationDone' /\ StoreIsAsReported' /\ SecureStore'
<1> DEFINE sells == Current.preSold > 0
           sold == [sold |-> Current.preSold, orders |-> Current.preSold, redeemed |-> 0]
<1>1. PICK statement : Execute(statement)
  BY DEF Preparing, ResetFixtures, RestoreBackstop, DropInstrumentation, DropBackstop,
         CreateInstrumentation, PreSellUnits, ArmGate, DisarmGate
<1>2. /\ UNCHANGED <<Current, Secure, at, disturbed, GateStep>> /\ ~Secure'
      /\ phase = "prepare" /\ phase' = IF todo' = <<>> THEN "burst" ELSE "prepare"
      /\ Head(todo) = statement
  BY <1>1, ExecuteKeeps, ExecuteFrame
<1>3. Current.preSold \in Nat
  BY CurrentType DEF IInv
<1>4. Empty = [sold |-> 0, orders |-> 0, redeemed |-> 0]
  BY DEF Empty
<1>5. GateStep = IF Current.gate # NoGate THEN "arm_gate" ELSE "disarm_gate"
  BY DEF GateStep
<1>6. SecureStore'
  BY <1>2 DEF SecureStore
<1>7. VulnerablePreparation
  BY <1>1, VulnerableStatement
<1> HIDE DEF sold
<1>8. CASE statement = "reset"
  <2>1. ResetFixtures
    BY <1>1, <1>2, <1>8
       DEF Preparing, ResetFixtures, RestoreBackstop, DropInstrumentation, DropBackstop,
           CreateInstrumentation, PreSellUnits, ArmGate, DisarmGate, Execute
  <2>2. Fresh'
    BY <2>1 DEF ResetFixtures, Fresh
  <2>3. todo' = IF sells THEN <<"drop_backstop", "create_instrumentation", "pre_sell", GateStep>>
                ELSE <<"drop_backstop", "create_instrumentation", GateStep>>
    BY <1>1, <1>8, VulnerableStatement
  <2>4. Head(todo') = "drop_backstop" /\ todo' # <<>> /\ todo' # <<GateStep>>
    BY <2>3
  <2>5. VulnerablePreparation'
    BY <1>2, <1>5, <2>2, <2>3, <2>4 DEF VulnerablePreparation
  <2> QED BY <1>2, <1>6, <2>4, <2>5 DEF PreparationDone, StoreIsAsReported
<1>9. CASE statement = "drop_backstop"
  <2>1. DropBackstop
    BY <1>1, <1>2, <1>9
       DEF Preparing, ResetFixtures, RestoreBackstop, DropInstrumentation, DropBackstop,
           CreateInstrumentation, PreSellUnits, ArmGate, DisarmGate, Execute
  <2>2. Fresh' /\ backstop' = {}
    BY <1>2, <1>7, <1>9, <2>1 DEF DropBackstop, Fresh, VulnerablePreparation
  <2>3. todo' = IF sells THEN <<"create_instrumentation", "pre_sell", GateStep>>
                ELSE <<"create_instrumentation", GateStep>>
    BY <1>1, <1>9, VulnerableStatement
  <2>4. Head(todo') = "create_instrumentation" /\ todo' # <<>> /\ todo' # <<GateStep>>
    BY <2>3
  <2>5. VulnerablePreparation'
    BY <1>2, <1>5, <2>2, <2>3, <2>4 DEF VulnerablePreparation
  <2> QED BY <1>2, <1>6, <2>4, <2>5 DEF PreparationDone, StoreIsAsReported
<1>10. CASE statement = "create_instrumentation"
  <2>1. CreateInstrumentation
    BY <1>1, <1>2, <1>10
       DEF Preparing, ResetFixtures, RestoreBackstop, DropInstrumentation, DropBackstop,
           CreateInstrumentation, PreSellUnits, ArmGate, DisarmGate, Execute
  <2>2. Fresh' /\ backstop' = {} /\ instrumented'
    BY <1>2, <1>7, <1>10, <2>1 DEF CreateInstrumentation, Fresh, VulnerablePreparation
  <2>3. todo' = IF sells THEN <<"pre_sell", GateStep>> ELSE <<GateStep>>
    BY <1>1, <1>10, VulnerableStatement
  <2>4. Head(todo') \in {"pre_sell", GateStep} /\ todo' # <<>> /\ (sells <=> todo' # <<GateStep>>)
        /\ (sells => Head(todo') = "pre_sell")
    BY <1>5, <2>3
  <2>5. todo' = <<GateStep>> /\ ~disturbed' => store' = sold
    BY <1>2, <1>3, <1>4, <2>2, <2>4 DEF Fresh, sold
  <2>6. VulnerablePreparation'
    BY <1>2, <1>5, <2>2, <2>3, <2>4, <2>5 DEF VulnerablePreparation, sold
  <2> QED BY <1>2, <1>6, <2>4, <2>6 DEF PreparationDone, StoreIsAsReported
<1>11. CASE statement = "pre_sell"
  <2>1. PreSellUnits
    BY <1>1, <1>2, <1>11
       DEF Preparing, ResetFixtures, RestoreBackstop, DropInstrumentation, DropBackstop,
           CreateInstrumentation, PreSellUnits, ArmGate, DisarmGate, Execute
  <2>2. Fresh /\ backstop' = {} /\ instrumented'
    BY <1>2, <1>7, <1>11, <2>1 DEF PreSellUnits, VulnerablePreparation, schema
  <2>3. todo' = <<GateStep>> /\ sells
    BY <1>1, <1>11, VulnerableStatement
  <2>4. store = Empty => store' = sold
    <3>1. store' = WithDrop(store, Current.preSold, store.orders + Current.preSold)
      BY <2>1 DEF PreSellUnits, WithDrop
    <3>2. store = Empty => store.orders + Current.preSold = Current.preSold /\ store.redeemed = 0
      BY <1>3, <1>4
    <3>3. store \in Ledger
      BY DEF IInv, TypeOK
    <3>4. \A p, q \in Nat : /\ WithDrop(store, p, q) \in Ledger
                            /\ WithDrop(store, p, q).sold = p /\ WithDrop(store, p, q).orders = q
                            /\ WithDrop(store, p, q).redeemed = store.redeemed
      BY ONLY <3>3, DropUpdate
    <3>5. store = Empty => /\ store' \in Ledger
                           /\ store'.sold = Current.preSold /\ store'.orders = Current.preSold
                           /\ store'.redeemed = 0
      BY ONLY <1>3, <3>1, <3>2, <3>4
    <3> QED BY <3>5, LedgerFields DEF sold
  <2>5. Head(todo') = GateStep /\ todo' # <<>>
    BY <2>3
  <2>6. VulnerablePreparation'
    BY <1>2, <1>5, <2>2, <2>3, <2>4, <2>5 DEF VulnerablePreparation, Fresh, sold
  <2> QED BY <1>2, <1>6, <2>5, <2>6 DEF PreparationDone, StoreIsAsReported
<1>12. CASE statement \in {"arm_gate", "disarm_gate"}
  <2>1. ArmGate \/ DisarmGate
    BY <1>1, <1>2, <1>12
       DEF Preparing, ResetFixtures, RestoreBackstop, DropInstrumentation, DropBackstop,
           CreateInstrumentation, PreSellUnits, ArmGate, DisarmGate, Execute
  <2>2. statement = GateStep /\ todo' = <<>> /\ todo = <<GateStep>>
    BY <1>1, <1>12, VulnerableStatement
  <2>3. backstop = {} /\ instrumented /\ (~disturbed => store = sold)
    BY <1>2, <1>7, <2>2 DEF VulnerablePreparation, sold
  <2>4. gate' = Current.gate /\ UNCHANGED <<backstop, instrumented, store>>
    BY <1>2, <1>5, <2>1, <2>2 DEF ArmGate, DisarmGate, Execute, schema
  <2>5. StoreIsAsReported'
    BY <1>2, <2>3, <2>4 DEF StoreIsAsReported, sold
  <2> QED BY <1>2, <1>6, <2>2, <2>5 DEF PreparationDone
<1> QED BY <1>1, <1>5, <1>8, <1>9, <1>10, <1>11, <1>12, VulnerableStatement

LEMMA PreparingPreserves ==
    ASSUME IInv, Preparing
    PROVE  IInv'
<1>1. PICK statement : Execute(statement)
  BY DEF Preparing, ResetFixtures, RestoreBackstop, DropInstrumentation, DropBackstop,
         CreateInstrumentation, PreSellUnits, ArmGate, DisarmGate
<1>2. TypeOK'
  BY PreparingType
<1>3. /\ Places' /\ AloneUnlessDisturbed' /\ SecureView' /\ SecureIsNeverAccused'
      /\ ResultsAreJudged' /\ ResultsAreThere'
  BY <1>1, ExecuteKeeps
<1>4. PreparationDone' /\ StoreIsAsReported' /\ SecureStore'
  BY SecurePreparing, VulnerablePreparing
<1> QED BY <1>2, <1>3, <1>4 DEF IInv

\* Behind the backstop a burst of the secure variant writes no more than there is
\* room for, whether or not all its requests are answered.
LEMMA SecureWrites ==
    ASSUME IInv, Secure, backstop = Constraints, Restorable,
           NEW n \in Writes(Current) \cup FaultyWrites(Current)
    PROVE  /\ n \in Nat
           /\ Current.invariant = "counter" => store.sold + n <= UnitsAvailable
           /\ Current.invariant # "counter" => store.redeemed + n <= 1
<1>1. /\ store.sold \in Nat /\ store.redeemed \in Nat /\ UnitsAvailable \in Nat
      /\ Current.issued \in Nat \ {0} /\ Current.invariant \in {"counter", "single_use"}
      /\ store.sold <= UnitsAvailable /\ store.redeemed <= 1
  BY CurrentType, HarnessAssumption DEF IInv, TypeOK, Ledger, Restorable
<1>2. Writes(Current) \subseteq Nat
  BY WritesType DEF IInv
<1>3. ASSUME NEW m \in Writes(Current)
      PROVE  /\ Current.invariant = "counter" => store.sold + m <= UnitsAvailable
             /\ Current.invariant # "counter" => store.redeemed + m <= 1
  <2>1. CASE Current.invariant = "counter"
    <3>1. Room \in Nat /\ store.sold + Room <= UnitsAvailable
      BY <1>1 DEF Room
    <3>2. m = 0 \/ m = Least(Current.issued, Room)
      BY <1>3, <2>1 DEF Writes
    <3> QED BY <1>1, <2>1, <3>1, <3>2 DEF Least
  <2>2. CASE Current.invariant # "counter"
    <3>1. m \in IF store.redeemed = 0 THEN {Least(Current.issued, 1)} ELSE {0}
      BY <1>1, <1>3, <2>2 DEF Writes, Constraints
    <3> QED BY <1>1, <2>2, <3>1 DEF Least
  <2> QED BY <2>1, <2>2
<1>4. PICK m \in Writes(Current) : m \in Nat /\ n \in 0 .. m
  BY <1>2 DEF FaultyWrites
<1>5. store.sold + n <= store.sold + m /\ store.redeemed + n <= store.redeemed + m /\ n \in Nat
  BY <1>1, <1>4
<1> QED BY <1>1, <1>3, <1>4, <1>5

\* Only a burst with a gate is interfered with, and only in a disturbed run.
LEMMA InterferedBurst ==
    ASSUME IInv, BurstInterfered
    PROVE  disturbed /\ disturbed' /\ ~Secure
<1>1. phase = "burst" /\ gate # NoGate /\ stragglers.late > 0 /\ disturbed' = disturbed
  BY DEF BurstInterfered, GateApplies
<1>2. stragglers.count # 0
  BY <1>1, StragglerCounts DEF IInv
<1> QED BY <1>1, <1>2 DEF IInv, AloneUnlessDisturbed, StoreIsAsReported

LEMMA BurstPreserves ==
    ASSUME IInv, Burst \/ BurstWithFailures \/ BurstInterfered
    PROVE  IInv'
<1>1. /\ phase = "burst" /\ phase' = "read_drop"
      /\ UNCHANGED <<program, at, todo, view, report, schema, gate>>
      /\ disturbed => disturbed'
      /\ ~disturbed' => UNCHANGED stragglers
  BY InterferedBurst DEF Burst, BurstWithFailures, BurstInterfered
<1>2. UNCHANGED <<plan, config, Current, Secure, view, results, failures, backstop,
                  instrumented>>
  BY <1>1, SameRun, SamePlace DEF report, schema
<1>3. TypeOK'
  BY BurstType
<1>4. Places' /\ AloneUnlessDisturbed' /\ PreparationDone' /\ StoreIsAsReported'
  BY <1>1, <1>2
  DEF IInv, Places, AloneUnlessDisturbed, PreparationDone, StoreIsAsReported
<1>5. SecureStore'
  <2>1. CASE Secure
    <3>1. backstop = Constraints /\ ~instrumented /\ gate = NoGate
      BY <1>1, <2>1 DEF IInv, StoreIsAsReported
    <3>2. Beyond("reset") /\ Beyond("restore")
      BY <1>1 DEF Beyond
    <3>3. store.sold = store.orders /\ Restorable
      BY <2>1, <3>2 DEF IInv, SecureStore
    <3>4. PICK n \in Writes(Current) \cup FaultyWrites(Current) : Write(n)
      BY <2>1, InterferedBurst DEF Burst, BurstWithFailures
    <3>5. /\ n \in Nat
          /\ Current.invariant = "counter" => store.sold + n <= UnitsAvailable
          /\ Current.invariant # "counter" => store.redeemed + n <= 1
      BY <2>1, <3>1, <3>3, SecureWrites
    <3>6. IF Current.invariant = "counter"
          THEN /\ store'.sold = store.sold + n /\ store'.orders = store.orders + n
               /\ store'.redeemed = store.redeemed
          ELSE /\ store'.sold = store.sold /\ store'.orders = store.orders
               /\ store'.redeemed = store.redeemed + n
      BY <3>4, <3>5, WriteType DEF IInv
    <3>7. store'.sold = store'.orders /\ Restorable'
      BY <3>3, <3>5, <3>6 DEF Restorable
    <3> QED BY <1>1, <1>2, <3>1, <3>7 DEF SecureStore
  <2> QED BY <1>2, <2>1 DEF SecureStore
<1>6. SecureView' /\ SecureIsNeverAccused'
  BY <1>1, <1>2 DEF IInv, SecureView, SecureIsNeverAccused
<1>7. ResultsAreJudged' /\ ResultsAreThere'
  BY <1>1, <1>2 DEF IInv, ResultsAreJudged, ResultsAreThere
<1> QED BY <1>3, <1>4, <1>5, <1>6, <1>7 DEF IInv

\* In a secure run that has the constraints back, the store is as it should be.
LEMMA SecurelyStored ==
    ASSUME IInv, Secure, phase \notin {"idle", "prepare"}
    PROVE  /\ backstop = Constraints /\ ~instrumented /\ gate = NoGate
           /\ store.sold = store.orders /\ store.sold <= UnitsAvailable /\ store.redeemed <= 1
BY DEF IInv, SecureStore, Beyond, Restorable

LEMMA ReadPreserves ==
    ASSUME IInv, ReadDrop \/ ReadWallet
    PROVE  IInv'
<1>1. /\ phase \in {"read_drop", "read_wallet"} /\ phase' \in {"read_wallet", "judge"}
      /\ phase = "read_drop" <=> ReadDrop
      /\ phase' = "judge" <=> ReadWallet
      /\ UNCHANGED <<program, at, todo, report, disturbed, schema, gate, timed_out, store,
                     stragglers>>
  BY DEF ReadDrop, ReadWallet
<1>2. UNCHANGED <<plan, config, Current, Secure, results, failures, backstop, instrumented>>
  BY <1>1, SameRun, SamePlace DEF report, schema
<1>3. /\ TypeOK'
      /\ ReadDrop => /\ view'.sold = store.sold /\ view'.orders = store.orders
                     /\ view'.redeemed = view.redeemed
      /\ ReadWallet => /\ view'.sold = view.sold /\ view'.orders = view.orders
                       /\ view'.redeemed = store.redeemed
  BY ReadType
<1>4. Places' /\ AloneUnlessDisturbed' /\ PreparationDone' /\ StoreIsAsReported'
  BY <1>1, <1>2
  DEF IInv, Places, AloneUnlessDisturbed, PreparationDone, StoreIsAsReported
<1>5. SecureStore'
  BY <1>1, <1>2 DEF IInv, SecureStore, Beyond, Restorable
<1>6. SecureView'
  <2>1. CASE Secure
    <3>1. /\ store.sold = store.orders /\ store.sold <= UnitsAvailable /\ store.redeemed <= 1
      BY <1>1, <2>1, SecurelyStored
    <3>2. phase = "read_wallet" => view.sold = view.orders /\ view.orders <= UnitsAvailable
      BY <2>1 DEF IInv, SecureView
    <3> QED BY <1>1, <1>3, <3>1, <3>2 DEF SecureView
  <2> QED BY <1>2, <2>1 DEF SecureView
<1>7. SecureIsNeverAccused' /\ ResultsAreJudged' /\ ResultsAreThere'
  BY <1>1, <1>2 DEF IInv, SecureIsNeverAccused, ResultsAreJudged, ResultsAreThere
<1> QED BY <1>3, <1>4, <1>5, <1>6, <1>7 DEF IInv

LEMMA StragglerPreserves ==
    ASSUME IInv, StragglerWrites \/ StragglerEnds
    PROVE  IInv'
<1>1. /\ stragglers.count > 0
      /\ UNCHANGED <<program, at, phase, todo, view, report, disturbed, schema, gate>>
  BY DEF StragglerWrites, StragglerEnds
<1>2. UNCHANGED <<plan, config, Current, GateStep, Secure, view, results, failures, backstop,
                  instrumented>>
  BY <1>1, SameRun, SamePlace DEF report, schema, GateStep
<1>3. TypeOK'
  BY StragglerStepType
<1>4. phase # "idle" => disturbed
  <2>1. stragglers.count # 0
    BY <1>1
  <2> QED BY <2>1 DEF IInv, AloneUnlessDisturbed
<1>5. Places' /\ AloneUnlessDisturbed'
  BY <1>1, <1>2, <1>4 DEF IInv, Places, AloneUnlessDisturbed
<1>6. PreparationDone'
  BY <1>1, <1>2, <1>4
  DEF IInv, PreparationDone, SecurePreparation, VulnerablePreparation, Fresh
<1>7. StoreIsAsReported'
  BY <1>1, <1>2, <1>4 DEF IInv, StoreIsAsReported
<1>8. SecureStore'
  <2>1. /\ store.sold \in Nat /\ store.orders \in Nat /\ store.redeemed \in Nat
        /\ UnitsAvailable \in Nat /\ store \in Ledger
    BY HarnessAssumption DEF IInv, TypeOK, Ledger
  <2>2. \A p, q \in Nat : /\ WithDrop(store, p, q).sold = p /\ WithDrop(store, p, q).orders = q
                          /\ WithDrop(store, p, q).redeemed = store.redeemed
    <3>1. store \in Ledger
      BY <2>1
    <3> QED BY ONLY <3>1, DropUpdate
  <2>6. \A p \in Nat : /\ WithRedeemed(store, p).sold = store.sold
                       /\ WithRedeemed(store, p).orders = store.orders
                       /\ WithRedeemed(store, p).redeemed = p
    BY ONLY <2>1, RedeemedUpdate
  <2>3. \/ store' = store
        \/ /\ store' = WithDrop(store, store.sold + 1, store.orders + 1)
           /\ backstop = Constraints => Room > 0
        \/ /\ store' = WithRedeemed(store, store.redeemed + 1)
           /\ backstop = Constraints => store.redeemed = 0
    BY DEF StragglerWrites, StragglerEnds, StragglerMayWrite, WithDrop, WithRedeemed, Constraints
  <2>4. \/ store' = store
        \/ /\ store'.sold = store.sold + 1 /\ store'.orders = store.orders + 1
           /\ store'.redeemed = store.redeemed
           /\ backstop = Constraints => Room > 0
        \/ /\ store'.sold = store.sold /\ store'.orders = store.orders
           /\ store'.redeemed = store.redeemed + 1
           /\ backstop = Constraints => store.redeemed = 0
    BY ONLY <2>1, <2>2, <2>3, <2>6
  <2>5. /\ store.sold = store.orders => store'.sold = store'.orders
        /\ backstop = Constraints /\ Restorable => Restorable'
    BY <2>1, <2>4 DEF Restorable, Room
  <2> QED BY <1>1, <1>2, <2>5 DEF IInv, SecureStore, Beyond
<1>9. SecureView' /\ SecureIsNeverAccused'
  BY <1>1, <1>2 DEF IInv, SecureView, SecureIsNeverAccused
<1>10. ResultsAreJudged' /\ ResultsAreThere'
  BY <1>1, <1>2 DEF IInv, ResultsAreJudged, ResultsAreThere
<1> QED BY <1>3, <1>5, <1>6, <1>7, <1>8, <1>9, <1>10 DEF IInv

LEMMA RoundFailuresAre ==
    ASSUME NEW s
    PROVE  /\ "overrun" \in RoundFailures(s) <=>
                  s.expectation = "secure_holds" /\ Overrun(s) > 0
           /\ "disagreement" \in RoundFailures(s) <=>
                  s.expectation = "secure_holds" /\ Disagreement
           /\ "valve" \in RoundFailures(s) <=>
                  s.expectation \in {"defect_required", "looks_fixed"} /\ timed_out
           /\ s.expectation = "defect_required" /\ Overrun(s) = 0
                  => "defect" \in RoundFailures(s)
           /\ "half_fix" \in RoundFailures(s) <=>
                  s.expectation = "looks_fixed"
                  /\ (view.orders # UnitsAvailable \/ view.sold # UnitsAvailable)
           /\ s.expectation = "sequential_correct" /\ Overrun(s) > 0
                  => "sequential" \in RoundFailures(s)
           /\ "zero_violations" \notin RoundFailures(s)
BY DEF RoundFailures, Failing

\* Where a round leaves the run.
LEMMA GoOnFrame ==
    ASSUME IInv, phase = "judge", GoOn, TypeOK'
    PROVE  /\ UNCHANGED <<plan, config, Secure, disturbed, backstop, instrumented, gate,
                          store, stragglers>>
           /\ view' = Empty
           /\ \/ phase' = "verdict" /\ at[1] = Len(plan) /\ at' = at
                 /\ at[2] = Rounds
              \/ phase' = "prepare" /\ at' # <<0, 1>> /\ PreparationDone'
                 /\ \/ at[1] = 0 /\ at'[1] \in {0, 1} /\ (at'[1] = 1 => at'[2] = 1)
                    \/ at[1] > 0 /\ at'[1] = at[1] /\ at'[2] = at[2] + 1 /\ at[2] < Rounds
                    \/ at[1] > 0 /\ at'[1] = at[1] + 1 /\ at'[2] = 1
           /\ Places'
<1>1. /\ UNCHANGED <<program, disturbed, schema, gate, timed_out, store, stragglers>>
      /\ view' = Empty
  BY DEF GoOn
<1>2. UNCHANGED <<plan, config, Secure>>
  BY <1>1, SameRun
<1>3. /\ at[1] \in 0 .. Len(plan) /\ at[2] \in Nat \ {0} /\ Len(plan) \in Nat \ {0}
      /\ at = <<at[1], at[2]>> /\ Rounds \in Nat \ {0}
      /\ at[1] = 0 => Secure /\ at[2] <= 2
      /\ at[1] > 0 => at[2] <= Rounds
  BY PlaceType, PlanOfRun, HarnessAssumption DEF IInv, Places
<1>4. CASE NextPlace[1] > Len(plan)
  <2>1. phase' = "verdict" /\ at' = at
    BY <1>4 DEF GoOn
  <2>2. at[1] = Len(plan) /\ at[2] = Rounds
    BY <1>3, <1>4 DEF NextPlace
  <2>3. Places'
    BY <1>2, <1>3, <2>1 DEF Places
  <2> QED BY <1>1, <1>2, <2>1, <2>2, <2>3 DEF schema
<1>5. CASE ~(NextPlace[1] > Len(plan))
  <2>1. PICK i \in Nat, j \in Nat :
            /\ NextPlace = <<i, j>>
            /\ \/ at[1] = 0 /\ i = 0 /\ j = 2
               \/ at[1] = 0 /\ i = 1 /\ j = 1
               \/ at[1] > 0 /\ i = at[1] /\ j = at[2] + 1 /\ at[2] < Rounds
               \/ at[1] > 0 /\ i = at[1] + 1 /\ j = 1
    BY <1>3 DEF NextPlace
  <2>2. Prepare(config, PlanFor[config], <<i, j>>) /\ config' = config /\ config \in Configs
    BY <1>2, <1>5, <2>1 DEF GoOn, plan, IInv, TypeOK
  <2>3. i = 0 => config.variant = "secure"
    BY <1>3, <2>1 DEF Secure
  <2>4. /\ at' = <<i, j>> /\ at'[1] = i /\ at'[2] = j /\ phase' = "prepare" /\ PreparationDone'
    BY <2>2, <2>3, PreparationStarts
  <2>5. at' # <<0, 1>>
    BY <1>3, <2>1, <2>4
  <2>6. Places'
    BY <1>2, <1>3, <2>1, <2>4 DEF Places
  <2> QED BY <1>1, <1>2, <1>3, <2>1, <2>4, <2>5, <2>6 DEF schema
<1> QED BY <1>4, <1>5

\* What going on to the next round keeps.
LEMMA GoOnPreserves ==
    ASSUME IInv, phase = "judge", GoOn, TypeOK'
    PROVE  /\ Places' /\ AloneUnlessDisturbed' /\ PreparationDone' /\ StoreIsAsReported'
           /\ SecureStore' /\ SecureView'
<1>1. /\ UNCHANGED <<plan, config, Secure, disturbed, backstop, instrumented, gate,
                     store, stragglers>>
      /\ phase' \in {"verdict", "prepare"} /\ (phase' = "prepare" => at' # <<0, 1>>)
      /\ (phase' = "prepare" => PreparationDone') /\ Places'
  BY GoOnFrame
<1>2. AloneUnlessDisturbed' /\ StoreIsAsReported' /\ SecureView' /\ PreparationDone'
  BY <1>1 DEF IInv, AloneUnlessDisturbed, StoreIsAsReported, SecureView, PreparationDone
<1>3. SecureStore'
  <2>1. CASE Secure
    <3>1. /\ backstop = Constraints /\ ~instrumented /\ gate = NoGate
          /\ store.sold = store.orders /\ store.sold <= UnitsAvailable /\ store.redeemed <= 1
      BY <2>1, SecurelyStored
    <3> QED BY <1>1, <3>1 DEF SecureStore, Restorable
  <2> QED BY <1>1, <2>1 DEF SecureStore
<1> QED BY <1>1, <1>2, <1>3

LEMMA KeepReferencePreserves ==
    ASSUME IInv, KeepReference
    PROVE  IInv'
<1>1. phase = "judge" /\ GoOn /\ at[1] = 0 /\ UNCHANGED <<results, failures>>
  BY DEF KeepReference
<1>2. TypeOK'
  BY KeepReferenceType
<1>3. /\ Places' /\ AloneUnlessDisturbed' /\ PreparationDone' /\ StoreIsAsReported'
      /\ SecureStore' /\ SecureView'
  BY <1>1, <1>2, GoOnPreserves
<1>4. UNCHANGED <<plan, config, Secure>> /\ phase' = "prepare"
      /\ at'[1] \in {0, 1} /\ (at'[1] = 1 => at'[2] = 1)
  BY <1>1, <1>2, GoOnFrame, PlanOfRun DEF IInv
<1>5. SecureIsNeverAccused' /\ ResultsAreJudged'
  BY <1>1, <1>4 DEF IInv, SecureIsNeverAccused, ResultsAreJudged
<1>6. ResultsAreThere'
  BY <1>1, <1>4, PlanOfRun DEF IInv, ResultsAreThere
<1> QED BY <1>2, <1>3, <1>5, <1>6 DEF IInv

LEMMA JudgePreserves ==
    ASSUME IInv, Judge
    PROVE  IInv'
<1>1. /\ at[1] \in DOMAIN plan /\ Current = plan[at[1]] /\ Current \in Planned(config)
      /\ phase = "judge" /\ GoOn
      /\ results' = [results EXCEPT ![at[1]] = results[at[1]] \cup {Result}]
      /\ failures' = failures \cup RoundFailures(Current)
      /\ Result.window_timed_out => Current.gate # NoGate /\ timed_out
      /\ UNCHANGED <<plan, config>>
  BY JudgeFrame
<1>2. TypeOK'
  BY JudgeType
<1>3. /\ Places' /\ AloneUnlessDisturbed' /\ PreparationDone' /\ StoreIsAsReported'
      /\ SecureStore' /\ SecureView'
  BY <1>1, <1>2, GoOnPreserves
<1>4. results \in [DOMAIN plan -> SUBSET [overrun : Nat, window_timed_out : BOOLEAN,
                                          verdict : Verdicts]]
  BY DEF IInv, TypeOK
<1>5. /\ \A i \in DOMAIN plan : results'[i] = IF i = at[1] THEN results[i] \cup {Result}
                                              ELSE results[i]
      /\ results'[at[1]] # {}
  BY <1>1, <1>4
<1>6. /\ Current.expectation \in Expectations /\ Current.invariant \in {"counter", "single_use"}
      /\ Current.gate # NoGate => Current.expectation \in {"defect_required", "looks_fixed"}
      /\ Current.expectation = "looks_fixed" => Current.invariant = "counter"
      /\ Secure => Current.expectation = "secure_holds"
  BY <1>1 DEF Planned, ScenarioType, Plain, HeldOpen, HalfFix, Secure
<1>7. /\ Result.overrun = Overrun(Current)
      /\ Overrun(Current) \in Nat /\ (Overrun(Current) > 0 <=> Achieved(Current) > Allowed(Current))
      /\ view.orders \in Nat
  BY <1>6, LedgerType DEF IInv, Result
<1>8. SecureIsNeverAccused'
  <2>1. CASE Secure
    <3>1. view.sold = view.orders /\ view.orders <= UnitsAvailable /\ view.redeemed <= 1
      BY <1>1, <2>1 DEF IInv, SecureView
    <3>2. Achieved(Current) <= Allowed(Current)
      BY <3>1 DEF Achieved, Allowed
    <3>3. ~(Achieved(Current) > Allowed(Current))
      <4>1. Achieved(Current) \in Nat /\ Allowed(Current) \in Nat
        BY <1>6, LedgerType DEF IInv
      <4> QED BY <3>2, <4>1
    <3>4. "overrun" \notin RoundFailures(Current) /\ "disagreement" \notin RoundFailures(Current)
      BY <1>7, <3>1, <3>3, RoundFailuresAre DEF Disagreement
    <3> QED BY <1>1, <2>1, <3>4, RoundFailuresAre DEF IInv, SecureIsNeverAccused
  <2> QED BY <1>1, <2>1 DEF SecureIsNeverAccused, Secure
<1>9. ResultsAreJudged'
  <2> SUFFICES ASSUME NEW i \in DOMAIN plan, NEW result \in results'[i]
               PROVE  /\ result.window_timed_out => "valve" \in failures'
                      /\ plan[i].expectation = "defect_required" /\ result.overrun = 0
                             => "defect" \in failures'
                      /\ result.overrun > 0 =>
                             /\ plan[i].expectation = "secure_holds" => "overrun" \in failures'
                             /\ plan[i].expectation = "looks_fixed" => "half_fix" \in failures'
                             /\ plan[i].expectation = "sequential_correct"
                                    => "sequential" \in failures'
    BY <1>1 DEF ResultsAreJudged
  <2>1. CASE result \in results[i]
    BY <1>1, <2>1 DEF IInv, ResultsAreJudged
  <2>2. CASE i = at[1] /\ result = Result
    <3>1. Result.window_timed_out => "valve" \in RoundFailures(Current)
      BY <1>1, <1>6, RoundFailuresAre
    <3>2. Current.expectation = "defect_required" /\ Result.overrun = 0
              => "defect" \in RoundFailures(Current)
      BY <1>7, RoundFailuresAre
    <3>3. Result.overrun > 0 =>
              /\ Current.expectation = "secure_holds" => "overrun" \in RoundFailures(Current)
              /\ Current.expectation = "sequential_correct"
                     => "sequential" \in RoundFailures(Current)
      BY <1>7, RoundFailuresAre
    <3>4. Result.overrun > 0 /\ Current.expectation = "looks_fixed"
              => "half_fix" \in RoundFailures(Current)
      <4>1. Result.overrun > 0 /\ Current.expectation = "looks_fixed"
                => view.orders > UnitsAvailable
        BY <1>6, <1>7 DEF Achieved, Allowed
      <4> QED BY <1>7, <4>1, HarnessAssumption, RoundFailuresAre
    <3> QED BY <1>1, <2>2, <3>1, <3>2, <3>3, <3>4
  <2> QED BY <1>5, <2>1, <2>2
<1>10. ResultsAreThere'
  <2>1. \A i \in DOMAIN plan : i < at[1] \/ (i = at[1] /\ at[2] > 1) => results[i] # {}
    BY <1>1 DEF IInv, ResultsAreThere
  <2>3. DOMAIN plan = 1 .. Len(plan) /\ at[1] \in 1 .. Len(plan) /\ at[2] \in Nat \ {0}
        /\ Len(plan) \in Nat
    BY <1>1, PlanOfRun, PlaceType DEF IInv
  <2>2. ASSUME NEW i \in DOMAIN plan, i <= at[1] PROVE results'[i] # {}
    <3>1. i < at[1] \/ i = at[1]
      BY <2>2, <2>3
    <3>2. i < at[1] => results[i] # {}
      BY <2>1
    <3> QED BY <1>5, <3>1, <3>2
  <2>4. \/ phase' = "verdict" /\ at[1] = Len(plan)
        \/ phase' = "prepare" /\ at'[1] = at[1]
        \/ phase' = "prepare" /\ at'[1] = at[1] + 1 /\ at'[2] = 1
    BY <1>1, <1>2, <2>3, GoOnFrame
  <2>5. CASE phase' = "verdict" /\ at[1] = Len(plan)
    BY <1>1, <2>2, <2>3, <2>5 DEF ResultsAreThere
  <2>6. CASE phase' = "prepare" /\ at'[1] = at[1]
    BY <1>1, <2>2, <2>3, <2>6 DEF ResultsAreThere
  <2>7. CASE phase' = "prepare" /\ at'[1] = at[1] + 1 /\ at'[2] = 1
    BY <1>1, <2>2, <2>3, <2>7 DEF ResultsAreThere
  <2> QED BY <2>4, <2>5, <2>6, <2>7
<1> QED BY <1>2, <1>3, <1>8, <1>9, <1>10 DEF IInv

\* The checks of the run as a whole: "zero_violations" adds no accusation of its own.
LEMMA JudgeRunPreserves ==
    ASSUME IInv, JudgeRun
    PROVE  IInv'
<1>1. /\ phase = "verdict" /\ phase' = "over"
      /\ UNCHANGED <<program, plan, config, runs, at, todo, view, reference, results,
                     disturbed, schema, gate, timed_out, store, stragglers>>
      /\ failures \subseteq failures'
      /\ failures' \subseteq failures \cup {"zero_violations", "lock_contrast",
                                            "throttle_series", "coverage"}
      /\ "zero_violations" \in failures' /\ "zero_violations" \notin failures
             => Secure /\ failures \cap {"overrun", "disagreement"} # {}
  BY JudgeRunFrame
<1>2. UNCHANGED <<Secure, Current, backstop, instrumented>>
  BY <1>1, SameRun, SamePlace DEF schema
<1>3. TypeOK'
  BY <1>1, <1>2 DEF IInv, TypeOK
<1>4. Places' /\ AloneUnlessDisturbed' /\ PreparationDone' /\ StoreIsAsReported'
  BY <1>1, <1>2
  DEF IInv, Places, AloneUnlessDisturbed, PreparationDone, StoreIsAsReported
<1>5. SecureStore' /\ SecureView'
  BY <1>1, <1>2 DEF IInv, SecureStore, SecureView, Beyond, Restorable
<1>6. SecureIsNeverAccused'
  BY <1>1, <1>2 DEF IInv, SecureIsNeverAccused
<1>7. ResultsAreJudged' /\ ResultsAreThere'
  BY <1>1, <1>2 DEF IInv, ResultsAreJudged, ResultsAreThere
<1> QED BY <1>3, <1>4, <1>5, <1>6, <1>7 DEF IInv

LEMMA StepPreserves ==
    ASSUME IInv, Step, runs' \in 0 .. MaxRuns
    PROVE  IInv'
BY LaunchPreserves, PreparingPreserves, BurstPreserves, ReadPreserves, KeepReferencePreserves,
   JudgePreserves, JudgeRunPreserves, DeathPreserves, StragglerPreserves DEF Step

LEMMA StutterPreserves ==
    ASSUME IInv, UNCHANGED vars
    PROVE  IInv'
<1>1. UNCHANGED <<program, at, phase, todo, view, reference, results, failures, disturbed,
                  backstop, instrumented, gate, timed_out, store, stragglers>>
  BY DEF vars, report, schema
<1>2. UNCHANGED <<plan, config, runs, Secure, Current, GateStep, Restorable, Fresh>>
  BY <1>1, SameRun, SamePlace DEF GateStep, Restorable, Fresh
<1>3. TypeOK'
  BY <1>1, <1>2 DEF IInv, TypeOK
<1>4. Places' /\ AloneUnlessDisturbed' /\ PreparationDone' /\ StoreIsAsReported'
  BY <1>1, <1>2
  DEF IInv, Places, AloneUnlessDisturbed, PreparationDone, SecurePreparation,
      VulnerablePreparation, StoreIsAsReported
<1>5. SecureStore' /\ SecureView'
  BY <1>1, <1>2 DEF IInv, SecureStore, SecureView, Beyond
<1>6. SecureIsNeverAccused' /\ ResultsAreJudged' /\ ResultsAreThere'
  BY <1>1, <1>2 DEF IInv, SecureIsNeverAccused, ResultsAreJudged, ResultsAreThere
<1> QED BY <1>3, <1>4, <1>5, <1>6 DEF IInv

LEMMA InitIInv == Init => IInv
<1> SUFFICES ASSUME Init PROVE IInv
  OBVIOUS
<1>1. /\ runs = 0 /\ config \in Configs /\ at = <<1, 1>> /\ phase = "idle" /\ todo = <<>>
      /\ view = Empty /\ reference = [counter |-> Empty, single_use |-> Empty]
      /\ results = [i \in DOMAIN plan |-> {}] /\ failures = {} /\ disturbed = FALSE
      /\ backstop = Constraints /\ instrumented = FALSE /\ gate = NoGate /\ timed_out = FALSE
      /\ store = Empty /\ stragglers = Nobody
  BY DEF Init
<1>2. Len(plan) \in Nat \ {0}
  BY <1>1, PlanType DEF plan
<1>3. Empty \in Ledger /\ NoGate \in [expected : Nat, arm_at : Nat \cup {Anything}]
      /\ Nobody \in Stragglers /\ Nobody.count = 0
  BY HarnessAssumption, NobodyIsThere DEF Empty, Ledger, NoGate
<1>4. at \in (0 .. Len(plan)) \X (1 .. IF Rounds < 2 THEN 2 ELSE Rounds)
  BY <1>1, <1>2, HarnessAssumption
<1>5. TypeOK
  <2>1. results \in [DOMAIN plan -> SUBSET [overrun : Nat, window_timed_out : BOOLEAN,
                                            verdict : Verdicts]]
        /\ reference \in [counter : Ledger, single_use : Ledger]
    BY <1>1, <1>3
  <2>2. todo \in Seq(Statements) /\ runs \in 0 .. MaxRuns
    BY <1>1, HarnessAssumption
  <2> QED BY <1>1, <1>3, <1>4, <2>1, <2>2 DEF TypeOK, Statements
<1>6. Places /\ AloneUnlessDisturbed /\ PreparationDone /\ StoreIsAsReported
  BY <1>1, HarnessAssumption
  DEF Places, AloneUnlessDisturbed, PreparationDone, StoreIsAsReported
<1>7. SecureStore /\ SecureView /\ SecureIsNeverAccused /\ ResultsAreJudged /\ ResultsAreThere
  BY <1>1
  DEF SecureStore, SecureView, SecureIsNeverAccused, ResultsAreJudged, ResultsAreThere, Beyond
<1> QED BY <1>5, <1>6, <1>7 DEF IInv

LEMMA NextIsStep ==
    ASSUME IInv, Next
    PROVE  Step /\ runs' \in 0 .. MaxRuns
<1>1. CASE \E c \in Configs : StartRun(c)
  <2>1. PICK c \in Configs : StartRun(c)
    BY <1>1
  <2>2. runs \in 0 .. MaxRuns /\ MaxRuns \in Nat
    BY HarnessAssumption DEF IInv, TypeOK
  <2> QED BY <2>1, <2>2 DEF StartRun, Step
<1>2. CASE ~\E c \in Configs : StartRun(c)
  <2>1. Step
    BY <1>2 DEF Next, Step
  <2>2. runs' = runs
    BY <1>2 DEF Next, Preparing, ResetFixtures, RestoreBackstop, DropInstrumentation,
        DropBackstop, CreateInstrumentation, PreSellUnits, ArmGate, DisarmGate, Execute, Burst,
        BurstWithFailures, BurstInterfered, ReadDrop, ReadWallet,
        KeepReference, Judge, JudgeRun, GoOn, Die,
        DieDuringBurst, Dead, StragglerWrites, StragglerEnds, program
  <2> QED BY <2>1, <2>2 DEF IInv, TypeOK
<1> QED BY <1>1, <1>2

------------------------------------------------------------------------------
\* Every reachable state of the harness, at any statement of any run, satisfies
\* the inductive invariant.
THEOREM Invariance == Spec => []IInv
<1>1. Init => IInv
  BY InitIInv
<1>2. IInv /\ [Next]_vars => IInv'
  BY NextIsStep, StepPreserves, StutterPreserves
<1> QED BY <1>1, <1>2, PTL DEF Spec

\* The harness, its report and the store it works on keep their types, and
\* the schema never carries a constraint it does not know.
THEOREM TypeCorrect == Spec => []TypeOK
<1>1. IInv => TypeOK
  BY DEF IInv
<1> QED BY <1>1, Invariance, PTL

\* A run of the secure variant never reports an overrun, a disagreement or a
\* violation (_judge_secure_round, _judge_run), whatever died before it.
THEOREM SecureIsSafe == Spec => []SecureIsNeverAccused
<1>1. IInv => SecureIsNeverAccused
  BY DEF IInv
<1> QED BY <1>1, Invariance, PTL

\* Every burst meets the constraints, the instrumentation, the gate and, in a run
\* that is alone, the fixtures its scenario asks for (_prepare_round).
THEOREM StoreIsPrepared == Spec => []StoreIsAsReported
<1>1. IInv => StoreIsAsReported
  BY DEF IInv
<1> QED BY <1>1, Invariance, PTL

LEMMA FreshIsRestorable == IInv => RestoreNeverFails
<1> SUFFICES ASSUME IInv, phase = "prepare", Head(todo) = "restore", ~disturbed
             PROVE  Restorable
  BY DEF RestoreNeverFails
<1>1. CASE Secure
  <2>1. SecurePreparation
    BY <1>1 DEF IInv, PreparationDone
  <2>2. Fresh
    BY <2>1 DEF SecurePreparation
  <2> QED BY <2>2, HarnessAssumption DEF Fresh, Empty, Restorable
<1>2. CASE ~Secure
  <2>1. VulnerablePreparation
    BY <1>2 DEF IInv, PreparationDone
  <2>2. Head(todo) \in {"reset", "drop_backstop", "create_instrumentation", "pre_sell",
                        "arm_gate", "disarm_gate"}
    BY <2>1 DEF VulnerablePreparation, GateStep
  <2> QED BY <2>2
<1> QED BY <1>1, <1>2

\* prepare_secure_run never adds the constraints to rows that break them, unless
\* requests of a dead run are about.
THEOREM RestoringSucceeds == Spec => []RestoreNeverFails
BY FreshIsRestorable, Invariance, PTL

LEMMA JudgedIsEarned == IInv => PassIsEarned
<1> SUFFICES ASSUME IInv, phase = "over", failures = {}, NEW i \in DOMAIN plan
             PROVE  /\ results[i] # {}
                    /\ \A result \in results[i] : ~result.window_timed_out
                    /\ plan[i].expectation = "defect_required" => 0 \notin Overruns(i)
                    /\ plan[i].expectation \notin {"defect_required", "observe_only"}
                           => Overruns(i) = {0}
  BY DEF PassIsEarned
<1>1. results[i] # {}
  BY DEF IInv, ResultsAreThere
<1>2. plan[i].expectation \in Expectations
  BY PlanOfRun DEF IInv, Planned, ScenarioType
<1>3. \A result \in results[i] :
          /\ ~result.window_timed_out /\ result.overrun \in Nat
          /\ plan[i].expectation = "defect_required" => result.overrun # 0
          /\ result.overrun > 0 => plan[i].expectation \in {"defect_required", "observe_only"}
  BY <1>2 DEF IInv, TypeOK, ResultsAreJudged, Expectations
<1>4. \A result \in results[i] : result.overrun > 0 \/ result.overrun = 0
  BY <1>3
<1> QED BY <1>1, <1>3, <1>4 DEF Overruns

\* A run that ends without a failure has run every scenario, with the overrun
\* each of them requires and none of it measured through the safety valve.
THEOREM PassesAreEarned == Spec => []PassIsEarned
BY JudgedIsEarned, Invariance, PTL

=============================================================================
