--------------------------- MODULE HealthyRunProofs ---------------------------
(***************************************************************************)
(* No false alarm: a run of the load harness that has the store to itself, *)
(* none of whose requests fails and whose bursts are ample passes every    *)
(* check, secure or vulnerable, for any fixtures, rounds and throttles.    *)
(*                                                                         *)
(* HInv adds to the invariant of HarnessRunProofs what such a run leaves   *)
(* in the store after each burst, exactly, and follows it through the view,*)
(* the references and the results to the checks of the whole run.          *)
(***************************************************************************)
EXTENDS HarnessRunProofs

\* How much a burst of a scenario leaves behind when every request of it is
\* answered, what was sold before included.
Committed(s) ==
    IF s.expectation \in {"secure_holds", "sequential_correct"} THEN Allowed(s)
    ELSE s.preSold + s.gate.expected

ExactLedger(s) ==
    IF s.invariant = "counter"
    THEN [sold |-> Committed(s), orders |-> Committed(s), redeemed |-> 0]
    ELSE [sold |-> 0, orders |-> 0, redeemed |-> Committed(s)]

ExactOverrun(s) == Excess(Committed(s), Allowed(s))

ExactVerdict(s) ==
    IF ExactOverrun(s) > 0 THEN "invariant_violated"
    ELSE IF Secure THEN "invariant_held" ELSE "inconclusive"

Healthy == ~disturbed /\ Ample(config)

\* A run alone with the store reads what is there.
ViewIsOfStore ==
    /\ phase \notin {"read_wallet", "judge"} => view = Empty
    /\ ~disturbed /\ phase = "read_wallet" =>
           view = [sold |-> store.sold, orders |-> store.orders, redeemed |-> 0]
    /\ ~disturbed /\ phase = "judge" => view = store

\* Arming or disarming the gate is the last thing before a burst.
ValveIsFresh == ~disturbed /\ ~Secure /\ phase = "burst" => ~timed_out

BurstIsExact ==
    Healthy /\ phase \in {"read_drop", "read_wallet", "judge"} =>
        /\ Current.expectation # "observe_only" => store = ExactLedger(Current)
        /\ Current.gate # NoGate => ~timed_out

ReferenceIsExact ==
    Healthy /\ Secure /\ phase # "idle" =>
        /\ at[1] > 0 \/ at[2] = 2 =>
               reference.counter = [sold |-> UnitsAvailable, orders |-> UnitsAvailable, redeemed |-> 0]
        /\ at[1] > 0 => reference.single_use = [sold |-> 0, orders |-> 0, redeemed |-> 1]

ResultsAreExact ==
    Healthy => \A i \in DOMAIN plan : \A result \in results[i] :
        plan[i].expectation # "observe_only" =>
            /\ result.overrun = ExactOverrun(plan[i])
            /\ result.verdict = ExactVerdict(plan[i])

NothingFails == Healthy => failures = {}

HInv ==
    /\ IInv
    /\ ViewIsOfStore
    /\ ValveIsFresh
    /\ BurstIsExact
    /\ ReferenceIsExact
    /\ ResultsAreExact
    /\ NothingFails

------------------------------------------------------------------------------
(* The scenarios of an ample run. *)

\* What the numbers of a scenario are, by its kind.
LEMMA AmpleScenario ==
    ASSUME NEW c \in Configs, Ample(c), NEW s \in Planned(c)
    PROVE  /\ s.invariant \in {"counter", "single_use"} /\ s.expectation \in Expectations
           /\ s.issued \in Nat \ {0} /\ s.wave \in Nat \ {0} /\ s.preSold \in Nat
           /\ s.replicas \in {1, 2} /\ s.replicas <= s.issued /\ s.issued <= PoolSize
           /\ s.invariant = "counter" => s.issued > UnitsAvailable
           /\ HeldOpen(s) => /\ s.wave <= s.issued /\ s.preSold = 0
                             /\ s.wave > IF s.invariant = "counter" THEN UnitsAvailable ELSE 1
<1>1. /\ s.invariant \in {"counter", "single_use"} /\ s.expectation \in Expectations
      /\ s.issued \in Nat \ {0} /\ s.wave \in Nat \ {0} /\ s.preSold \in Nat
      /\ s.replicas \in {1, 2} /\ (c.replicas = 1 => s.replicas = 1)
      /\ s.issued = IF s.invariant = "counter" THEN c.orders ELSE c.credits
  BY DEF Planned, ScenarioType
<1>2. /\ c.orders \in Nat /\ c.credits \in Nat /\ c.replicas \in {1, 2}
      /\ c.orders > UnitsAvailable /\ c.orders >= c.replicas /\ c.credits >= c.replicas
      /\ c.orders <= PoolSize /\ c.credits <= PoolSize
  BY ConfigType DEF Ample
<1>3. s.replicas <= s.issued
  BY <1>1, <1>2
<1>4. s.issued <= PoolSize /\ (s.invariant = "counter" => s.issued > UnitsAvailable)
  BY <1>1, <1>2
<1>5. ASSUME HeldOpen(s)
      PROVE  /\ s.wave <= s.issued /\ s.preSold = 0
             /\ s.wave > IF s.invariant = "counter" THEN UnitsAvailable ELSE 1
  <2>1. c.variant = "deterministic"
    BY <1>5 DEF HeldOpen, Planned
  <2>2. \A i \in DOMAIN ThrottleSteps : ThrottleSteps[i] \in Nat \ {0, 1} /\ c.credits > ThrottleSteps[i]
    BY <2>1, HarnessAssumption DEF Ample
  <2>3. 1 \in DOMAIN ThrottleSteps
    BY HarnessAssumption, EmptySeq
  <2>4. c.credits > 1
    BY <1>2, <2>2, <2>3
  <2>5. CASE s.invariant = "counter"
    BY <1>1, <1>4, <1>5, <2>5 DEF HeldOpen
  <2>6. CASE s.invariant # "counter"
    <3>1. s.issued = c.credits /\ s.preSold = 0
          /\ (s.wave = s.issued \/ \E i \in DOMAIN ThrottleSteps : s.wave = ThrottleSteps[i])
      BY <1>1, <1>5, <2>6 DEF HeldOpen
    <3>2. CASE s.wave = s.issued
      BY <1>2, <2>4, <2>6, <3>1, <3>2
    <3>3. CASE \E i \in DOMAIN ThrottleSteps : s.wave = ThrottleSteps[i]
      BY <1>2, <2>2, <2>6, <3>1, <3>3
    <3> QED BY <3>1, <3>2, <3>3
  <2> QED BY <2>5, <2>6
<1> QED BY <1>1, <1>3, <1>4, <1>5

\* The scenario being run, by its kind.
LEMMA HealthyCurrent ==
    ASSUME IInv, Healthy
    PROVE  /\ Current.invariant \in {"counter", "single_use"}
           /\ Current.expectation \in Expectations
           /\ Current.issued \in Nat \ {0} /\ Current.wave \in Nat \ {0}
           /\ Current.preSold \in Nat /\ Current.replicas \in {1, 2}
           /\ Current.replicas <= Current.issued /\ Current.issued <= PoolSize
           /\ Current.invariant = "counter" => Current.issued > UnitsAvailable
           /\ Secure => Current.expectation = "secure_holds" /\ Plain(Current)
           /\ ~Secure =>
                  \/ HeldOpen(Current) /\ Current.wave <= Current.issued
                     /\ Current.wave > IF Current.invariant = "counter" THEN UnitsAvailable ELSE 1
                  \/ HalfFix(Current)
                  \/ /\ Current.expectation = "sequential_correct"
                     /\ Plain(Current) /\ Current.sequential
                  \/ Current.expectation = "observe_only" /\ Plain(Current)
<1>1. config \in Configs /\ Ample(config)
  BY PlanOfRun DEF IInv, Healthy
<1>2. CASE at[1] > 0
  <2>1. Current = plan[at[1]] /\ plan[at[1]] \in Planned(config)
    BY <1>2, PlanOfRun, PlaceType DEF Current, IInv
  <2>2. /\ Current.invariant \in {"counter", "single_use"}
        /\ Current.expectation \in Expectations
        /\ Current.issued \in Nat \ {0} /\ Current.wave \in Nat \ {0}
        /\ Current.preSold \in Nat /\ Current.replicas \in {1, 2}
        /\ Current.replicas <= Current.issued /\ Current.issued <= PoolSize
        /\ Current.invariant = "counter" => Current.issued > UnitsAvailable
        /\ HeldOpen(Current) =>
               /\ Current.wave <= Current.issued
               /\ Current.wave > IF Current.invariant = "counter" THEN UnitsAvailable ELSE 1
    BY <1>1, <2>1, AmpleScenario
  <2>3. /\ Secure => Current.expectation = "secure_holds" /\ Plain(Current)
        /\ ~Secure =>
               \/ HeldOpen(Current)
               \/ HalfFix(Current)
               \/ /\ Current.expectation = "sequential_correct"
                  /\ Plain(Current) /\ Current.sequential
               \/ Current.expectation = "observe_only" /\ Plain(Current)
    BY <2>1 DEF Planned, Secure
  <2> QED BY ONLY <2>2, <2>3
<1>3. CASE ~(at[1] > 0)
  <2>1. at[1] = 0 /\ at[2] \in {1, 2} /\ Secure
    BY <1>3, PlaceType DEF IInv, Places
  <2>2. /\ Current.invariant = (IF at[2] = 1 THEN "counter" ELSE "single_use")
        /\ Current.replicas = config.replicas /\ Current.expectation = "secure_holds"
        /\ Current.issued = (IF at[2] = 1 THEN config.orders ELSE config.credits)
        /\ Current.wave = (IF at[2] = 1 THEN config.orders ELSE config.credits)
        /\ Current.preSold = 0 /\ Current.gate = NoGate
    BY <2>1 DEF Current, Scenario, Invariants
  <2>3. /\ config.orders \in Nat \ {0} /\ config.credits \in Nat \ {0}
        /\ config.replicas \in {1, 2}
        /\ config.orders > UnitsAvailable /\ config.orders >= config.replicas
        /\ config.credits >= config.replicas
        /\ config.orders <= PoolSize /\ config.credits <= PoolSize
    BY <1>1, ConfigType DEF Ample
  <2>4. CASE at[2] = 1
    BY <2>1, <2>2, <2>3, <2>4 DEF Plain, Expectations
  <2>5. CASE at[2] = 2
    BY <2>1, <2>2, <2>3, <2>5 DEF Plain, Expectations
  <2> QED BY <2>1, <2>4, <2>5
<1> QED BY <1>2, <1>3

LEMMA NoGateFields ==
    /\ NoGate.expected = 0 /\ NoGate.arm_at = Anything
    /\ \A e \in Nat \ {0} : \A a : [expected |-> e, arm_at |-> a] # NoGate
<1>1. NoGate.expected = 0 /\ NoGate.arm_at = Anything
  BY DEF NoGate
<1>2. ASSUME NEW e \in Nat \ {0}, NEW a, [expected |-> e, arm_at |-> a] = NoGate
      PROVE  FALSE
  <2>1. [expected |-> e, arm_at |-> a].expected = e
    OBVIOUS
  <2> QED BY <1>1, <1>2, <2>1
<1> QED BY <1>1, <1>2

\* A burst of a healthy run meets its own store, and no request of it can do
\* anything but what its scenario is about.
LEMMA HealthyWrites ==
    ASSUME IInv, Healthy, phase = "burst", Current.expectation # "observe_only"
    PROVE  /\ \A n \in Writes(Current) : n \in Nat /\ Current.preSold + n = Committed(Current)
           /\ Current.gate # NoGate => GateApplies(Current) /\ GateFills(Current)
<1> DEFINE s == Current
<1>1. /\ store.sold = s.preSold /\ store.redeemed = 0
      /\ Secure => backstop = Constraints
      /\ ~Secure => backstop = {} /\ gate = s.gate
  BY DEF IInv, StoreIsAsReported, Healthy
<1>2. /\ UnitsAvailable \in Nat \ {0} /\ PoolSize \in Nat \ {0}
  BY HarnessAssumption
<1>3. CASE Secure
  <2>1. /\ s.expectation = "secure_holds" /\ s.gate = NoGate /\ s.preSold = 0
        /\ s.invariant \in {"counter", "single_use"} /\ s.issued \in Nat \ {0}
        /\ s.invariant = "counter" => s.issued > UnitsAvailable
    BY <1>3, HealthyCurrent DEF Plain
  <2> HIDE DEF s
  <2>2. Room = UnitsAvailable
    BY <1>1, <1>2, <2>1 DEF Room
  <2>3. CASE s.invariant = "counter"
    <3>1. Least(s.issued, Room) = UnitsAvailable
      BY <1>2, <2>1, <2>2, <2>3 DEF Least
    <3>2. Writes(s) = {UnitsAvailable}
      BY <1>2, <1>3, <2>2, <2>3, <3>1 DEF Writes
    <3> QED BY <1>2, <2>1, <2>3, <3>2 DEF Committed, Allowed, s
  <2>4. CASE s.invariant # "counter"
    <3>1. Least(s.issued, 1) = 1
      BY <2>1 DEF Least
    <3>2. Writes(s) = {1}
      BY <1>1, <1>3, <2>4, <3>1 DEF Writes, Constraints
    <3> QED BY <1>2, <2>1, <2>4, <3>2 DEF Committed, Allowed, s
  <2> QED BY <2>3, <2>4
<1>4. CASE ~Secure /\ s.expectation = "sequential_correct"
  <2>1. /\ s.gate = NoGate /\ s.preSold = 0 /\ s.sequential /\ gate = NoGate
        /\ s.invariant \in {"counter", "single_use"} /\ s.issued \in Nat \ {0}
        /\ s.invariant = "counter" => s.issued > UnitsAvailable
    BY <1>1, <1>4, HealthyCurrent DEF Plain, HeldOpen, HalfFix
  <2> HIDE DEF s
  <2>2. Room = UnitsAvailable
    BY <1>1, <1>2, <2>1 DEF Room
  <2>3. CASE s.invariant = "counter"
    <3>1. Least(s.issued, Room) = UnitsAvailable
      BY <1>2, <2>1, <2>2, <2>3 DEF Least
    <3>2. Writes(s) = {UnitsAvailable}
      BY <1>2, <1>4, <2>1, <2>2, <2>3, <3>1 DEF Writes
    <3> QED BY <1>2, <1>4, <2>1, <2>3, <3>2 DEF Committed, Allowed, s
  <2>4. CASE s.invariant # "counter"
    <3>1. Least(s.issued, 1) = 1
      BY <2>1 DEF Least
    <3>2. Writes(s) = {1}
      BY <1>1, <1>4, <2>1, <2>4, <3>1 DEF Writes
    <3> QED BY <1>2, <1>4, <2>1, <2>4, <3>2 DEF Committed, Allowed, s
  <2> QED BY <2>3, <2>4
<1>5. CASE ~Secure /\ HeldOpen(s)
  <2>1. /\ s.gate = [expected |-> s.wave, arm_at |-> Anything] /\ s.preSold = 0
        /\ ~s.sequential /\ s.expectation = "defect_required" /\ s.shape # "process_lock"
        /\ s.invariant \in {"counter", "single_use"} /\ s.issued \in Nat \ {0}
        /\ s.wave \in Nat \ {0} /\ s.replicas \in {1, 2}
        /\ s.issued <= PoolSize
    BY <1>5, HealthyCurrent DEF HeldOpen
  <2>6. s.wave <= s.issued
    BY <1>1, <1>5, HealthyCurrent DEF HalfFix, HeldOpen, Plain
  <2> HIDE DEF s
  <2>2. Room = UnitsAvailable
    BY <1>1, <1>2, <2>1 DEF Room
  <2>3. gate # NoGate /\ gate.expected = s.wave /\ gate.arm_at = Anything
    BY <1>1, <1>5, <2>1, NoGateFields
  <2>4. GateApplies(s)
    BY <1>1, <1>2, <2>2, <2>3 DEF GateApplies
  <2>5. GateFills(s)
    <3>1. InFlight(s) = s.wave
      BY <2>1, <2>6 DEF InFlight, Least
    <3>2. s.wave <= s.replicas * PoolSize
      BY <1>2, <2>1, <2>6
    <3>3. Together(s) = s.wave
      BY <1>2, <2>1, <3>1, <3>2 DEF Together, Least
    <3> QED BY <2>1, <2>3, <3>3 DEF GateFills
  <2>7. Writes(s) = {s.wave}
    BY <1>1, <1>2, <1>5, <2>1, <2>2, <2>3, <2>4, <2>5 DEF Writes
  <2>8. Committed(s) = s.wave
    BY <2>1 DEF Committed
  <2> QED BY <2>1, <2>4, <2>5, <2>7, <2>8 DEF s
<1>6. CASE ~Secure /\ HalfFix(s)
  <2>1. /\ s.gate = [expected |-> s.replicas, arm_at |-> UnitsAvailable - 1]
        /\ s.preSold = UnitsAvailable - 1 /\ s.invariant = "counter"
        /\ ~s.sequential /\ s.expectation \in {"looks_fixed", "defect_required"}
        /\ s.shape = "process_lock" /\ s.issued \in Nat \ {0}
        /\ s.replicas \in {1, 2} /\ s.replicas <= s.issued
    BY <1>6, HealthyCurrent DEF HalfFix
  <2> HIDE DEF s
  <2>2. Room = 1
    BY <1>1, <1>2, <2>1 DEF Room
  <2>3. gate # NoGate /\ gate.expected = s.replicas /\ gate.arm_at = store.sold
    BY <1>1, <1>6, <2>1, NoGateFields
  <2>4. GateApplies(s)
    BY <2>1, <2>2, <2>3 DEF GateApplies
  <2>5. GateFills(s)
    <3>1. Together(s) = s.replicas
      BY <2>1 DEF Together, Least
    <3> QED BY <2>1, <2>3, <3>1 DEF GateFills
  <2>7. Writes(s) = {s.replicas}
    BY <1>1, <1>6, <2>1, <2>2, <2>3, <2>4, <2>5 DEF Writes
  <2>8. Committed(s) = s.preSold + s.replicas
    BY <2>1 DEF Committed
  <2> QED BY <2>1, <2>4, <2>5, <2>7, <2>8 DEF s
<1> QED BY <1>3, <1>4, <1>5, <1>6, HealthyCurrent

------------------------------------------------------------------------------
(* The steps of a healthy run. *)

LEMMA LedgerEqual ==
    ASSUME NEW s \in Ledger, NEW m, NEW n, NEW r, s.sold = m, s.orders = n, s.redeemed = r
    PROVE  s = [sold |-> m, orders |-> n, redeemed |-> r]
BY LedgerFields

\* Whoever starts or dies reports nothing, and waits for no gate.
LEMMA HealthyLaunch ==
    ASSUME HInv, NEW c \in Configs, phase \in {"idle", "over"}, Launch(c), IInv'
    PROVE  HInv'
<1>1. /\ phase' = "prepare" /\ UNCHANGED <<view, timed_out, store>>
      /\ results' = [i \in DOMAIN plan' |-> {}] /\ failures' = {}
  BY DEF Launch, Prepare, NoReport
<1>2. Secure' => at' = <<0, 1>>
  BY DEF Launch, Prepare, Secure
<1>3. ViewIsOfStore' /\ ValveIsFresh' /\ BurstIsExact' /\ NothingFails'
  BY <1>1 DEF HInv, ViewIsOfStore, ValveIsFresh, BurstIsExact, NothingFails
<1>4. ReferenceIsExact'
  <2>1. Secure' => at'[1] = 0 /\ at'[2] = 1
    BY <1>2
  <2> QED BY <2>1 DEF ReferenceIsExact
<1>5. ResultsAreExact'
  BY <1>1 DEF ResultsAreExact
<1> QED BY <1>3, <1>4, <1>5 DEF HInv

LEMMA HealthyDeath ==
    ASSUME HInv, Die \/ DieDuringBurst, IInv'
    PROVE  HInv'
<1>1. Dead
  BY DieType DEF HInv
<1>2. /\ phase' = "idle" /\ view' = Empty
      /\ results' = [i \in DOMAIN plan' |-> {}] /\ failures' = {}
  BY <1>1 DEF Dead, NoReport
<1>3. ViewIsOfStore' /\ ValveIsFresh' /\ BurstIsExact' /\ NothingFails' /\ ReferenceIsExact'
  BY <1>2 DEF ViewIsOfStore, ValveIsFresh, BurstIsExact, NothingFails, ReferenceIsExact
<1>4. ResultsAreExact'
  BY <1>2 DEF ResultsAreExact
<1> QED BY <1>3, <1>4, IInv' DEF HInv

\* What is kept by a step that touches no result.
LEMMA HealthyReport ==
    ASSUME HInv, UNCHANGED <<program, results, failures>>, disturbed => disturbed'
    PROVE  /\ ResultsAreExact' /\ NothingFails'
           /\ UNCHANGED <<plan, config, Secure>> /\ (Healthy' => Healthy)
<1>1. UNCHANGED <<plan, config, Secure>>
  BY SameRun
<1>2. Healthy' => Healthy
  BY <1>1 DEF Healthy, Ample
<1>3. NothingFails'
  BY <1>2 DEF HInv, NothingFails
<1>4. ASSUME Healthy', NEW i \in DOMAIN plan, NEW result \in results[i],
             plan[i].expectation # "observe_only"
      PROVE  result.overrun = ExactOverrun(plan[i]) /\ result.verdict = ExactVerdict(plan[i])
  BY <1>2, <1>4 DEF HInv, ResultsAreExact
<1>5. ResultsAreExact'
  BY <1>1, <1>4 DEF ResultsAreExact, ExactOverrun, ExactVerdict, Excess, Committed, Allowed
<1> QED BY <1>1, <1>2, <1>3, <1>5

LEMMA HealthyPreparing ==
    ASSUME HInv, Preparing, IInv'
    PROVE  HInv'
<1>1. PICK statement : Execute(statement)
  BY DEF Preparing, ResetFixtures, RestoreBackstop, DropInstrumentation, DropBackstop,
         CreateInstrumentation, PreSellUnits, ArmGate, DisarmGate
<1>2. /\ phase = "prepare" /\ phase' \in {"prepare", "burst"} /\ Head(todo) = statement
      /\ todo' = Tail(todo) /\ phase' = (IF todo' = <<>> THEN "burst" ELSE "prepare")
      /\ UNCHANGED <<program, at, view, report, disturbed, stragglers>>
  BY <1>1, ExecuteFrame DEF HInv, Execute
<1>3. /\ ResultsAreExact' /\ NothingFails'
      /\ UNCHANGED <<plan, config, Secure>> /\ (Healthy' => Healthy)
  BY <1>2, HealthyReport DEF report
<1>4. ViewIsOfStore' /\ BurstIsExact'
  BY <1>2 DEF HInv, ViewIsOfStore, BurstIsExact
<1>5. ReferenceIsExact'
  BY <1>2, <1>3 DEF HInv, ReferenceIsExact, report
<1>6. ValveIsFresh'
  <2> SUFFICES ASSUME ~Secure, phase' = "burst" PROVE ~timed_out'
    BY <1>3 DEF ValveIsFresh
  <2>1. todo' = <<>>
    BY <1>2
  <2>2. statement \in {"reset", "drop_backstop", "create_instrumentation", "pre_sell", GateStep}
        /\ statement \notin {"reset", "drop_backstop", "create_instrumentation", "pre_sell"}
    BY <1>1, <2>1, VulnerableStatement DEF HInv
  <2>3. statement \in {"arm_gate", "disarm_gate"}
    BY <2>2 DEF GateStep
  <2>4. ArmGate \/ DisarmGate
    BY <1>2, <2>3 DEF Preparing, ResetFixtures, RestoreBackstop, DropInstrumentation,
       DropBackstop, CreateInstrumentation, PreSellUnits, Execute
  <2> QED BY <2>4 DEF ArmGate, DisarmGate
<1> QED BY <1>3, <1>4, <1>5, <1>6, IInv' DEF HInv

LEMMA HealthyBurst ==
    ASSUME HInv, Burst \/ BurstWithFailures \/ BurstInterfered, IInv'
    PROVE  HInv'
<1>1. /\ phase = "burst" /\ phase' = "read_drop"
      /\ UNCHANGED <<program, at, view, report>>
      /\ disturbed => disturbed'
  BY DEF Burst, BurstWithFailures, BurstInterfered
<1>2. /\ ResultsAreExact' /\ NothingFails'
      /\ UNCHANGED <<plan, config, Secure, Current>> /\ (Healthy' => Healthy)
  BY <1>1, HealthyReport, SamePlace DEF report
<1>3. ViewIsOfStore' /\ ValveIsFresh'
  BY <1>1 DEF HInv, ViewIsOfStore, ValveIsFresh
<1>4. ReferenceIsExact'
  BY <1>1, <1>2 DEF HInv, ReferenceIsExact, report
<1>5. BurstIsExact'
  <2> SUFFICES ASSUME Healthy'
               PROVE  /\ Current.expectation # "observe_only" => store' = ExactLedger(Current)'
                      /\ Current.gate # NoGate => ~timed_out'
    BY <1>2 DEF BurstIsExact
  <2>1. Healthy /\ Burst /\ IInv /\ ValveIsFresh
    BY <1>2, InterferedBurst DEF BurstWithFailures, Healthy, HInv
  <2>2. Current.gate # NoGate => ~Secure /\ Current.expectation # "observe_only"
    BY <2>1, HealthyCurrent DEF Plain, HeldOpen, HalfFix
  <2>3. Current.gate # NoGate => ~timed_out'
    BY <1>1, <2>1, <2>2, HealthyWrites DEF Burst, ValveIsFresh, Healthy
  <2>4. ASSUME Current.expectation # "observe_only" PROVE store' = ExactLedger(Current)
    <3>1. PICK n \in Writes(Current) : Write(n)
      BY <2>1 DEF Burst
    <3>2. n \in Nat /\ Current.preSold + n = Committed(Current)
      BY <1>1, <2>1, <2>4, <3>1, HealthyWrites
    <3>3. store.sold = Current.preSold /\ store.orders = Current.preSold /\ store.redeemed = 0
      BY <1>1, <2>1 DEF IInv, StoreIsAsReported, Healthy
    <3>4. /\ store' \in Ledger
          /\ IF Current.invariant = "counter"
             THEN store'.sold = store.sold + n /\ store'.orders = store.orders + n
                  /\ store'.redeemed = store.redeemed
             ELSE store'.sold = store.sold /\ store'.orders = store.orders
                  /\ store'.redeemed = store.redeemed + n
      BY <2>1, <3>1, <3>2, WriteType DEF IInv
    <3>5. CASE Current.invariant = "counter"
      BY <3>2, <3>3, <3>4, <3>5, LedgerEqual DEF ExactLedger
    <3>6. CASE Current.invariant # "counter"
      <4>1. Current.preSold = 0
        BY <2>1, <3>6, HealthyCurrent DEF Plain, HeldOpen, HalfFix
      <4> QED BY <3>2, <3>3, <3>4, <3>6, <4>1, LedgerEqual DEF ExactLedger
    <3> QED BY <3>5, <3>6
  <2>5. ExactLedger(Current)' = ExactLedger(Current)
    BY <1>2 DEF ExactLedger, Committed, Allowed
  <2> QED BY <2>3, <2>4, <2>5
<1> QED BY <1>2, <1>3, <1>4, <1>5, IInv' DEF HInv

LEMMA HealthyRead ==
    ASSUME HInv, ReadDrop \/ ReadWallet, IInv'
    PROVE  HInv'
<1>1. /\ phase \in {"read_drop", "read_wallet"} /\ phase' \in {"read_wallet", "judge"}
      /\ phase = "read_drop" <=> ReadDrop
      /\ phase' = "judge" <=> ReadWallet
      /\ UNCHANGED <<program, at, report, disturbed, timed_out, store>>
  BY DEF ReadDrop, ReadWallet
<1>2. /\ ResultsAreExact' /\ NothingFails'
      /\ UNCHANGED <<plan, config, Secure, Current>> /\ (Healthy' => Healthy)
  BY <1>1, HealthyReport, SamePlace DEF report
<1>3. ValveIsFresh'
  BY <1>1 DEF ValveIsFresh
<1>4. ReferenceIsExact'
  BY <1>1, <1>2 DEF HInv, ReferenceIsExact, report
<1>5. BurstIsExact'
  <2>1. ExactLedger(Current)' = ExactLedger(Current)
    BY <1>2 DEF ExactLedger, Committed, Allowed
  <2> QED BY <1>1, <1>2, <2>1 DEF HInv, BurstIsExact
<1>6. ViewIsOfStore'
  <2>1. /\ view' \in Ledger /\ store \in Ledger
        /\ ReadDrop => /\ view'.sold = store.sold /\ view'.orders = store.orders
                       /\ view'.redeemed = view.redeemed
        /\ ReadWallet => /\ view'.sold = view.sold /\ view'.orders = view.orders
                         /\ view'.redeemed = store.redeemed
    BY ReadType, IInv' DEF HInv, IInv, TypeOK
  <2>2. CASE ReadDrop
    <3>1. view = Empty /\ phase' = "read_wallet"
      BY <1>1, <2>2 DEF HInv, ViewIsOfStore, ReadDrop
    <3>2. view'.redeemed = 0
      BY <2>1, <2>2, <3>1 DEF Empty
    <3>3. view' = [sold |-> store.sold, orders |-> store.orders, redeemed |-> 0]
      BY <2>1, <2>2, <3>2, LedgerEqual
    <3> QED BY <1>1, <3>1, <3>3 DEF ViewIsOfStore
  <2>3. CASE ReadWallet
    <3>1. ~disturbed => view.sold = store.sold /\ view.orders = store.orders
      BY <1>1, <2>3 DEF HInv, ViewIsOfStore, ReadWallet
    <3>2. ~disturbed => view' = store
      BY <2>1, <2>3, <3>1, LedgerEqual, LedgerFields
    <3> QED BY <1>1, <2>3, <3>2 DEF ViewIsOfStore
  <2> QED BY <2>2, <2>3
<1> QED BY <1>2, <1>3, <1>4, <1>5, <1>6, IInv' DEF HInv

\* A request of a dead run is only about while no run, or a disturbed one, is on.
LEMMA HealthyStraggler ==
    ASSUME HInv, StragglerWrites \/ StragglerEnds, IInv'
    PROVE  HInv'
<1>1. /\ stragglers.count > 0
      /\ UNCHANGED <<program, at, phase, view, report, disturbed>>
  BY DEF StragglerWrites, StragglerEnds
<1>2. phase = "idle" \/ disturbed
  BY <1>1 DEF HInv, IInv, AloneUnlessDisturbed
<1>3. /\ ResultsAreExact' /\ NothingFails'
      /\ UNCHANGED <<plan, config, Secure>> /\ (Healthy' => Healthy)
  BY <1>1, HealthyReport DEF report
<1>4. ViewIsOfStore' /\ ValveIsFresh' /\ BurstIsExact' /\ ReferenceIsExact'
  BY <1>1, <1>2
  DEF HInv, ViewIsOfStore, ValveIsFresh, BurstIsExact, ReferenceIsExact, Healthy
<1> QED BY <1>3, <1>4, IInv' DEF HInv

LEMMA HealthyKeepReference ==
    ASSUME HInv, KeepReference, IInv'
    PROVE  HInv'
<1>1. /\ phase = "judge" /\ at[1] = 0 /\ GoOn /\ UNCHANGED <<results, failures>>
      /\ reference' = [reference EXCEPT ![Current.invariant] = view]
  BY DEF KeepReference
<1>2. /\ IInv /\ TypeOK /\ TypeOK' /\ at[2] \in {1, 2} /\ Secure
      /\ reference \in [counter : Ledger, single_use : Ledger]
  <2>1. IInv /\ TypeOK /\ TypeOK' /\ reference \in [counter : Ledger, single_use : Ledger]
    BY DEF HInv, IInv, TypeOK
  <2>2. Places
    BY <2>1 DEF IInv
  <2> QED BY <1>1, <2>1, <2>2, PlaceType DEF Places
<1>3. /\ NextPlace = IF at[2] = 1 THEN <<0, 2>> ELSE <<1, 1>>
      /\ ~(NextPlace[1] > Len(plan))
  BY <1>1, <1>2, PlanOfRun DEF NextPlace
<1>4. /\ phase' = "prepare" /\ at' = NextPlace /\ view' = Empty
      /\ UNCHANGED <<program, disturbed>>
  BY <1>1, <1>3 DEF GoOn, Prepare
<1>5. /\ ResultsAreExact' /\ NothingFails'
      /\ UNCHANGED <<plan, config, Secure>> /\ (Healthy' => Healthy)
  BY <1>1, <1>4, HealthyReport
<1>6. ViewIsOfStore' /\ ValveIsFresh' /\ BurstIsExact'
  BY <1>4 DEF ViewIsOfStore, ValveIsFresh, BurstIsExact
<1>7. ReferenceIsExact'
  <2> SUFFICES ASSUME Healthy
               PROVE  /\ at'[1] > 0 \/ at'[2] = 2 =>
                             reference'.counter = [sold |-> UnitsAvailable,
                                                   orders |-> UnitsAvailable, redeemed |-> 0]
                      /\ at'[1] > 0 =>
                             reference'.single_use = [sold |-> 0, orders |-> 0, redeemed |-> 1]
    BY <1>5 DEF ReferenceIsExact
  <2>1. /\ Current.expectation = "secure_holds"
        /\ Current.invariant = (IF at[2] = 1 THEN "counter" ELSE "single_use")
    BY <1>1, <1>2 DEF Current, Scenario, Invariants
  <2>2. view = ExactLedger(Current)
    BY <1>1, <2>1 DEF HInv, ViewIsOfStore, BurstIsExact, Healthy
  <2>3. CASE at[2] = 1
    <3>1. view = [sold |-> UnitsAvailable, orders |-> UnitsAvailable, redeemed |-> 0]
      BY <2>1, <2>2, <2>3 DEF ExactLedger, Committed, Allowed
    <3>2. reference'.counter = view
      BY <1>1, <1>2, <2>1, <2>3
    <3>3. at' = <<0, 2>>
      BY <1>3, <1>4, <2>3
    <3> QED BY <3>1, <3>2, <3>3
  <2>4. CASE at[2] = 2
    <3>1. view = [sold |-> 0, orders |-> 0, redeemed |-> 1]
      BY <2>1, <2>2, <2>4 DEF ExactLedger, Committed, Allowed
    <3>2. reference'.single_use = view /\ reference'.counter = reference.counter
      BY <1>1, <1>2, <2>1, <2>4
    <3>3. reference.counter = [sold |-> UnitsAvailable, orders |-> UnitsAvailable, redeemed |-> 0]
      BY <1>1, <1>2, <2>4 DEF HInv, ReferenceIsExact
    <3> QED BY <3>1, <3>2, <3>3
  <2> QED BY <1>2, <2>3, <2>4
<1> QED BY <1>5, <1>6, <1>7, IInv' DEF HInv

\* What an exact ledger says of the overrun.
LEMMA ExactOverruns ==
    ASSUME IInv, Healthy
    PROVE  /\ Committed(Current) \in Nat /\ Allowed(Current) \in Nat \ {0}
           /\ Current.expectation \in {"secure_holds", "sequential_correct"} =>
                  Committed(Current) = Allowed(Current)
           /\ Current.expectation = "defect_required" => Committed(Current) > Allowed(Current)
           /\ Current.expectation = "looks_fixed" =>
                  Current.invariant = "counter" /\ Committed(Current) = UnitsAvailable
<1> DEFINE s == Current
<1>1. UnitsAvailable \in Nat \ {0}
  BY HarnessAssumption
<1>2. Allowed(s) \in Nat \ {0}
  BY <1>1 DEF Allowed
<1>3. CASE s.expectation \in {"secure_holds", "sequential_correct"}
  BY <1>2, <1>3 DEF Committed
<1>4. CASE HeldOpen(s)
  <2>1. /\ s.gate = [expected |-> s.wave, arm_at |-> Anything] /\ s.preSold = 0
        /\ s.expectation = "defect_required" /\ s.wave \in Nat
        /\ ~Secure
    BY <1>4, HealthyCurrent DEF HeldOpen
  <2>2. s.wave > IF s.invariant = "counter" THEN UnitsAvailable ELSE 1
    BY <1>4, <2>1, HealthyCurrent DEF HalfFix, HeldOpen, Plain
  <2> HIDE DEF s
  <2>3. Committed(s) = s.wave
    BY <2>1 DEF Committed
  <2> QED BY <1>2, <2>1, <2>2, <2>3 DEF Allowed, s
<1>5. CASE HalfFix(s)
  <2>1. /\ s.gate = [expected |-> s.replicas, arm_at |-> UnitsAvailable - 1]
        /\ s.preSold = UnitsAvailable - 1 /\ s.invariant = "counter"
        /\ s.expectation = (IF s.replicas = 1 THEN "looks_fixed" ELSE "defect_required")
        /\ s.replicas \in {1, 2}
    BY <1>5, HealthyCurrent DEF HalfFix
  <2> HIDE DEF s
  <2>2. Committed(s) = UnitsAvailable - 1 + s.replicas
    BY <2>1 DEF Committed
  <2> QED BY <1>1, <1>2, <2>1, <2>2 DEF Allowed, s
<1>6. CASE s.expectation = "observe_only" /\ Plain(s)
  <2>1. Committed(s) = 0
    BY <1>6, NoGateFields DEF Committed, Plain
  <2> QED BY <1>2, <1>6, <2>1
<1> QED BY <1>3, <1>4, <1>5, <1>6, HealthyCurrent

LEMMA NoRoundFailure ==
    ASSUME NEW s,
           s.expectation = "secure_holds" =>
               ~(Overrun(s) > 0) /\ ~(Shortfall(s) > 0) /\ ~Disagreement
               /\ view = reference[s.invariant],
           s.expectation \in {"defect_required", "looks_fixed"} => ~timed_out,
           s.expectation = "defect_required" =>
               Overrun(s) # 0 /\ (s.invariant = "counter" => ~(view.sold <= UnitsAvailable)),
           s.expectation = "looks_fixed" =>
               view.orders = UnitsAvailable /\ view.sold = UnitsAvailable,
           s.expectation = "sequential_correct" =>
               ~(Overrun(s) > 0) /\ ~(Shortfall(s) > 0) /\ ~Disagreement,
           ~(s.issued < s.replicas)
    PROVE  RoundFailures(s) = {}
<1>1. RoundFailures(s) \subseteq {"overrun", "shortfall", "disagreement", "canonical_state",
                                  "valve", "defect", "half_fix", "sequential", "spread"}
  BY DEF RoundFailures, Failing
<1>2. /\ "overrun" \notin RoundFailures(s) /\ "shortfall" \notin RoundFailures(s)
      /\ "disagreement" \notin RoundFailures(s) /\ "canonical_state" \notin RoundFailures(s)
  BY DEF RoundFailures, Failing
<1>3. "valve" \notin RoundFailures(s) /\ "defect" \notin RoundFailures(s)
  BY DEF RoundFailures, Failing
<1>4. /\ "half_fix" \notin RoundFailures(s) /\ "sequential" \notin RoundFailures(s)
      /\ "spread" \notin RoundFailures(s)
  BY DEF RoundFailures, Failing
<1> QED BY <1>1, <1>2, <1>3, <1>4

\* A round of a healthy run fails nothing, and measures what it was to show.
LEMMA HealthyRound ==
    ASSUME HInv, Healthy, phase = "judge"
    PROVE  /\ at[1] > 0 => RoundFailures(Current) = {}
           /\ Current.expectation # "observe_only" =>
                  /\ Overrun(Current) = ExactOverrun(Current)
                  /\ Verdict(Current) = ExactVerdict(Current)
<1> DEFINE s == Current
<1>1. /\ s.invariant \in {"counter", "single_use"} /\ s.expectation \in Expectations
      /\ s.replicas \in {1, 2} /\ s.issued \in Nat /\ s.replicas <= s.issued
      /\ s.gate = NoGate => s.expectation \notin {"looks_fixed", "defect_required"}
  <2>1. HeldOpen(s) /\ s.wave \in Nat \ {0} => s.gate # NoGate
    BY NoGateFields DEF HeldOpen
  <2>2. HalfFix(s) /\ s.replicas \in {1, 2} => s.gate # NoGate
    BY NoGateFields DEF HalfFix
  <2> QED BY <2>1, <2>2, HealthyCurrent DEF HInv, Plain
<1>2. /\ Committed(s) \in Nat /\ Allowed(s) \in Nat \ {0}
      /\ s.expectation \in {"secure_holds", "sequential_correct"} => Committed(s) = Allowed(s)
      /\ s.expectation = "defect_required" => Committed(s) > Allowed(s)
      /\ s.expectation = "looks_fixed" =>
             s.invariant = "counter" /\ Committed(s) = UnitsAvailable
  BY ExactOverruns DEF HInv
<1>3. s.expectation # "observe_only" => view = ExactLedger(s)
  BY DEF HInv, ViewIsOfStore, BurstIsExact, Healthy
<1>4. s.gate # NoGate => ~timed_out
  BY DEF HInv, BurstIsExact
<1>5. Secure => s.expectation = "secure_holds"
  BY HealthyCurrent DEF HInv
<1>6. at[1] > 0 /\ Secure => s.expectation = "secure_holds" /\ view = reference[s.invariant]
  <2> SUFFICES ASSUME at[1] > 0, Secure PROVE view = reference[s.invariant]
    BY <1>5
  <2>1. /\ reference.counter = [sold |-> UnitsAvailable, orders |-> UnitsAvailable, redeemed |-> 0]
        /\ reference.single_use = [sold |-> 0, orders |-> 0, redeemed |-> 1]
    BY DEF HInv, ReferenceIsExact
  <2>2. Committed(s) = Allowed(s) /\ view = ExactLedger(s)
    BY <1>2, <1>3, <1>5
  <2> HIDE DEF s
  <2>3. CASE s.invariant = "counter"
    <3>1. view = [sold |-> UnitsAvailable, orders |-> UnitsAvailable, redeemed |-> 0]
      BY <2>2, <2>3 DEF ExactLedger, Allowed
    <3> QED BY <2>1, <2>3, <3>1
  <2>4. CASE s.invariant = "single_use"
    <3>1. view = [sold |-> 0, orders |-> 0, redeemed |-> 1]
      BY <2>2, <2>4 DEF ExactLedger, Allowed
    <3> QED BY <2>1, <2>4, <3>1
  <2> QED BY <1>1, <2>3, <2>4 DEF s
<1>7. s.expectation = "secure_holds" => Secure
  BY HealthyCurrent DEF HInv, HeldOpen, HalfFix
<1> HIDE DEF s
<1>8. s.expectation # "observe_only" =>
          /\ Achieved(s) = Committed(s) /\ ~Disagreement
          /\ s.invariant = "counter" => view.sold = Committed(s) /\ view.orders = Committed(s)
  BY <1>1, <1>3 DEF ExactLedger, Achieved, Disagreement
<1>9. s.expectation # "observe_only" =>
          /\ Overrun(s) = ExactOverrun(s)
          /\ s.expectation \in {"secure_holds", "sequential_correct"} =>
                 Overrun(s) = 0 /\ Shortfall(s) = 0
          /\ s.expectation = "defect_required" => Overrun(s) > 0
  BY <1>2, <1>8 DEF Overrun, ExactOverrun, Shortfall, Excess
<1>10. s.expectation # "observe_only" => Verdict(s) = ExactVerdict(s)
  BY <1>8, <1>9 DEF Verdict, ExactVerdict
<1>11. at[1] > 0 => RoundFailures(s) = {}
  <2> SUFFICES ASSUME at[1] > 0 PROVE RoundFailures(s) = {}
    OBVIOUS
  <2>7. Overrun(s) \in Nat
    BY <1>1, LedgerType DEF HInv, IInv
  <2>1. s.expectation = "secure_holds" =>
            ~(Overrun(s) > 0) /\ ~(Shortfall(s) > 0) /\ ~Disagreement
            /\ view = reference[s.invariant]
    BY <1>6, <1>7, <1>8, <1>9 DEF s
  <2>2. s.expectation \in {"defect_required", "looks_fixed"} => ~timed_out
    BY <1>1, <1>4 DEF s
  <2>3. s.expectation = "defect_required" =>
            Overrun(s) # 0 /\ (s.invariant = "counter" => ~(view.sold <= UnitsAvailable))
    <3>1. s.invariant = "counter" => Allowed(s) = UnitsAvailable
      BY DEF Allowed
    <3>2. s.expectation = "defect_required" /\ s.invariant = "counter"
              => ~(view.sold <= UnitsAvailable)
      BY <1>2, <1>8, <3>1
    <3> QED BY <1>9, <2>7, <3>2
  <2>4. s.expectation = "looks_fixed" =>
            view.orders = UnitsAvailable /\ view.sold = UnitsAvailable
    BY <1>2, <1>8
  <2>5. s.expectation = "sequential_correct" =>
            ~(Overrun(s) > 0) /\ ~(Shortfall(s) > 0) /\ ~Disagreement
    BY <1>8, <1>9
  <2>6. ~(s.issued < s.replicas)
    BY <1>1
  <2> QED BY ONLY <2>1, <2>2, <2>3, <2>4, <2>5, <2>6, NoRoundFailure
<1> QED BY <1>9, <1>10, <1>11 DEF s

------------------------------------------------------------------------------
(* Coverage: no two scenarios of an ample run have one key. *)

KeysOf(s) == {Key(s[i]) : i \in DOMAIN s}
Distinct(s) == \A i, j \in DOMAIN s : Key(s[i]) = Key(s[j]) => i = j

LEMMA DistinctConcat ==
    ASSUME NEW S, NEW s \in Seq(S), NEW t \in Seq(S),
           Distinct(s), Distinct(t), KeysOf(s) \cap KeysOf(t) = {}
    PROVE  Distinct(s \o t) /\ KeysOf(s \o t) = KeysOf(s) \cup KeysOf(t)
<1> DEFINE u == s \o t
<1>1. /\ Len(s) \in Nat /\ DOMAIN s = 1 .. Len(s)
      /\ Len(t) \in Nat /\ DOMAIN t = 1 .. Len(t)
      /\ u \in Seq(S) /\ Len(u) = Len(s) + Len(t) /\ DOMAIN u = 1 .. Len(s) + Len(t)
  BY ConcatProperties, LenProperties
<1>2. \A i \in DOMAIN u : u[i] = IF i <= Len(s) THEN s[i] ELSE t[i - Len(s)]
  BY <1>1, ConcatProperties
<1> HIDE DEF u
<1>3. \A i \in DOMAIN s : i \in DOMAIN u /\ u[i] = s[i]
  BY <1>1, <1>2
<1>4. \A i \in DOMAIN t : i + Len(s) \in DOMAIN u /\ u[i + Len(s)] = t[i]
  BY <1>1, <1>2
<1>5. ASSUME NEW i \in DOMAIN u
      PROVE  \/ i \in DOMAIN s /\ u[i] = s[i]
             \/ i - Len(s) \in DOMAIN t /\ u[i] = t[i - Len(s)]
  BY <1>1, <1>2
<1>6. KeysOf(u) = KeysOf(s) \cup KeysOf(t)
  BY <1>3, <1>4, <1>5 DEF KeysOf
<1>7. ASSUME NEW i \in DOMAIN u, NEW j \in DOMAIN u, Key(u[i]) = Key(u[j])
      PROVE  i = j
  <2>1. CASE i \in DOMAIN s /\ u[i] = s[i] /\ j \in DOMAIN s /\ u[j] = s[j]
    BY <1>7, <2>1 DEF Distinct
  <2>2. CASE /\ i - Len(s) \in DOMAIN t /\ u[i] = t[i - Len(s)]
             /\ j - Len(s) \in DOMAIN t /\ u[j] = t[j - Len(s)]
    <3>1. i - Len(s) = j - Len(s)
      BY <1>7, <2>2 DEF Distinct
    <3> QED BY <1>1, <3>1
  <2>3. CASE i \in DOMAIN s /\ u[i] = s[i] /\ j - Len(s) \in DOMAIN t /\ u[j] = t[j - Len(s)]
    BY <1>7, <2>3 DEF KeysOf
  <2>4. CASE j \in DOMAIN s /\ u[j] = s[j] /\ i - Len(s) \in DOMAIN t /\ u[i] = t[i - Len(s)]
    BY <1>7, <2>4 DEF KeysOf
  <2> QED BY <1>5, <2>1, <2>2, <2>3, <2>4
<1> QED BY <1>6, <1>7 DEF Distinct, u

LEMMA DistinctPair ==
    ASSUME NEW a, NEW b, Key(a) # Key(b)
    PROVE  Distinct(<<a, b>>) /\ KeysOf(<<a, b>>) = {Key(a), Key(b)}
BY DEF Distinct, KeysOf

LEMMA DistinctTriple ==
    ASSUME NEW a, NEW b, NEW d, Key(a) # Key(b), Key(a) # Key(d), Key(b) # Key(d)
    PROVE  Distinct(<<a, b, d>>) /\ KeysOf(<<a, b, d>>) = {Key(a), Key(b), Key(d)}
BY DEF Distinct, KeysOf

\* The fields of a key, by the place they have in it.
LEMMA KeyFields ==
    ASSUME NEW s
    PROVE  /\ Key(s)[1] = s.invariant /\ Key(s)[2] = s.shape /\ Key(s)[3] = s.replicas
           /\ Key(s)[4] = s.gate.expected /\ Key(s)[5] = s.stagger
BY DEF Key

LEMMA DistinctByReplicas ==
    ASSUME NEW S, NEW s \in Seq(S), NEW t \in Seq(S), Distinct(s), Distinct(t),
           \A k \in KeysOf(s) : k[3] = 1, \A k \in KeysOf(t) : k[3] = 2
    PROVE  Distinct(s \o t) /\ KeysOf(s \o t) = KeysOf(s) \cup KeysOf(t)
<1>1. KeysOf(s) \cap KeysOf(t) = {}
  OBVIOUS
<1> QED BY <1>1, DistinctConcat

LEMMA SecureKeys ==
    ASSUME NEW c \in Configs, c.variant = "secure"
    PROVE  Distinct(PlanOf(c))
<1> DEFINE G(p) == << Scenario("counter", "conditional_write", p, c.orders, "secure_holds"),
               Scenario("counter", "pessimistic_lock", p, c.orders, "secure_holds"),
               Scenario("single_use", "unique_constraint", p, c.credits, "secure_holds") >>
<1>1. ASSUME NEW p \in {1, 2}
      PROVE  Distinct(G(p)) /\ (\A k \in KeysOf(G(p)) : k[3] = p) /\ \E S : G(p) \in Seq(S)
  <2> DEFINE a == Scenario("counter", "conditional_write", p, c.orders, "secure_holds")
             b == Scenario("counter", "pessimistic_lock", p, c.orders, "secure_holds")
             d == Scenario("single_use", "unique_constraint", p, c.credits, "secure_holds")
  <2>1. /\ Key(a)[2] = "conditional_write" /\ Key(b)[2] = "pessimistic_lock"
        /\ Key(d)[2] = "unique_constraint" /\ Key(a)[3] = p /\ Key(b)[3] = p /\ Key(d)[3] = p
    BY KeyFields DEF Scenario
  <2>2. G(p) = <<a, b, d>>
    OBVIOUS
  <2> HIDE DEF a, b, d, G
  <2>3. Distinct(G(p)) /\ KeysOf(G(p)) = {Key(a), Key(b), Key(d)}
    BY <2>1, <2>2, DistinctTriple
  <2>4. G(p) \in Seq({a, b, d})
    BY <2>2, TripleIsASeq
  <2> QED BY <2>1, <2>3, <2>4
<1>2. PlanOf(c) = IF c.replicas = 1 THEN G(1) ELSE G(1) \o G(2)
  BY DEF PlanOf, SecureScenarios, AtEachCount
<1> HIDE DEF G
<1>3. CASE c.replicas = 1
  BY <1>1, <1>2, <1>3
<1>4. CASE c.replicas # 1
  <2>1. PICK S : G(1) \in Seq(S)
    BY <1>1
  <2>2. PICK T : G(2) \in Seq(T)
    BY <1>1
  <2>3. G(1) \in Seq(S \cup T) /\ G(2) \in Seq(S \cup T)
    BY <2>1, <2>2
  <2>4. Distinct(G(1)) /\ Distinct(G(2))
        /\ (\A k \in KeysOf(G(1)) : k[3] = 1) /\ (\A k \in KeysOf(G(2)) : k[3] = 2)
    BY <1>1
  <2>5. Distinct(G(1) \o G(2))
    BY ONLY <2>3, <2>4, DistinctByReplicas
  <2> QED BY <1>2, <1>4, <2>5
<1> QED BY <1>3, <1>4

LEMMA NaturalKeys ==
    ASSUME NEW c \in Configs, c.variant = "natural"
    PROVE  Distinct(PlanOf(c))
<1> DEFINE a(p) == Scenario("counter", "unguarded", p, c.orders, "observe_only")
           b(p) == Scenario("single_use", "unguarded", p, c.credits, "observe_only")
           U(p) == <<a(p), b(p)>>
           d == [b(c.replicas) EXCEPT !.stagger = 2]
           e == [b(c.replicas) EXCEPT !.stagger = 10]
           T == <<d, e>>
           E == {a(1), b(1), a(2), b(2), d, e}
<1>1. ASSUME NEW p \in {1, 2}
      PROVE  /\ Key(a(p))[1] = "counter" /\ Key(b(p))[1] = "single_use"
             /\ Key(a(p))[3] = p /\ Key(b(p))[3] = p
             /\ Key(a(p))[5] = 0 /\ Key(b(p))[5] = 0
  BY KeyFields DEF Scenario
<1>2. Key(d)[5] = 2 /\ Key(e)[5] = 10
  BY KeyFields DEF Scenario
<1>3. PlanOf(c) = (IF c.replicas = 1 THEN U(1) ELSE U(1) \o U(2)) \o T
  BY DEF PlanOf, NaturalScenarios, AtEachCount, Unguarded
<1> HIDE DEF a, b, d, e
<1>4. U(1) \in Seq(E) /\ U(2) \in Seq(E) /\ T \in Seq(E)
  BY PairIsASeq
<1>5. /\ Distinct(U(1)) /\ KeysOf(U(1)) = {Key(a(1)), Key(b(1))}
      /\ Distinct(U(2)) /\ KeysOf(U(2)) = {Key(a(2)), Key(b(2))}
      /\ Distinct(T) /\ KeysOf(T) = {Key(d), Key(e)}
  BY <1>1, <1>2, DistinctPair
<1>6. /\ \A k \in KeysOf(U(1)) : k[3] = 1 /\ k[5] = 0
      /\ \A k \in KeysOf(U(2)) : k[3] = 2 /\ k[5] = 0
      /\ \A k \in KeysOf(T) : k[5] # 0
  BY <1>1, <1>2, <1>5
<1> HIDE DEF U, T, E
<1>7. CASE c.replicas = 1
  <2>1. KeysOf(U(1)) \cap KeysOf(T) = {}
    BY <1>6
  <2>2. Distinct(U(1) \o T)
    BY ONLY <1>4, <1>5, <2>1, DistinctConcat
  <2> QED BY <1>3, <1>7, <2>2
<1>8. CASE c.replicas # 1
  <2>1. Distinct(U(1) \o U(2)) /\ KeysOf(U(1) \o U(2)) = KeysOf(U(1)) \cup KeysOf(U(2))
    BY ONLY <1>4, <1>5, <1>6, DistinctByReplicas
  <2>2. KeysOf(U(1) \o U(2)) \cap KeysOf(T) = {} /\ U(1) \o U(2) \in Seq(E)
    BY <1>4, <1>6, <2>1, ConcatIsASeq
  <2>3. Distinct((U(1) \o U(2)) \o T)
    BY ONLY <1>4, <1>5, <2>1, <2>2, DistinctConcat
  <2> QED BY <1>3, <1>8, <2>3
<1> QED BY <1>7, <1>8

LEMMA DeterministicKeys ==
    ASSUME NEW c \in Configs, c.variant = "deterministic", Ample(c)
    PROVE  Distinct(PlanOf(c))
<1> DEFINE a(p) == Held(Unguarded(c, p, "defect_required")[1], c.orders)
           b(p) == Held(Unguarded(c, p, "defect_required")[2], c.credits)
           d(p) == Held([Unguarded(c, p, "defect_required")[1]
                            EXCEPT !.shape = "single_transaction"], c.orders)
           D(p) == <<a(p), b(p), d(p)>>
           L(p) == [Scenario("counter", "process_lock", p, c.orders,
                             IF p = 1 THEN "looks_fixed" ELSE "defect_required")
                      EXCEPT !.gate = [expected |-> p, arm_at |-> UnitsAvailable - 1],
                             !.preSold = UnitsAvailable - 1]
           W(w) == [Held(Unguarded(c, c.replicas, "defect_required")[2], w) EXCEPT !.wave = w]
           q == Sequentially(Unguarded(c, c.replicas, "defect_required")[1])
           r == Sequentially(Unguarded(c, c.replicas, "defect_required")[2])
           T == <<q, r>>
           Ls == [p \in 1 .. c.replicas |-> L(p)]
           Ws == [i \in DOMAIN ThrottleSteps |-> W(ThrottleSteps[i])]
           A  == IF c.replicas = 1 THEN D(1) ELSE D(1) \o D(2)
           E == {a(1), b(1), d(1), a(2), b(2), d(2), q, r}
                \cup {L(p) : p \in 1 .. c.replicas}
                \cup {W(ThrottleSteps[i]) : i \in DOMAIN ThrottleSteps}
<1>1. /\ c.replicas \in {1, 2} /\ c.orders \in Nat \ {0} /\ c.credits \in Nat \ {0}
      /\ Len(ThrottleSteps) \in Nat /\ DOMAIN ThrottleSteps = 1 .. Len(ThrottleSteps)
      /\ \A i \in DOMAIN ThrottleSteps : ThrottleSteps[i] \in Nat /\ c.credits > ThrottleSteps[i]
      /\ \A i \in DOMAIN ThrottleSteps : ThrottleSteps[i] # 0
      /\ \A i, j \in DOMAIN ThrottleSteps : ThrottleSteps[i] = ThrottleSteps[j] => i = j
  BY ConfigType, HarnessAssumption DEF Ample, IsInjective
<1>2. ASSUME NEW p \in {1, 2}
      PROVE  /\ Key(a(p))[1] = "counter" /\ Key(b(p))[1] = "single_use"
             /\ Key(d(p))[1] = "counter"
             /\ Key(a(p))[2] = "unguarded" /\ Key(b(p))[2] = "unguarded"
             /\ Key(d(p))[2] = "single_transaction"
             /\ Key(a(p))[3] = p /\ Key(b(p))[3] = p /\ Key(d(p))[3] = p
             /\ Key(a(p))[4] = c.orders /\ Key(b(p))[4] = c.credits /\ Key(d(p))[4] = c.orders
  <2>1. /\ a(p).invariant = "counter" /\ a(p).shape = "unguarded" /\ a(p).replicas = p
        /\ a(p).gate = [expected |-> c.orders, arm_at |-> Anything]
    BY DEF Held, Unguarded, Scenario
  <2>2. /\ b(p).invariant = "single_use" /\ b(p).shape = "unguarded" /\ b(p).replicas = p
        /\ b(p).gate = [expected |-> c.credits, arm_at |-> Anything]
    BY DEF Held, Unguarded, Scenario
  <2>3. /\ d(p).invariant = "counter" /\ d(p).shape = "single_transaction" /\ d(p).replicas = p
        /\ d(p).gate = [expected |-> c.orders, arm_at |-> Anything]
    BY DEF Held, Unguarded, Scenario
  <2> HIDE DEF a, b, d
  <2> QED BY <2>1, <2>2, <2>3, KeyFields
<1>3. ASSUME NEW p \in {1, 2}
      PROVE  Key(L(p))[1] = "counter" /\ Key(L(p))[2] = "process_lock" /\ Key(L(p))[3] = p
             /\ Key(L(p))[4] = p
  BY KeyFields DEF Scenario
<1>4. ASSUME NEW w \in Nat
      PROVE  Key(W(w))[1] = "single_use" /\ Key(W(w))[2] = "unguarded" /\ Key(W(w))[4] = w
  <2>1. W(w).gate = [expected |-> w, arm_at |-> Anything]
    BY DEF Held, Unguarded, Scenario
  <2>2. W(w).invariant = "single_use" /\ W(w).shape = "unguarded"
    BY DEF Held, Unguarded, Scenario
  <2> HIDE DEF W
  <2> QED BY <2>1, <2>2, KeyFields
<1>5. /\ Key(q)[1] = "counter" /\ Key(r)[1] = "single_use"
      /\ Key(q)[4] = 0 /\ Key(r)[4] = 0
  BY KeyFields DEF Sequentially, Unguarded, Scenario, NoGate
<1>6. PlanOf(c) = A \o Ls \o Ws \o T
  BY DEF PlanOf, DeterministicScenarios, AtEachCount
<1> HIDE DEF a, b, d, L, W, q, r
<1>7. /\ D(1) \in Seq(E) /\ D(2) \in Seq(E) /\ T \in Seq(E)
  BY PairIsASeq, TripleIsASeq
<1>8. Ls \in Seq(E) /\ Ws \in Seq(E)
  BY <1>1, IsASeq
<1>9. /\ Distinct(D(1)) /\ KeysOf(D(1)) = {Key(a(1)), Key(b(1)), Key(d(1))}
      /\ Distinct(D(2)) /\ KeysOf(D(2)) = {Key(a(2)), Key(b(2)), Key(d(2))}
  BY <1>2, DistinctTriple
<1>10. /\ \A k \in KeysOf(D(1)) : k[3] = 1
       /\ \A k \in KeysOf(D(2)) : k[3] = 2
       /\ \A k \in KeysOf(D(1)) \cup KeysOf(D(2)) :
              /\ k[2] # "process_lock" /\ k[4] # 0
              /\ k[1] = "single_use" => k[4] = c.credits
  <2>1. c.orders # 0 /\ c.credits # 0
    BY <1>1
  <2>2. ASSUME NEW p \in {1, 2}, NEW k \in {Key(a(p)), Key(b(p)), Key(d(p))}
        PROVE  /\ k[3] = p /\ k[2] # "process_lock" /\ k[4] # 0
               /\ k[1] = "single_use" => k[4] = c.credits
    BY <2>1, <2>2, <1>2
  <2> QED BY <1>9, <2>2
<1>11. Distinct(Ls) /\ \A k \in KeysOf(Ls) : k[1] = "counter" /\ k[2] = "process_lock" /\ k[4] # 0
  <2>1. \A p \in 1 .. c.replicas : p \in {1, 2} /\ Ls[p] = L(p)
    BY <1>1
  <2>2. DOMAIN Ls = 1 .. c.replicas
    OBVIOUS
  <2> HIDE DEF Ls
  <2> QED BY <1>3, <2>1, <2>2 DEF Distinct, KeysOf
<1>12. Distinct(Ws) /\ \A k \in KeysOf(Ws) : k[1] = "single_use" /\ k[2] = "unguarded"
                                             /\ k[4] # 0 /\ k[4] # c.credits
  <2>1. \A i \in DOMAIN ThrottleSteps :
            Ws[i] = W(ThrottleSteps[i]) /\ ThrottleSteps[i] \in Nat /\ ThrottleSteps[i] # 0
            /\ ThrottleSteps[i] # c.credits
    BY <1>1
  <2>2. DOMAIN Ws = DOMAIN ThrottleSteps
    OBVIOUS
  <2> HIDE DEF Ws
  <2> QED BY <1>1, <1>4, <2>1, <2>2 DEF Distinct, KeysOf
<1>13. Distinct(T) /\ \A k \in KeysOf(T) : k[4] = 0
  BY <1>5, DistinctPair
<1> HIDE DEF D, E, T, Ls, Ws
<1>14. /\ A \in Seq(E) /\ Distinct(A)
       /\ KeysOf(A) \subseteq KeysOf(D(1)) \cup KeysOf(D(2))
  <2>1. CASE c.replicas = 1
    BY <1>7, <1>9, <2>1
  <2>2. CASE c.replicas # 1
    <3>1. Distinct(D(1) \o D(2)) /\ KeysOf(D(1) \o D(2)) = KeysOf(D(1)) \cup KeysOf(D(2))
      BY ONLY <1>7, <1>9, <1>10, DistinctByReplicas
    <3>2. D(1) \o D(2) \in Seq(E)
      BY <1>7, ConcatIsASeq
    <3> QED BY <2>2, <3>1, <3>2
  <2> QED BY <2>1, <2>2
<1> HIDE DEF A
<1>15. Distinct(A \o Ls) /\ KeysOf(A \o Ls) = KeysOf(A) \cup KeysOf(Ls) /\ A \o Ls \in Seq(E)
  <2>1. KeysOf(A) \cap KeysOf(Ls) = {}
    BY <1>10, <1>11, <1>14
  <2> QED BY ONLY <1>8, <1>11, <1>14, <2>1, DistinctConcat, ConcatIsASeq
<1> DEFINE AL == A \o Ls
           ALW == AL \o Ws
<1>16. Distinct(ALW) /\ KeysOf(ALW) = KeysOf(AL) \cup KeysOf(Ws) /\ ALW \in Seq(E)
  <2>1. KeysOf(AL) \cap KeysOf(Ws) = {}
    BY <1>10, <1>11, <1>12, <1>14, <1>15
  <2> HIDE DEF AL
  <2>2. Distinct(AL) /\ AL \in Seq(E)
    BY <1>15 DEF AL
  <2> QED BY ONLY <1>8, <1>12, <2>1, <2>2, DistinctConcat, ConcatIsASeq
<1>17. Distinct(ALW \o T)
  <2>1. KeysOf(ALW) \cap KeysOf(T) = {}
    BY <1>10, <1>11, <1>12, <1>13, <1>14, <1>15, <1>16
  <2> HIDE DEF ALW
  <2> QED BY ONLY <1>7, <1>13, <1>16, <2>1, DistinctConcat
<1> QED BY <1>6, <1>17

LEMMA PlanKeys ==
    ASSUME NEW c \in Configs, Ample(c)
    PROVE  Distinct(PlanFor[c])
<1>1. PlanFor[c] = PlanOf(c)
  BY DEF PlanFor
<1> QED BY <1>1, ConfigType, SecureKeys, DeterministicKeys, NaturalKeys DEF Variants

\* As many keys as scenarios.
LEMMA DistinctCardinality ==
    ASSUME NEW s, NEW n \in Nat, DOMAIN s = 1 .. n, Distinct(s)
    PROVE  Cardinality(KeysOf(s)) = n
<1> DEFINE f == [i \in 1 .. n |-> Key(s[i])]
           K == KeysOf(s)
<1>1. f \in Bijection(1 .. n, K)
  BY DEF Bijection, Injection, Surjection, IsInjective, KeysOf, Distinct
<1>2. IsFiniteSet(1 .. n) /\ Cardinality(1 .. n) = n
  BY FS_Interval
<1> HIDE DEF f, K
<1>3. ExistsBijection(1 .. n, K)
  BY <1>1 DEF ExistsBijection
<1> QED BY <1>2, <1>3, FS_Bijection DEF K

------------------------------------------------------------------------------
(* The judgements of a healthy run. *)

LEMMA HealthyJudge ==
    ASSUME HInv, Judge, IInv'
    PROVE  HInv'
<1>1. /\ at[1] \in DOMAIN plan /\ Current = plan[at[1]] /\ phase = "judge" /\ GoOn
      /\ results' = [results EXCEPT ![at[1]] = results[at[1]] \cup {Result}]
      /\ failures' = failures \cup RoundFailures(Current)
      /\ UNCHANGED reference
  BY JudgeFrame DEF HInv, Judge
<1>2. /\ TypeOK' /\ IInv /\ DOMAIN plan = 1 .. Len(plan) /\ Len(plan) \in Nat
      /\ results \in [DOMAIN plan -> SUBSET [overrun : Nat, window_timed_out : BOOLEAN,
                                             verdict : Verdicts]]
  BY PlanOfRun, IInv' DEF HInv, IInv, TypeOK
<1>3. /\ UNCHANGED <<plan, config, Secure, disturbed>> /\ view' = Empty
      /\ phase' \in {"verdict", "prepare"}
  BY <1>1, <1>2, GoOnFrame
<1>4. at[1] > 0
  BY <1>1, <1>2
<1>5. Healthy' => Healthy
  BY <1>3 DEF Healthy, Ample
<1>6. ViewIsOfStore' /\ ValveIsFresh' /\ BurstIsExact'
  BY <1>3 DEF ViewIsOfStore, ValveIsFresh, BurstIsExact
<1>7. ReferenceIsExact'
  BY <1>1, <1>3, <1>4, <1>5 DEF HInv, ReferenceIsExact
<1>8. NothingFails'
  BY <1>1, <1>4, <1>5, HealthyRound DEF HInv, NothingFails
<1>9. ResultsAreExact'
  <2> SUFFICES ASSUME Healthy, NEW i \in DOMAIN plan, NEW result \in results'[i],
                      plan[i].expectation # "observe_only"
               PROVE  result.overrun = ExactOverrun(plan[i])
                      /\ result.verdict = ExactVerdict(plan[i])
    BY <1>3, <1>5
    DEF ResultsAreExact, ExactOverrun, ExactVerdict, Excess, Committed, Allowed
  <2>1. result \in results[i] \/ (i = at[1] /\ result = Result)
    BY <1>1, <1>2
  <2>2. CASE result \in results[i]
    BY <2>2 DEF HInv, ResultsAreExact
  <2>3. CASE i = at[1] /\ result = Result
    <3>1. Overrun(Current) = ExactOverrun(Current) /\ Verdict(Current) = ExactVerdict(Current)
      BY <1>1, <2>3, HealthyRound
    <3>2. Result.overrun = Overrun(Current) /\ Result.verdict = Verdict(Current)
      BY DEF Result
    <3> QED BY <1>1, <2>3, <3>1, <3>2
  <2> QED BY <2>1, <2>2, <2>3
<1> QED BY <1>6, <1>7, <1>8, <1>9, IInv' DEF HInv

\* Every round of a scenario that is not a mere observation measures the same.
LEMMA ExactRounds ==
    ASSUME HInv, Healthy, phase = "verdict", NEW i \in DOMAIN plan,
           plan[i].expectation # "observe_only"
    PROVE  Overruns(i) = {ExactOverrun(plan[i])}
<1>1. results[i] # {}
  BY DEF HInv, IInv, ResultsAreThere
<1>2. \A result \in results[i] : result.overrun = ExactOverrun(plan[i])
  BY DEF HInv, ResultsAreExact
<1> QED BY <1>1, <1>2 DEF Overruns

\* The half-fix holds behind one process and is one unit out behind two.
LEMMA LockContrastHolds ==
    ASSUME HInv, Healthy, phase = "verdict", config.variant = "deterministic"
    PROVE  ~LockContrastFails
<1> DEFINE locks(replicas) == {j \in DOMAIN plan : plan[j].shape = "process_lock"
                                                   /\ plan[j].replicas = replicas}
           rounds(replicas) == UNION {Overruns(i) : i \in locks(replicas)}
<1>1. ASSUME NEW r \in {1, 2}, NEW i \in locks(r)
      PROVE  Overruns(i) = {r - 1}
  <2>1. plan[i] \in Planned(config) /\ plan[i].shape = "process_lock" /\ plan[i].replicas = r
    BY <1>1, PlanOfRun DEF HInv, IInv
  <2>2. HalfFix(plan[i])
    BY <2>1 DEF Planned, HeldOpen
  <2>3. /\ plan[i].expectation # "observe_only"
        /\ Committed(plan[i]) = UnitsAvailable - 1 + r /\ Allowed(plan[i]) = UnitsAvailable
    BY <2>1, <2>2 DEF HalfFix, Committed, Allowed
  <2>4. ExactOverrun(plan[i]) = r - 1
    BY <2>3, HarnessAssumption DEF ExactOverrun, Excess
  <2> QED BY <1>1, <2>3, <2>4, ExactRounds
<1>2. rounds(1) \subseteq {0} /\ 0 \notin rounds(2)
  BY <1>1
<1> QED BY <1>2 DEF LockContrastFails

LEMMA MaxOfOne ==
    ASSUME NEW m \in Int
    PROVE  Max({m}) = m
BY DEF Max

\* Of a window of w requests all but one are an overrun.
LEMMA ThrottleSeriesHolds ==
    ASSUME HInv, Healthy, phase = "verdict", config.variant = "deterministic"
    PROVE  ~ThrottleSeriesFails
<1> DEFINE series == {i \in DOMAIN plan :
                        /\ plan[i].gate # NoGate /\ plan[i].gate.arm_at = Anything
                        /\ ~plan[i].sequential /\ plan[i].invariant = "single_use"
                        /\ plan[i].shape = "unguarded" /\ plan[i].replicas = config.replicas}
           width(i)  == plan[i].gate.expected
           widest(w) == Max(UNION {Overruns(i) : i \in {j \in series : width(j) = w}})
           widths    == {width(i) : i \in series}
<1>1. ASSUME NEW i \in series
      PROVE  width(i) \in Nat /\ width(i) > 1 /\ Overruns(i) = {width(i) - 1}
  <2> DEFINE s == plan[i]
  <2>1. config \in Configs /\ Ample(config) /\ s \in Planned(config)
    BY PlanOfRun DEF HInv, IInv, Healthy
  <2>2. s.gate # NoGate /\ s.shape = "unguarded" /\ s.invariant = "single_use"
    BY <1>1
  <2>3. HeldOpen(s)
    BY <2>1, <2>2 DEF Planned, Plain, HalfFix
  <2>4. s.wave \in Nat /\ s.wave > 1
    BY <2>1, <2>2, <2>3, AmpleScenario
  <2>5. s.gate.expected = s.wave /\ s.preSold = 0 /\ s.expectation = "defect_required"
    BY <2>3 DEF HeldOpen
  <2>6. Committed(s) = s.wave /\ Allowed(s) = 1
    BY <2>2, <2>4, <2>5 DEF Committed, Allowed
  <2>7. ExactOverrun(s) = s.wave - 1
    BY <2>4, <2>6 DEF ExactOverrun, Excess
  <2>8. Overruns(i) = {ExactOverrun(s)}
    BY <2>5, ExactRounds
  <2> QED BY <2>4, <2>5, <2>7, <2>8
<1> HIDE DEF series, width
<1>2. ASSUME NEW w \in widths
      PROVE  w \in Nat /\ w > 1 /\ widest(w) = w - 1
  <2>1. PICK i \in series : w = width(i)
    BY <1>2
  <2>2. UNION {Overruns(j) : j \in {k \in series : width(k) = w}} = {w - 1}
    BY <1>1, <2>1
  <2>3. w \in Nat /\ w > 1
    BY <1>1, <2>1
  <2> QED BY <2>2, <2>3, MaxOfOne
<1> HIDE DEF widest, widths
<1>3. ~\E v, w \in widths : v > w /\ widest(v) <= widest(w)
  BY <1>2
<1>4. ~\E w \in widths : widest(w) = 0
  BY <1>2
<1> QED BY <1>3, <1>4 DEF ThrottleSeriesFails, series, width, widest, widths

LEMMA CoverageHolds ==
    ASSUME HInv, Healthy, phase = "verdict"
    PROVE  Cardinality(Covered) = Len(plan)
<1>1. /\ config \in Configs /\ Ample(config) /\ plan = PlanFor[config]
      /\ DOMAIN plan = 1 .. Len(plan) /\ Len(plan) \in Nat
  BY PlanOfRun DEF HInv, IInv, Healthy, plan
<1>2. \A i \in DOMAIN plan : results[i] # {}
  BY DEF HInv, IInv, ResultsAreThere
<1>3. Covered = KeysOf(plan)
  BY <1>2 DEF Covered, KeysOf
<1>4. Distinct(plan)
  BY <1>1, PlanKeys
<1> HIDE DEF Covered
<1> QED BY <1>1, <1>3, <1>4, DistinctCardinality

LEMMA NothingIsFailing ==
    ASSUME NEW a, NEW b, NEW d, NEW e, ~a, ~b, ~d, ~e
    PROVE  Failing([zero_violations |-> a, lock_contrast |-> b, throttle_series |-> d,
                    coverage |-> e]) = {}
BY DEF Failing

LEMMA HealthyJudgeRun ==
    ASSUME HInv, JudgeRun, IInv'
    PROVE  HInv'
<1>1. /\ phase = "verdict" /\ phase' = "over"
      /\ UNCHANGED <<program, plan, config, at, view, reference, results, disturbed, timed_out,
                     store>>
  BY JudgeRunFrame DEF HInv
<1>2. UNCHANGED Secure /\ (Healthy' => Healthy)
  BY <1>1, SameRun DEF Healthy, Ample
<1>3. ViewIsOfStore' /\ ValveIsFresh' /\ BurstIsExact'
  BY <1>1 DEF HInv, ViewIsOfStore, ValveIsFresh, BurstIsExact
<1>4. ReferenceIsExact'
  BY <1>1, <1>2 DEF HInv, ReferenceIsExact
<1>5. ResultsAreExact'
  BY <1>1, <1>2
  DEF HInv, ResultsAreExact, ExactOverrun, ExactVerdict, Excess, Committed, Allowed
<1>6. NothingFails'
  <2> SUFFICES ASSUME Healthy PROVE failures' = {}
    BY <1>2 DEF NothingFails
  <2>1. failures = {} /\ Cardinality(Covered) = Len(plan)
    BY <1>1, CoverageHolds DEF HInv, NothingFails
  <2>2. config.variant = "deterministic" => ~LockContrastFails /\ ~ThrottleSeriesFails
    BY <1>1, LockContrastHolds, ThrottleSeriesHolds
  <2>3. Failing([zero_violations |-> Secure /\ failures \cap {"overrun", "disagreement"} # {},
                 lock_contrast   |-> config.variant = "deterministic" /\ LockContrastFails,
                 throttle_series |-> config.variant = "deterministic" /\ ThrottleSeriesFails,
                 coverage        |-> Cardinality(Covered) # Len(plan)]) = {}
    <3>1. /\ ~(Secure /\ failures \cap {"overrun", "disagreement"} # {})
          /\ ~(config.variant = "deterministic" /\ LockContrastFails)
          /\ ~(config.variant = "deterministic" /\ ThrottleSeriesFails)
          /\ ~(Cardinality(Covered) # Len(plan))
      BY <2>1, <2>2
    <3> QED BY ONLY <3>1, NothingIsFailing
  <2> QED BY <2>1, <2>3 DEF JudgeRun
<1> QED BY <1>3, <1>4, <1>5, <1>6, IInv' DEF HInv

LEMMA HealthyStep ==
    ASSUME HInv, Step, IInv'
    PROVE  HInv'
BY HealthyLaunch, HealthyPreparing, HealthyBurst, HealthyRead, HealthyKeepReference,
   HealthyJudge, HealthyJudgeRun, HealthyDeath, HealthyStraggler DEF Step

LEMMA HealthyStutter ==
    ASSUME HInv, UNCHANGED vars, IInv'
    PROVE  HInv'
<1>1. UNCHANGED <<program, at, phase, view, reference, results, failures, disturbed,
                  timed_out, store>>
  BY DEF vars, report
<1>2. /\ ResultsAreExact' /\ NothingFails'
      /\ UNCHANGED <<plan, config, Secure, Current>> /\ (Healthy' => Healthy)
  BY <1>1, HealthyReport, SamePlace
<1>3. ViewIsOfStore' /\ ValveIsFresh' /\ ReferenceIsExact'
  BY <1>1, <1>2 DEF HInv, ViewIsOfStore, ValveIsFresh, ReferenceIsExact
<1>4. BurstIsExact'
  <2>1. ExactLedger(Current)' = ExactLedger(Current)
    BY <1>2 DEF ExactLedger, Committed, Allowed
  <2> QED BY <1>1, <1>2, <2>1 DEF HInv, BurstIsExact
<1> QED BY <1>2, <1>3, <1>4, IInv' DEF HInv

LEMMA InitHInv == Init => HInv
<1> SUFFICES ASSUME Init PROVE HInv
  OBVIOUS
<1>1. /\ phase = "idle" /\ view = Empty /\ results = [i \in DOMAIN plan |-> {}]
      /\ failures = {} /\ IInv
  BY InitIInv DEF Init
<1> QED BY <1>1
   DEF HInv, ViewIsOfStore, ValveIsFresh, BurstIsExact, ReferenceIsExact, ResultsAreExact,
       NothingFails

------------------------------------------------------------------------------
\* Every reachable state: what a healthy run has measured so far is exact.
THEOREM HealthyInvariance == Spec => []HInv
<1>1. Init => HInv
  BY InitHInv
<1>2. HInv /\ [Next]_vars => HInv'
  <2>1. HInv /\ Next => HInv'
    BY NextIsStep, StepPreserves, HealthyStep DEF HInv
  <2>2. HInv /\ UNCHANGED vars => HInv'
    BY StutterPreserves, HealthyStutter DEF HInv
  <2> QED BY <2>1, <2>2
<1> QED BY <1>1, <1>2, PTL DEF Spec

LEMMA HealthyPasses == HInv => HealthyRunPasses
BY DEF HInv, NothingFails, Healthy, HealthyRunPasses

\* No false alarm: an ample run alone with the store, all of whose requests are
\* answered, passes every check of its rounds and of the run.
THEOREM HealthyRunsPass == Spec => []HealthyRunPasses
BY HealthyPasses, HealthyInvariance, PTL

=============================================================================
