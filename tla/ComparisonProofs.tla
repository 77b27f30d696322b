--------------------------- MODULE ComparisonProofs ---------------------------
(***************************************************************************)
(* The comparison is made of runs of the load harness, so that what        *)
(* HarnessRunProofs and HealthyRunProofs show of those holds of it; and    *)
(* the narrative printed under its table is true of the rows above it.     *)
(*                                                                         *)
(* CInv follows the rows from the results of each of the three runs to the *)
(* printed table: none of another variant than those that have been run,   *)
(* none of an untrusted run, all of them exact if the bursts were ample.   *)
(***************************************************************************)
EXTENDS Comparison, HealthyRunProofs

\* The configuration of the comparison's run of a variant.
Sized(v) == [config EXCEPT !.variant = v]

\* The verdict of a result is what the variant allows.
VerdictsAreHonest ==
    \A i \in DOMAIN plan : \A result \in results[i] :
        result.verdict = "invariant_held" <=> Secure

\* Which of the three runs is on, and whose rows there are.
Progress ==
    /\ comparing \in 0 .. 3 /\ printed \in {0, 1, 3} /\ rows \subseteq Row
    /\ comparing > 0 => phase # "idle" /\ config.variant = Compared[comparing] /\ printed = 0
    /\ printed > 0 => phase = "over" /\ comparing = 0
    /\ comparing = 1 \/ (comparing = 0 /\ printed = 0) => rows = {}
    /\ comparing = 2 \/ printed = 1 => \A row \in rows : row.variant = "secure"

RowsAreHonest ==
    \A row \in rows : row.variant = "secure" <=> row.verdict = "invariant_held"

\* What the row of a scenario says, if it can be trusted.
RowIsExact(s, row) ==
    /\ row.overrun = ExactOverrun(s)
    /\ row.verdict = IF ExactOverrun(s) > 0 THEN "invariant_violated" ELSE "inconclusive"

RowsAreExact ==
    Ample(Sized("deterministic")) =>
        /\ \A row \in TrustedRows("deterministic") :
               /\ row.scenario \in DOMAIN PlanFor[Sized("deterministic")]
               /\ RowIsExact(PlanFor[Sized("deterministic")][row.scenario], row)
        /\ TrustedRows("deterministic") # {} =>
               {row.scenario : row \in TrustedRows("deterministic")}
                   = DOMAIN PlanFor[Sized("deterministic")]

CInv ==
    /\ HInv
    /\ VerdictsAreHonest
    /\ Progress
    /\ RowsAreHonest
    /\ RowsAreExact

------------------------------------------------------------------------------
(* Every step of a comparison is a step of a run, or of the table alone. *)

LEMMA Sizes ==
    ASSUME NEW c \in Configs, NEW v \in Variants
    PROVE  /\ [c EXCEPT !.variant = v] \in Configs /\ [c EXCEPT !.variant = v].variant = v
           /\ [c EXCEPT !.variant = c.variant] = c
           /\ \A w \in Variants :
                  [[c EXCEPT !.variant = v] EXCEPT !.variant = w] = [c EXCEPT !.variant = w]
<1>1. c \in [variant : Variants, replicas : {1, 2}, orders : Nat \ {0}, credits : Nat \ {0}]
  BY HarnessAssumption
<1> QED BY <1>1, ComparisonAssumption

LEMMA ComparedVariants ==
    /\ Compared[1] = "secure" /\ Compared[2] = "deterministic" /\ Compared[3] = "natural"
    /\ Len(Compared) = 3
BY DEF Compared

LEMMA ComparisonStep ==
    ASSUME IInv, ComparisonNext
    PROVE  /\ Step \/ UNCHANGED vars
           /\ runs' \in 0 .. MaxRuns
<1>1. runs \in 0 .. MaxRuns /\ MaxRuns \in Nat /\ config \in Configs
  BY HarnessAssumption DEF IInv, TypeOK
<1>2. ASSUME NEW c \in Configs, StartRun(c)
      PROVE  Step /\ runs' \in 0 .. MaxRuns
  BY <1>1, <1>2 DEF StartRun, Step
<1>3. CASE CompareNext
  <2>1. /\ comparing \in {1, 2} /\ phase = "over" /\ runs' = runs
        /\ Launch([config EXCEPT !.variant = Compared[comparing + 1]])
    BY <1>3, ComparedVariants DEF CompareNext
  <2>2. Compared[comparing + 1] \in Variants
    BY <2>1, ComparedVariants DEF Variants
  <2>3. [config EXCEPT !.variant = Compared[comparing + 1]] \in Configs
    BY <1>1, <2>2, Sizes
  <2> QED BY <1>1, <2>1, <2>3 DEF Step
<1>4. CASE PrintTable
  BY <1>1, <1>4 DEF PrintTable, vars, program
<1>5. CASE AnyDeath
  <2>1. runs' = runs
    BY <1>5 DEF AnyDeath, Die, DieDuringBurst, Dead, program
  <2> QED BY <1>1, <1>5, <2>1 DEF AnyDeath, Step
<1>6. CASE Working
  <2>1. runs' = runs
    BY <1>6 DEF Working, Preparing, ResetFixtures, RestoreBackstop, DropInstrumentation,
        DropBackstop, CreateInstrumentation, PreSellUnits, ArmGate, DisarmGate, Execute, Burst,
        BurstWithFailures, BurstInterfered, ReadDrop, ReadWallet,
        KeepReference, Judge, JudgeRun, GoOn,
        StragglerWrites, StragglerEnds, program
  <2> QED BY <1>1, <1>6, <2>1 DEF Working, Step
<1> QED BY <1>2, <1>3, <1>4, <1>5, <1>6 DEF ComparisonNext, Alone, StartComparison

LEMMA ComparisonPreserves ==
    ASSUME HInv, ComparisonNext
    PROVE  HInv'
<1>1. IInv /\ runs' \in 0 .. MaxRuns
  BY ComparisonStep DEF HInv
<1>2. CASE Step
  BY <1>1, <1>2, StepPreserves, HealthyStep
<1>3. CASE UNCHANGED vars
  BY <1>1, <1>3, StutterPreserves, HealthyStutter
<1> QED BY <1>1, <1>2, <1>3, ComparisonStep

------------------------------------------------------------------------------
(* Verdicts. *)

LEMMA SecureVerdict ==
    ASSUME IInv, Judge
    PROVE  Verdict(Current) = "invariant_held" <=> Secure
<1>1. /\ phase = "judge" /\ Current.invariant \in {"counter", "single_use"}
  BY CurrentType DEF Judge, IInv
<1>2. ASSUME Secure PROVE Overrun(Current) = 0 /\ ~Disagreement
  <2>1. view.sold = view.orders /\ view.orders <= UnitsAvailable /\ view.redeemed <= 1
    BY <1>1, <1>2 DEF IInv, SecureView
  <2>2. Achieved(Current) <= Allowed(Current)
    BY <2>1 DEF Achieved, Allowed
  <2>3. Achieved(Current) \in Nat /\ Allowed(Current) \in Nat /\ Overrun(Current) \in Nat
        /\ (Overrun(Current) > 0 <=> Achieved(Current) > Allowed(Current))
    BY <1>1, LedgerType DEF IInv
  <2> QED BY <2>1, <2>2, <2>3 DEF Disagreement
<1> QED BY <1>2 DEF Verdict

LEMMA HonestStep ==
    ASSUME IInv, VerdictsAreHonest, Step
    PROVE  VerdictsAreHonest'
<1>1. CASE \E c \in Configs : phase \in {"idle", "over"} /\ Launch(c)
  BY <1>1 DEF Launch, NoReport, VerdictsAreHonest
<1>2. CASE Die \/ DieDuringBurst
  BY <1>2, DieType DEF Dead, NoReport, VerdictsAreHonest
<1>3. CASE Judge
  <2>1. /\ at[1] \in DOMAIN plan
        /\ results' = [results EXCEPT ![at[1]] = results[at[1]] \cup {Result}]
        /\ UNCHANGED <<plan, config>>
    BY <1>3, JudgeFrame
  <2>2. results \in [DOMAIN plan -> SUBSET [overrun : Nat, window_timed_out : BOOLEAN,
                                            verdict : Verdicts]]
    BY DEF IInv, TypeOK
  <2>3. Secure' <=> Secure
    BY <2>1 DEF Secure
  <2>4. Result.verdict = "invariant_held" <=> Secure
    BY <1>3, SecureVerdict DEF Result
  <2>5. \A i \in DOMAIN plan : \A result \in results'[i] :
            result \in results[i] \/ result = Result
    BY <2>1, <2>2
  <2> QED BY <2>1, <2>3, <2>4, <2>5 DEF VerdictsAreHonest
<1>4. CASE \/ Preparing \/ Burst \/ BurstWithFailures \/ BurstInterfered
           \/ ReadDrop \/ ReadWallet
           \/ KeepReference \/ JudgeRun \/ StragglerWrites \/ StragglerEnds
  <2>1. UNCHANGED program /\ results' = results
    BY <1>4 DEF Preparing, ResetFixtures, RestoreBackstop, DropInstrumentation,
        DropBackstop, CreateInstrumentation, PreSellUnits, ArmGate, DisarmGate, Execute, Burst,
        BurstWithFailures, BurstInterfered, ReadDrop, ReadWallet,
        KeepReference, JudgeRun, GoOn, Prepare,
        StragglerWrites, StragglerEnds, program, report
  <2>2. UNCHANGED <<plan, Secure>>
    BY <2>1, SameRun
  <2> QED BY <2>1, <2>2 DEF VerdictsAreHonest
<1> QED BY <1>1, <1>2, <1>3, <1>4 DEF Step

------------------------------------------------------------------------------
(* The rows of a run. *)

RowOf(i, result) ==
    [variant  |-> config.variant,
     scenario |-> IF disturbed THEN 0 ELSE i,
     overrun  |-> IF disturbed THEN 0 ELSE result.overrun,
     verdict  |-> result.verdict]

LEMMA RowsAre ==
    /\ \A row \in RowsFor : \E i \in DOMAIN plan : \E result \in results[i] : row = RowOf(i, result)
    /\ \A i \in DOMAIN plan : \A result \in results[i] :
           (\A j \in 1 .. i - 1 : Key(plan[j]) # Key(plan[i])) => RowOf(i, result) \in RowsFor
BY DEF RowsFor, RowOf

LEMMA RunRows ==
    ASSUME IInv, VerdictsAreHonest
    PROVE  /\ RowsFor \subseteq Row
           /\ \A row \in RowsFor :
                  row.variant = config.variant /\ (row.verdict = "invariant_held" <=> Secure)
<1> SUFFICES ASSUME NEW row \in RowsFor
             PROVE  /\ row \in Row /\ row.variant = config.variant
                    /\ row.verdict = "invariant_held" <=> Secure
  OBVIOUS
<1>3. PICK i \in DOMAIN plan : \E result \in results[i] : row = RowOf(i, result)
  BY RowsAre
<1>1. PICK result \in results[i] : row = RowOf(i, result)
  BY <1>3
<1>2. /\ config.variant \in Variants /\ i \in Nat
      /\ result \in [overrun : Nat, window_timed_out : BOOLEAN, verdict : Verdicts]
  BY PlanOfRun, ConfigType DEF IInv, TypeOK
<1>4. row \in Row
  BY <1>1, <1>2 DEF RowOf, Row
<1> QED BY <1>1, <1>4 DEF RowOf, VerdictsAreHonest

LEMMA DeterministicRows ==
    ASSUME HInv, phase = "over", config.variant = "deterministic", Ample(config)
    PROVE  LET trusted == {row \in RowsFor : row.scenario > 0}
           IN  /\ \A row \in trusted :
                      row.scenario \in DOMAIN plan /\ RowIsExact(plan[row.scenario], row)
               /\ trusted # {} => {row.scenario : row \in trusted} = DOMAIN plan
<1> DEFINE trusted == {row \in RowsFor : row.scenario > 0}
<1>1. /\ config \in Configs /\ ~Secure
      /\ DOMAIN plan = 1 .. Len(plan) /\ Len(plan) \in Nat
      /\ plan = PlanFor[config]
  BY PlanOfRun DEF HInv, IInv, Secure, plan
<1>2. ASSUME NEW row \in trusted
      PROVE  /\ ~disturbed /\ row.scenario \in DOMAIN plan
             /\ RowIsExact(plan[row.scenario], row)
  <2>5. PICK i \in DOMAIN plan : \E result \in results[i] : row = RowOf(i, result)
    BY RowsAre
  <2>1. PICK result \in results[i] : row = RowOf(i, result)
    BY <2>5
  <2>2. ~disturbed /\ row.scenario = i /\ row.overrun = result.overrun
        /\ row.verdict = result.verdict
    BY <2>1 DEF RowOf
  <2>3. plan[i].expectation # "observe_only"
    BY <1>1, PlanOfRun DEF HInv, IInv, Planned, HeldOpen, HalfFix
  <2>4. result.overrun = ExactOverrun(plan[i]) /\ result.verdict = ExactVerdict(plan[i])
    BY <2>2, <2>3 DEF HInv, ResultsAreExact, Healthy
  <2> QED BY <1>1, <2>2, <2>4 DEF RowIsExact, ExactVerdict
<1>3. ASSUME ~disturbed, NEW i \in DOMAIN plan
      PROVE  \E row \in trusted : row.scenario = i
  <2>1. PICK result \in results[i] : TRUE
    BY DEF HInv, IInv, ResultsAreThere
  <2>2. \A j \in 1 .. i - 1 : j \in DOMAIN plan /\ j # i
    BY <1>1
  <2>3. \A j \in 1 .. i - 1 : Key(plan[j]) # Key(plan[i])
    BY <1>1, <2>2, PlanKeys DEF Distinct
  <2>4. RowOf(i, result) \in RowsFor
    BY <2>3, RowsAre
  <2>5. RowOf(i, result).scenario = i /\ i > 0
    BY <1>1, <1>3 DEF RowOf
  <2> QED BY <2>4, <2>5
<1> HIDE DEF trusted
<1>4. trusted # {} => {row.scenario : row \in trusted} = DOMAIN plan
  BY <1>2, <1>3
<1> QED BY <1>2, <1>4 DEF trusted

------------------------------------------------------------------------------
(* The table. *)

\* What only the table's own steps touch.
LEMMA SameTable ==
    ASSUME CInv, UNCHANGED <<comparison, config>>, printed > 0 => phase' = phase,
           comparing > 0 => phase' # "idle"
    PROVE  Progress' /\ RowsAreHonest' /\ RowsAreExact'
<1>1. UNCHANGED <<comparing, rows, printed, config>>
  BY DEF comparison
<1>2. Sized("deterministic")' = Sized("deterministic")
  BY <1>1 DEF Sized
<1>3. Progress' /\ RowsAreHonest'
  BY <1>1 DEF CInv, Progress, RowsAreHonest
<1>4. RowsAreExact'
  BY <1>1, <1>2
  DEF CInv, RowsAreExact, RowIsExact, TrustedRows, Ample, ExactOverrun, Excess, Committed, Allowed
<1> QED BY <1>3, <1>4

\* No table, no rows.
LEMMA EmptyTable ==
    ASSUME comparing' \in {0, 1}, rows' = {}, printed' = 0,
           comparing' = 1 => phase' # "idle" /\ config'.variant = "secure"
    PROVE  Progress' /\ RowsAreHonest' /\ RowsAreExact'
<1>1. Progress' /\ RowsAreHonest'
  BY ComparedVariants DEF Progress, RowsAreHonest
<1>2. RowsAreExact'
  BY DEF RowsAreExact, TrustedRows
<1> QED BY <1>1, <1>2

\* The rows of the run that is over are added.
LEMMA RowsAreAdded ==
    ASSUME CInv, comparing > 0, phase = "over", rows' = rows \cup RowsFor,
           NEW c \in Configs, config' = c, \E v \in Variants : c = Sized(v)
    PROVE  /\ rows' \subseteq Row /\ RowsAreHonest' /\ RowsAreExact'
           /\ comparing = 1 => \A row \in rows' : row.variant = "secure"
<1>1. /\ HInv /\ IInv /\ VerdictsAreHonest /\ config \in Configs
      /\ config.variant = Compared[comparing] /\ comparing \in {1, 2, 3}
      /\ rows \subseteq Row
  BY PlanOfRun DEF CInv, HInv, IInv, Progress
<1>2. /\ RowsFor \subseteq Row
      /\ \A row \in RowsFor :
             row.variant = config.variant /\ (row.verdict = "invariant_held" <=> Secure)
  BY <1>1, RunRows
<1>3. rows' \subseteq Row
  BY <1>1, <1>2
<1>4. RowsAreHonest'
  BY <1>2 DEF CInv, RowsAreHonest, Secure
<1>5. comparing = 1 => \A row \in rows' : row.variant = "secure"
  BY <1>1, <1>2, ComparedVariants DEF CInv, Progress
<1>6. Sized("deterministic")' = Sized("deterministic")
  <2>1. PICK v \in Variants : c = [config EXCEPT !.variant = v]
    BY DEF Sized
  <2>2. "deterministic" \in Variants
    BY DEF Variants
  <2>3. [c EXCEPT !.variant = "deterministic"] = [config EXCEPT !.variant = "deterministic"]
    <3>1. \A w \in Variants : [[config EXCEPT !.variant = v] EXCEPT !.variant = w]
                                 = [config EXCEPT !.variant = w]
      BY <1>1, Sizes
    <3>2. [[config EXCEPT !.variant = v] EXCEPT !.variant = "deterministic"]
              = [config EXCEPT !.variant = "deterministic"]
      BY ONLY <3>1, <2>2
    <3> QED BY ONLY <3>2, <2>1
  <2> QED BY <2>3 DEF Sized
<1>7. RowsAreExact'
  <2>1. CASE comparing = 2
    <3>1. config.variant = "deterministic" /\ config = Sized("deterministic")
      BY <1>1, <2>1, ComparedVariants, Sizes DEF Sized
    <3>2. \A row \in rows : row.variant = "secure"
      BY <2>1 DEF CInv, Progress
    <3>3. TrustedRows("deterministic")' = {row \in RowsFor : row.scenario > 0}
      BY <1>2, <3>1, <3>2 DEF TrustedRows
    <3>4. plan = PlanFor[Sized("deterministic")]
      BY <3>1 DEF plan
    <3> DEFINE trusted == {row \in RowsFor : row.scenario > 0}
    <3>5. Ample(Sized("deterministic")) =>
              /\ \A row \in trusted :
                     row.scenario \in DOMAIN plan /\ RowIsExact(plan[row.scenario], row)
              /\ trusted # {} => {row.scenario : row \in trusted} = DOMAIN plan
      BY <1>1, <3>1, DeterministicRows
    <3> HIDE DEF trusted
    <3>6. TrustedRows("deterministic")' = trusted
      BY <3>3 DEF trusted
    <3>7. Ample(Sized("deterministic"))' => Ample(Sized("deterministic"))
      BY <1>6 DEF Ample
    <3> QED BY <1>6, <3>4, <3>5, <3>6, <3>7
       DEF RowsAreExact, RowIsExact, ExactOverrun, Excess, Committed, Allowed
  <2>2. CASE comparing # 2
    <3>1. config.variant # "deterministic"
      BY <1>1, <2>2, ComparedVariants
    <3>2. TrustedRows("deterministic")' = TrustedRows("deterministic")
      BY <1>2, <3>1 DEF TrustedRows
    <3> QED BY <1>6, <3>2
       DEF CInv, RowsAreExact, RowIsExact, Ample, ExactOverrun, Excess, Committed, Allowed
  <2> QED BY <2>1, <2>2
<1> QED BY <1>3, <1>4, <1>5, <1>7

LEMMA TableStep ==
    ASSUME CInv, ComparisonNext
    PROVE  Progress' /\ RowsAreHonest' /\ RowsAreExact'
<1>1. config \in Configs /\ IInv /\ comparing \in 0 .. 3 /\ printed \in {0, 1, 3}
  BY PlanOfRun DEF CInv, HInv, IInv, Progress
<1>2. ASSUME NEW c \in Configs, Alone(c)
      PROVE  Progress' /\ RowsAreHonest' /\ RowsAreExact'
  BY <1>2, EmptyTable DEF Alone, NoComparison
<1>3. ASSUME NEW c \in Configs, StartComparison(c)
      PROVE  Progress' /\ RowsAreHonest' /\ RowsAreExact'
  <2>1. comparing' = 1 /\ rows' = {} /\ printed' = 0 /\ phase' = "prepare" /\ config' = c
        /\ c.variant = "secure"
    BY <1>3, ComparedVariants DEF StartComparison, StartRun, Launch, Prepare
  <2> QED BY <2>1, EmptyTable
<1>4. CASE CompareNext
  <2>1. /\ comparing \in {1, 2} /\ phase = "over" /\ comparing' = comparing + 1
        /\ Launch([config EXCEPT !.variant = Compared[comparing + 1]])
        /\ rows' = rows \cup RowsFor /\ printed' = printed
    BY <1>4, ComparedVariants DEF CompareNext
  <2>2. Compared[comparing + 1] \in Variants
    BY <2>1, ComparedVariants DEF Variants
  <2>3. /\ config' = Sized(Compared[comparing + 1]) /\ phase' = "prepare"
        /\ config' \in Configs /\ config'.variant = Compared[comparing + 1]
    BY <1>1, <2>1, <2>2, Sizes DEF Launch, Prepare, Sized
  <2>4. /\ rows' \subseteq Row /\ RowsAreHonest' /\ RowsAreExact'
        /\ comparing = 1 => \A row \in rows' : row.variant = "secure"
    BY <2>1, <2>2, <2>3, RowsAreAdded
  <2>5. Progress'
    BY <2>1, <2>3, <2>4 DEF CInv, Progress
  <2> QED BY <2>4, <2>5
<1>5. CASE PrintTable
  <2>1. /\ comparing \in {1, 3} /\ phase = "over" /\ printed' = comparing /\ comparing' = 0
        /\ rows' = rows \cup RowsFor /\ config' = config /\ phase' = phase
    BY <1>5, ComparedVariants DEF PrintTable, vars, program
  <2>2. config = Sized(config.variant) /\ config.variant \in Variants
    BY <1>1, Sizes, ConfigType DEF Sized
  <2>3. /\ rows' \subseteq Row /\ RowsAreHonest' /\ RowsAreExact'
        /\ comparing = 1 => \A row \in rows' : row.variant = "secure"
    BY <1>1, <2>1, <2>2, RowsAreAdded
  <2>4. Progress'
    BY <2>1, <2>3 DEF Progress
  <2> QED BY <2>3, <2>4
<1>6. CASE AnyDeath
  BY <1>6, EmptyTable DEF AnyDeath, NoComparison
<1>7. CASE Working
  <2>1. UNCHANGED <<comparison, config>>
    BY <1>7 DEF Working, Preparing, ResetFixtures, RestoreBackstop, DropInstrumentation,
        DropBackstop, CreateInstrumentation, PreSellUnits, ArmGate, DisarmGate, Execute, Burst,
        BurstWithFailures, BurstInterfered, ReadDrop, ReadWallet,
        KeepReference, Judge, JudgeRun, GoOn,
        StragglerWrites, StragglerEnds, program
  <2>2. phase = "over" => phase' = phase
    BY <1>7 DEF Working, Preparing, ResetFixtures, RestoreBackstop, DropInstrumentation,
        DropBackstop, CreateInstrumentation, PreSellUnits, ArmGate, DisarmGate, Execute, Burst,
        BurstWithFailures, BurstInterfered, ReadDrop, ReadWallet,
        KeepReference, Judge, JudgeRun,
        StragglerWrites, StragglerEnds
  <2>3. phase # "idle" => phase' # "idle"
    BY <1>7 DEF Working, Preparing, ResetFixtures, RestoreBackstop, DropInstrumentation,
        DropBackstop, CreateInstrumentation, PreSellUnits, ArmGate, DisarmGate, Execute, Burst,
        BurstWithFailures, BurstInterfered, ReadDrop, ReadWallet,
        KeepReference, Judge, JudgeRun, GoOn, Prepare,
        StragglerWrites, StragglerEnds
  <2> QED BY <2>1, <2>2, <2>3, SameTable DEF CInv, Progress
<1> QED BY <1>2, <1>3, <1>4, <1>5, <1>6, <1>7 DEF ComparisonNext

------------------------------------------------------------------------------
(* The narrative. *)

\* By how much each scenario of the deterministic mode overruns.
LEMMA DeterministicOverrun ==
    ASSUME NEW c \in Configs, c.variant = "deterministic", Ample(c), NEW s \in Planned(c)
    PROVE  /\ s.sequential \in BOOLEAN
           /\ s.sequential => ExactOverrun(s) = 0
           /\ ~s.sequential /\ s.shape = "process_lock" => ExactOverrun(s) = s.replicas - 1
                                                           /\ s.replicas \in {1, 2}
           /\ ~s.sequential /\ s.shape # "process_lock" =>
                  /\ ExactOverrun(s) > 0
                  /\ s.shape = "single_transaction" \/ s.invariant = "counter" =>
                         ExactOverrun(s) = c.orders - UnitsAvailable
                  /\ s.invariant # "counter" =>
                         s.gate.expected \in Nat /\ ExactOverrun(s) = s.gate.expected - 1
<1>1. /\ UnitsAvailable \in Nat \ {0} /\ s.sequential \in BOOLEAN
      /\ HeldOpen(s) \/ HalfFix(s)
         \/ (s.expectation = "sequential_correct" /\ Plain(s) /\ s.sequential)
  BY HarnessAssumption DEF Planned, ScenarioType
<1>2. CASE HeldOpen(s)
  <2>1. /\ s.wave \in Nat /\ s.preSold = 0 /\ ~s.sequential /\ s.shape # "process_lock"
        /\ s.gate.expected = s.wave /\ s.expectation = "defect_required"
        /\ s.shape = "single_transaction" => s.invariant = "counter"
        /\ s.invariant = "counter" => s.wave = c.orders
        /\ s.wave > IF s.invariant = "counter" THEN UnitsAvailable ELSE 1
    BY <1>2, AmpleScenario DEF HeldOpen, Planned
  <2>2. Committed(s) = s.wave
    BY <2>1 DEF Committed
  <2>3. CASE s.invariant = "counter"
    <3>1. ExactOverrun(s) = c.orders - UnitsAvailable /\ ExactOverrun(s) > 0
      BY <1>1, <2>1, <2>2, <2>3 DEF ExactOverrun, Excess, Allowed
    <3> QED BY <1>1, <2>1, <2>3, <3>1
  <2>4. CASE s.invariant # "counter"
    <3>1. ExactOverrun(s) = s.wave - 1 /\ ExactOverrun(s) > 0
      BY <2>1, <2>2, <2>4 DEF ExactOverrun, Excess, Allowed
    <3> QED BY <1>1, <2>1, <2>4, <3>1
  <2> QED BY <2>3, <2>4
<1>3. CASE HalfFix(s)
  <2>1. /\ s.replicas \in {1, 2} /\ s.shape = "process_lock" /\ ~s.sequential
        /\ s.invariant = "counter" /\ s.preSold = UnitsAvailable - 1
        /\ s.gate.expected = s.replicas
        /\ s.expectation \in {"looks_fixed", "defect_required"}
    BY <1>3 DEF HalfFix, Planned, ScenarioType
  <2>2. Committed(s) = UnitsAvailable - 1 + s.replicas
    BY <2>1 DEF Committed
  <2>3. ExactOverrun(s) = s.replicas - 1
    BY <1>1, <2>1, <2>2 DEF ExactOverrun, Excess, Allowed
  <2> QED BY <1>1, <2>1, <2>3
<1>4. CASE s.expectation = "sequential_correct" /\ Plain(s) /\ s.sequential
  <2>1. ExactOverrun(s) = 0
    BY <1>1, <1>4 DEF ExactOverrun, Excess, Committed, Allowed
  <2> QED BY <1>1, <1>4, <2>1
<1> QED BY <1>1, <1>2, <1>3, <1>4

LEMMA TableIsTrue == CInv => TableTellsTheStory
<1> SUFFICES ASSUME CInv, printed > 0 PROVE TableTellsTheStory
  BY DEF TableTellsTheStory
<1> DEFINE table == TrustedRows("deterministic")
           D == Sized("deterministic")
           is(row, shape) == ScenarioOf(row).shape = shape /\ ~ScenarioOf(row).sequential
           counter(row) == ScenarioOf(row).invariant = "counter"
           width(row) == ScenarioOf(row).gate.expected
<1>1. \A row \in rows : row.variant = "secure" <=> row.verdict = "invariant_held"
  BY DEF CInv, RowsAreHonest
<1>2. D \in Configs /\ D.variant = "deterministic"
  BY PlanOfRun, Sizes DEF CInv, HInv, IInv, Sized, Variants
<1>3. ASSUME Ample(D), NEW row \in table
      PROVE  /\ ScenarioOf(row) \in Planned(D)
             /\ row.overrun = ExactOverrun(ScenarioOf(row))
             /\ row.verdict = IF ExactOverrun(ScenarioOf(row)) > 0 THEN "invariant_violated"
                              ELSE "inconclusive"
  <2>1. row.variant = "deterministic"
    BY DEF TrustedRows
  <2>2. ScenarioOf(row) = PlanFor[D][row.scenario]
    BY <2>1 DEF ScenarioOf, Sized
  <2>3. row.scenario \in DOMAIN PlanFor[D] /\ RowIsExact(PlanFor[D][row.scenario], row)
    BY <1>3 DEF CInv, RowsAreExact
  <2>4. PlanFor[D][row.scenario] \in Planned(D)
    BY <1>2, <2>3, PlanType
  <2> QED BY <2>2, <2>3, <2>4 DEF RowIsExact
<1> HIDE DEF D
<1>4. ASSUME Ample(D), table # {}
      PROVE  {row.scenario : row \in table} = DOMAIN PlanFor[D]
  BY <1>4 DEF CInv, RowsAreExact, D
<1> HIDE DEF table
<1>5. ASSUME Ample(D), NEW row \in table
      PROVE  row.verdict = IF ScenarioOf(row).sequential
                              \/ (is(row, "process_lock") /\ ScenarioOf(row).replicas = 1)
                           THEN "inconclusive" ELSE "invariant_violated"
  <2> DEFINE s == ScenarioOf(row)
  <2>1. s \in Planned(D) /\ row.verdict = IF ExactOverrun(s) > 0 THEN "invariant_violated"
                                          ELSE "inconclusive"
    BY <1>3, <1>5
  <2> HIDE DEF s
  <2>2. CASE s.sequential
    <3>1. ExactOverrun(s) = 0
      BY <1>2, <1>5, <2>1, <2>2, DeterministicOverrun
    <3> QED BY <2>1, <2>2, <3>1 DEF s
  <2>3. CASE ~s.sequential /\ s.shape = "process_lock"
    <3>1. ExactOverrun(s) = s.replicas - 1 /\ s.replicas \in {1, 2}
      BY <1>2, <1>5, <2>1, <2>3, DeterministicOverrun
    <3> QED BY <2>1, <2>3, <3>1 DEF s
  <2>4. CASE ~s.sequential /\ s.shape # "process_lock"
    <3>1. ExactOverrun(s) > 0
      BY <1>2, <1>5, <2>1, <2>4, DeterministicOverrun
    <3> QED BY <2>1, <2>4, <3>1 DEF s
  <2> QED BY <2>2, <2>3, <2>4
<1>6. ASSUME Ample(D), NEW a \in table, NEW b \in table,
             is(a, "single_transaction"), is(b, "unguarded"), counter(b)
      PROVE  a.overrun = b.overrun
  <2>1. ExactOverrun(ScenarioOf(a)) = D.orders - UnitsAvailable
    BY <1>2, <1>3, <1>6, DeterministicOverrun
  <2>2. ExactOverrun(ScenarioOf(b)) = D.orders - UnitsAvailable
    BY <1>2, <1>3, <1>6, DeterministicOverrun
  <2> QED BY <1>3, <1>6, <2>1, <2>2
<1>7. ASSUME Ample(D), NEW a \in table, NEW b \in table,
             is(a, "unguarded"), is(b, "unguarded"), ~counter(a), ~counter(b),
             width(a) < width(b)
      PROVE  a.overrun < b.overrun
  <2>1. width(a) \in Nat /\ ExactOverrun(ScenarioOf(a)) = width(a) - 1
    BY <1>2, <1>3, <1>7, DeterministicOverrun
  <2>2. width(b) \in Nat /\ ExactOverrun(ScenarioOf(b)) = width(b) - 1
    BY <1>2, <1>3, <1>7, DeterministicOverrun
  <2>3. a.overrun = width(a) - 1 /\ b.overrun = width(b) - 1
    BY <1>3, <1>7, <2>1, <2>2
  <2> HIDE DEF width
  <2> QED BY <1>7, <2>1, <2>2, <2>3
<1> QED BY <1>1, <1>4, <1>5, <1>6, <1>7 DEF TableTellsTheStory, table, D, Sized

------------------------------------------------------------------------------
\* Every reachable state of a comparison, its dead runs and the harness runs around
\* it, satisfies the inductive invariant.
THEOREM ComparisonInvariance == ComparisonSpec => []CInv
<1>1. CompareInit => CInv
  <2> SUFFICES ASSUME CompareInit PROVE CInv
    OBVIOUS
  <2>1. HInv /\ comparing = 0 /\ rows = {} /\ printed = 0
        /\ results = [i \in DOMAIN plan |-> {}]
    BY InitHInv DEF CompareInit, Init
  <2>2. VerdictsAreHonest /\ Progress /\ RowsAreHonest
    BY <2>1 DEF VerdictsAreHonest, Progress, RowsAreHonest
  <2>3. RowsAreExact
    BY <2>1 DEF RowsAreExact, TrustedRows
  <2> QED BY <2>1, <2>2, <2>3 DEF CInv
<1>2. CInv /\ [ComparisonNext]_compareVars => CInv'
  <2>1. ASSUME CInv, ComparisonNext PROVE CInv'
    <3>1. HInv' /\ (Step \/ UNCHANGED vars)
      BY <2>1, ComparisonPreserves, ComparisonStep DEF CInv, HInv
    <3>2. Progress' /\ RowsAreHonest' /\ RowsAreExact'
      BY <2>1, TableStep
    <3>3. CASE Step
      BY <2>1, <3>1, <3>2, <3>3, HonestStep DEF CInv, HInv
    <3>4. CASE UNCHANGED vars
      <4>1. VerdictsAreHonest'
        BY <2>1, <3>4, SameRun DEF CInv, VerdictsAreHonest, vars, report
      <4> QED BY <3>1, <3>2, <4>1 DEF CInv
    <3> QED BY <3>1, <3>3, <3>4
  <2>2. ASSUME CInv, UNCHANGED compareVars PROVE CInv'
    <3>1. UNCHANGED vars /\ UNCHANGED comparison
      BY <2>2 DEF compareVars
    <3>2. UNCHANGED <<results, phase, config>> /\ UNCHANGED program
      BY <3>1 DEF vars, report, program
    <3>3. HInv'
      BY <2>2, <3>1, StutterPreserves, HealthyStutter DEF CInv, HInv
    <3>4. VerdictsAreHonest'
      BY <2>2, <3>2, SameRun DEF CInv, VerdictsAreHonest
    <3>5. Progress' /\ RowsAreHonest' /\ RowsAreExact'
      BY <2>2, <3>1, <3>2, SameTable DEF CInv, Progress
    <3> QED BY <3>3, <3>4, <3>5 DEF CInv
  <2> QED BY <2>1, <2>2
<1> QED BY <1>1, <1>2, PTL DEF ComparisonSpec

\* The harness, the comparison and its table keep their types.
THEOREM ComparisonTypeCorrect == ComparisonSpec => []ComparisonTypeOK
<1>1. CInv => ComparisonTypeOK
  BY ComparedVariants DEF CInv, HInv, IInv, Progress, ComparisonTypeOK
<1> QED BY <1>1, ComparisonInvariance, PTL

\* Each run of a comparison is a run of the harness: the secure application is
\* never accused, the store is as reported, the constraints can be put back, a pass
\* is earned and a healthy run passes, whichever runs came before.
THEOREM ComparedRunsAreSound ==
    ComparisonSpec => [](/\ SecureIsNeverAccused /\ StoreIsAsReported /\ RestoreNeverFails
                         /\ PassIsEarned /\ HealthyRunPasses)
<1>1. CInv => /\ SecureIsNeverAccused /\ StoreIsAsReported /\ RestoreNeverFails
              /\ PassIsEarned /\ HealthyRunPasses
  BY FreshIsRestorable, JudgedIsEarned, HealthyPasses DEF CInv, HInv, IInv
<1> QED BY <1>1, ComparisonInvariance, PTL

\* The narrative printed under the table (compare/table.py) is true of its rows.
THEOREM TableIsHonest == ComparisonSpec => []TableTellsTheStory
BY TableIsTrue, ComparisonInvariance, PTL

=============================================================================
