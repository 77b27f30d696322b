------------------------------ MODULE Comparison ------------------------------
(***************************************************************************)
(* The comparison, compare/engine.py: the harness run for the secure       *)
(* application and then, if it answers its health check, for the           *)
(* vulnerable one in either mode, one round per scenario, every scenario a *)
(* row of the printed table.  It shares the store with runs of the harness *)
(* before and after it, as HarnessRun has them.                            *)
(*                                                                         *)
(* The table is printed whether or not the runs passed their checks.       *)
(***************************************************************************)
EXTENDS HarnessRun

ASSUME ComparisonAssumption ==
    /\ Rounds = 1  \* replace(config, rounds=1)
    /\ \A c \in Configs, v \in Variants : [c EXCEPT !.variant = v] \in Configs

VARIABLES
    comparing,  \* which of Compared the comparison is running
    rows,       \* the rows so far
    printed     \* the table is printed, of how many of Compared: 0 before

comparison == <<comparing, rows, printed>>
compareVars == <<vars, comparison>>

Compared == <<"secure", "deterministic", "natural">>

\* A scenario's place in its plan stands for its cells.  Of a run a request of which
\* failed, or that did not have the store to itself, only the verdicts are kept, at
\* place 0.
Row == [variant : Variants, scenario : Nat, overrun : Nat, verdict : Verdicts]

ComparisonTypeOK ==
    /\ TypeOK
    /\ comparing \in 0 .. Len(Compared) /\ printed \in 0 .. Len(Compared)
    /\ rows \subseteq Row

CompareInit == Init /\ comparing = 0 /\ rows = {} /\ printed = 0

NoComparison == comparing' = 0 /\ rows' = {} /\ printed' = 0

\* rows_for: the first round of each key that has not been seen.
RowsFor ==
    LET first(i) == \A j \in 1 .. i - 1 : Key(plan[j]) # Key(plan[i])
        row(i, result) == [variant  |-> config.variant,
                           scenario |-> IF disturbed THEN 0 ELSE i,
                           overrun  |-> IF disturbed THEN 0 ELSE result.overrun,
                           verdict  |-> result.verdict]
    IN  UNION {{row(i, result) : result \in results[i]} : i \in {j \in DOMAIN plan : first(j)}}

StartComparison(c) ==
    /\ c.variant = Compared[1]
    /\ StartRun(c)
    /\ comparing' = 1 /\ rows' = {} /\ printed' = 0

\* The next run of the three.
CompareNext ==
    /\ comparing \in 1 .. Len(Compared) - 1 /\ phase = "over"
    /\ Launch([config EXCEPT !.variant = Compared[comparing + 1]])
    /\ rows' = rows \cup RowsFor
    /\ comparing' = comparing + 1
    /\ UNCHANGED <<runs, printed>>

\* After the last, or after the first when the vulnerable application is not there.
PrintTable ==
    /\ comparing \in {1, Len(Compared)} /\ phase = "over"
    /\ rows' = rows \cup RowsFor
    /\ printed' = comparing /\ comparing' = 0
    /\ UNCHANGED vars

\* A harness on its own starts when no comparison is under way; if a run of the
\* comparison dies, so does the comparison, and nothing is printed.
Alone(c) == comparing = 0 /\ StartRun(c) /\ NoComparison

AnyDeath == (Die \/ DieDuringBurst) /\ NoComparison

Working ==
    /\ \/ Preparing \/ Burst \/ BurstWithFailures \/ BurstInterfered
       \/ ReadDrop \/ ReadWallet \/ KeepReference \/ Judge \/ JudgeRun
       \/ StragglerWrites \/ StragglerEnds
    /\ UNCHANGED comparison

ComparisonNext ==
    \/ \E c \in Configs : Alone(c) \/ (comparing = 0 /\ StartComparison(c))
    \/ CompareNext \/ PrintTable \/ AnyDeath \/ Working

ComparisonSpec == CompareInit /\ [][ComparisonNext]_compareVars

------------------------------------------------------------------------------
(* What table.py says of the table. *)

ScenarioOf(row) == PlanFor[[config EXCEPT !.variant = row.variant]][row.scenario]

TrustedRows(variant) == {row \in rows : row.variant = variant /\ row.scenario > 0}

\* The narrative printed under the table is true of the rows above it: secure code
\* held in every row, even of a disturbed run; of trusted rows with ample bursts,
\* every scenario has its own, unguarded and throttled rows are VULNERABLE, a
\* transaction overruns exactly as far as none ("identical overruns"), the process
\* lock "looks fixed" at one replica and not at two, the sequential rows read
\* INCONCLUSIVE "rather than SECURE", and throttling does "less damage, and never
\* none".
TableTellsTheStory ==
    printed > 0 =>
        LET table == TrustedRows("deterministic")
            is(row, shape) == ScenarioOf(row).shape = shape /\ ~ScenarioOf(row).sequential
            counter(row) == ScenarioOf(row).invariant = "counter"
            width(row) == ScenarioOf(row).gate.expected
        IN  /\ \A row \in rows : row.variant = "secure" <=> row.verdict = "invariant_held"
            /\ (printed > 1 /\ Ample([config EXCEPT !.variant = "deterministic"]) /\ table # {}) =>
               /\ {row.scenario : row \in table} =
                      DOMAIN PlanFor[[config EXCEPT !.variant = "deterministic"]]
               /\ \A row \in table :
                     row.verdict = IF ScenarioOf(row).sequential
                                      \/ (is(row, "process_lock") /\ ScenarioOf(row).replicas = 1)
                                   THEN "inconclusive" ELSE "invariant_violated"
               /\ \A a, b \in table :
                     /\ is(a, "single_transaction") /\ is(b, "unguarded") /\ counter(b)
                        => a.overrun = b.overrun
                     /\ is(a, "unguarded") /\ is(b, "unguarded") /\ ~counter(a) /\ ~counter(b)
                        => (width(a) < width(b) => a.overrun < b.overrun)

=============================================================================
