----------------------------- MODULE MCComparison -----------------------------
(***************************************************************************)
(* The instance of MCHarnessRun with one size for all three variants:      *)
(* a harness run or a comparison, and another of either after it.          *)
(***************************************************************************)
EXTENDS Comparison

MCConfigs == {[variant |-> v, replicas |-> 2, orders |-> 3, credits |-> 3] : v \in Variants}

MCThrottleSteps == <<2>>

=============================================================================
