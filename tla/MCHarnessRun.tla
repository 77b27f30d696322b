----------------------------- MODULE MCHarnessRun -----------------------------
(***************************************************************************)
(* Two units, throttle steps of three and two: the configurations that the *)
(* runs MCThrottledToAll and MCCrowdedGate look at.                        *)
(***************************************************************************)
EXTENDS HarnessRun

Config(variant, replicas, orders, credits) ==
    [variant |-> variant, replicas |-> replicas, orders |-> orders, credits |-> credits]

MCThrottleSteps == <<3, 2>>

\* Legal, and less than ample: as many credits as the first step throttles to.
MCEqualConfigs == {Config("deterministic", 2, 4, 3)}

\* Legal, and less than ample: more requests than one replica has connections.
MCCrowdedConfigs == {Config("deterministic", 2, 4, 4)}

=============================================================================
