----------------------------- MODULE MCHeldBurst -----------------------------
(***************************************************************************)
(* The deterministic scenarios of the engine, scaled down to three         *)
(* requests, two units and two replicas, or to a burst of two and one      *)
(* request of a dead round.  Pools are as large as the burst.              *)
(***************************************************************************)
EXTENDS HeldBurst

Scenario(shape, replicas, wave, preSold) ==
    [shape |-> shape, replicas |-> replicas, wave |-> wave, preSold |-> preSold,
     backstop |-> FALSE]

MCScenarios ==
    {Scenario(shape, 2, 3, 0) : shape \in {"unguarded", "redemption"}}
    \cup {Scenario(shape, 2, 2, 0) : shape \in {"single_transaction", "redemption"}}
    \cup {Scenario("process_lock", p, w, 1) : p \in {1, 2}, w \in {2, 3}}

\* The whole burst in flight, at a gate that lets one through at a time.
MCNarrowScenarios == {Scenario("redemption", 2, 3, 0)}

=============================================================================
