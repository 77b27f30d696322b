------------------------------ MODULE Rendezvous ------------------------------
(***************************************************************************)
(* instrumentation.hold_window_open: the rendezvous in the shared database *)
(* that holds the window between a check and its act open until a batch of *)
(* requests is inside it.                                                  *)
(*                                                                         *)
(* Every statement commits on its own connection.  An arrival takes its id *)
(* from a sequence before its row is visible, so arrivals can become       *)
(* visible out of order.  Time is abstract: a waiting party may always     *)
(* find its deadline passed.                                               *)
(***************************************************************************)
EXTENDS Integers, FiniteSets

CONSTANT Parties    \* the requests that may enter the window

VARIABLES
    gate,        \* the armed gate: expected, and arm_at or Anything
    stage,       \* where each party is in hold_window_open
    expected,    \* the batch size each party has read, 0 before
    arrival_id,  \* the id its arrival row was given, 0 before
    arrivals,    \* the parties whose arrival row is visible
    target,      \* how many arrivals each party waits for
    timed_out    \* the safety valve was used

Anything == -1
Stages == {"outside", "insert", "inserting", "rank", "wait", "valve", "through"}

TypeOK ==
    /\ gate \in [expected : Nat \ {0}, arm_at : Nat \cup {Anything}]
    /\ stage \in [Parties -> Stages]
    /\ expected \in [Parties -> Nat]
    /\ arrival_id \in [Parties -> Nat]
    /\ arrivals \subseteq Parties
    /\ target \in [Parties -> Nat]
    /\ timed_out \in BOOLEAN

\* arm_gate(expected, arm_at): no arrivals, and nobody in hold_window_open but
\* those `left' of a round whose client died, which may be anywhere in it.  Their
\* rows are gone; their ids come before every new one, and the batch size and
\* the target they have read are those of a gate of theirs (`old').
Armed(settings, left, old) ==
    /\ gate = settings
    /\ arrivals = {}
    /\ timed_out = FALSE
    /\ stage \in [Parties -> Stages \ {"through"}]
    /\ \A p \in Parties \ left : stage[p] = "outside"
    /\ LET inside == {p \in left : stage[p] # "outside"}
           numbered == {p \in inside : stage[p] # "insert"}
           waiting == {p \in inside : stage[p] \in {"wait", "valve"}}
       IN  /\ expected \in [Parties -> old \cup {0}]
           /\ \A p \in Parties : expected[p] > 0 <=> p \in inside
           /\ arrival_id = [p \in Parties |-> IF p \in numbered
                                             THEN Cardinality({q \in numbered : q <= p}) ELSE 0]
           /\ target = [p \in Parties |-> IF p \in waiting THEN expected[p] ELSE 0]

------------------------------------------------------------------------------
Goto(p, s) == stage' = [stage EXCEPT ![p] = s]

\* Only a check that observed the armed value is held.
ReadGate(p, observed) ==
    /\ stage[p] = "outside"
    /\ IF gate.arm_at \in {Anything, observed}
       THEN Goto(p, "insert") /\ expected' = [expected EXCEPT ![p] = gate.expected]
       ELSE Goto(p, "through") /\ UNCHANGED expected
    /\ UNCHANGED <<gate, arrival_id, arrivals, target, timed_out>>

TakeArrivalId(p) ==
    /\ stage[p] = "insert"
    /\ arrival_id' = [arrival_id EXCEPT
                        ![p] = 1 + Cardinality({q \in Parties : arrival_id[q] > 0})]
    /\ Goto(p, "inserting")
    /\ UNCHANGED <<gate, expected, arrivals, target, timed_out>>

ArrivalCommits(p) ==
    /\ stage[p] = "inserting"
    /\ arrivals' = arrivals \cup {p}
    /\ Goto(p, "rank")
    /\ UNCHANGED <<gate, expected, arrival_id, target, timed_out>>

RankOf(p) == Cardinality({q \in arrivals : arrival_id[q] <= arrival_id[p]})

\* Broken variant: the batch is rounded up one too far.
RankTooFar(p) ==
    /\ stage[p] = "rank"
    /\ target' = [target EXCEPT ![p] = (RankOf(p) \div expected[p] + 1) * expected[p]]
    /\ Goto(p, "wait")
    /\ UNCHANGED <<gate, expected, arrival_id, arrivals, timed_out>>

\* The batch of `expected' parties this one belongs to: -(-rank // expected).
Rank(p) ==
    /\ stage[p] = "rank"
    /\ LET batch == (RankOf(p) + expected[p] - 1) \div expected[p]
       IN  target' = [target EXCEPT ![p] = batch * expected[p]]
    /\ Goto(p, "wait")
    /\ UNCHANGED <<gate, expected, arrival_id, arrivals, timed_out>>

\* Broken variant: a party does not wait for the last of its batch.
BatchNearlyFull(p) ==
    /\ stage[p] = "wait"
    /\ Cardinality(arrivals) + 1 >= target[p]
    /\ Goto(p, "through")
    /\ UNCHANGED <<gate, expected, arrival_id, arrivals, target, timed_out>>

\* A poll that finds the batch complete.
BatchFull(p) ==
    /\ stage[p] = "wait"
    /\ Cardinality(arrivals) >= target[p]
    /\ Goto(p, "through")
    /\ UNCHANGED <<gate, expected, arrival_id, arrivals, target, timed_out>>

\* A poll that finds it incomplete and the deadline passed.
GiveUp(p) ==
    /\ stage[p] = "wait"
    /\ Cardinality(arrivals) < target[p]
    /\ Goto(p, "valve")
    /\ UNCHANGED <<gate, expected, arrival_id, arrivals, target, timed_out>>

OpenValve(p) ==
    /\ stage[p] = "valve"
    /\ timed_out' = TRUE
    /\ Goto(p, "through")
    /\ UNCHANGED <<gate, expected, arrival_id, arrivals, target>>

Hold(p, observed) ==
    \/ ReadGate(p, observed) \/ TakeArrivalId(p) \/ ArrivalCommits(p)
    \/ Rank(p) \/ BatchFull(p) \/ OpenValve(p)

=============================================================================
