------------------------------ MODULE HeldBurst ------------------------------
(***************************************************************************)
(* A round of the deterministic mode: the burst of CheckThenAct, each of   *)
(* whose requests holds its window open at the gate of Rendezvous, with    *)
(* the settings harness/engine.py arms it with.  The harness only sends    *)
(* requests for the seeded drop, code and wallet, from seeded buyers.      *)
(***************************************************************************)
EXTENDS CheckThenAct

CONSTANTS
    MaxGhosts,  \* bound: requests left by a round whose client died
    OldWidths   \* the batch sizes of the gates they may have read

ASSUME GhostAssumption == MaxGhosts \in 0 .. Concurrency /\ OldWidths \subseteq Nat \ {0}

\* Every burst has a request (order_concurrency is at least 1), every round is
\* prepared without the backstop, and a process lock is tried on the last unit
\* (_deterministic_scenarios: `contested').
ASSUME RoundAssumption ==
    /\ Concurrency > 0
    /\ \A s \in Scenarios : /\ ~s.backstop
                            /\ s.shape = "process_lock" => s.preSold = UnitsAvailable - 1

VARIABLES
    ghosts,  \* the requests that are not of this burst
    gate, stage, expected, arrival_id, arrivals, target, timed_out

Gate == INSTANCE Rendezvous WITH Parties <- Requests

GhostPlaces == {"pool", "instrumentation", "lock", "check", "window", "act"}

atGate == <<ghosts, gate, stage, expected, arrival_id, arrivals, target, timed_out>>
held == <<vars, atGate>>

\* Broken variant: the lock's gate is not restricted to the last unit.
GateSettingsUnarmed ==
    [expected |-> IF Shape = "process_lock" THEN scenario.replicas ELSE scenario.wave,
     arm_at   |-> Gate!Anything]

\* _deterministic_scenarios: as many as can be at the check at once.  Behind a
\* process lock that is one per process, held at the last unit only.
GateSettings ==
    IF Shape = "process_lock"
    THEN [expected |-> scenario.replicas, arm_at |-> UnitsAvailable - 1]
    ELSE [expected |-> scenario.wave, arm_at |-> Gate!Anything]

\* Behind a process lock at most one in each process has it.
Holder(p, where) ==
    LET inside == {g \in ghosts : ReplicaOf(g) = p /\ where[g] \in Inside}
    IN  IF Shape = "process_lock" /\ inside # {} THEN CHOOSE g \in inside : TRUE ELSE NoRequest

\* The last few requests are not of this burst, and may be anywhere before their
\* UPDATE: waiting for a pool or a process lock, about to check, in the window, or
\* past it; what one of them writes between the reset and the burst is as if it
\* wrote next.  They are of the round's shape, as those of an interrupted repetition
\* are.  What one has read only matters in the window of a process lock.
GhostsAreAbout ==
    /\ ghosts \in {(Concurrency - n + 1) .. Concurrency : n \in 0 .. MaxGhosts}
    /\ ghosts # {} => scenario.wave + Cardinality(ghosts) <= Concurrency
    /\ \E where \in [ghosts -> GhostPlaces], read \in [ghosts -> 0 .. Limit - 1] :
          /\ \A g \in ghosts : /\ where[g] = "lock" => Shape = "process_lock"
                               /\ read[g] > 0 => where[g] = "window" /\ Shape = "process_lock"
          /\ Shape = "process_lock" =>
                 \A g, h \in ghosts : {where[g], where[h]} \subseteq Inside
                                         /\ ReplicaOf(g) = ReplicaOf(h) => g = h
          /\ StartsWith([r \in Requests |-> IF r \in ghosts THEN where[r] ELSE "idle"],
                        [r \in Requests |-> IF r \in ghosts THEN read[r] ELSE 0],
                        [p \in Replica |-> Holder(p, where)])
    /\ \A g \in ghosts : Cardinality(OnMyReplica(g, HoldsConnection)) <= PoolSize

InTheWindow == {g \in ghosts : pc[g] = "window"}

HeldInit == /\ scenario \in Scenarios
            /\ GhostsAreAbout
            /\ Gate!Armed(GateSettings, InTheWindow, OldWidths)

\* A window of one, whatever the client does: what GateWidthBoundsTheDamage uses.
NarrowInit == /\ Init /\ ghosts = {}
              /\ Gate!Armed([expected |-> 1, arm_at |-> Gate!Anything], {}, {})

Burst(r) ==
    (Send(r) \/ Step(r) \/ Failure(r) \/ Backend(r)) /\ UNCHANGED atGate

AtTheGate(r) == pc[r] = "window" /\ Gate!Hold(r, observed[r]) /\ UNCHANGED <<vars, ghosts>>

DeadlinePassed(r) == pc[r] = "window" /\ Gate!GiveUp(r) /\ UNCHANGED <<vars, ghosts>>

Released(r) ==
    /\ LeaveWindow(r) /\ stage[r] = "through"
    /\ UNCHANGED atGate

HeldNext ==
    \E r \in Requests : Burst(r) \/ AtTheGate(r) \/ DeadlinePassed(r) \/ Released(r)

HeldSpec == HeldInit /\ [][HeldNext]_held

NarrowSpec == NarrowInit /\ [][HeldNext]_held

\* While the burst is alone and every request reaches the gate in time nothing
\* obliges a deadline to pass: the valve may be used, and must not be needed.  Once
\* a request has failed or left by the valve, or one that is not of this burst is
\* at the gate, somebody may have nobody left to wait for.
HeldFairness ==
    \A r \in Requests :
        /\ WF_held(Send(r) /\ UNCHANGED atGate)
        /\ WF_held(Step(r) /\ UNCHANGED atGate)
        /\ WF_held(Backend(r) /\ UNCHANGED atGate)
        /\ WF_held(AtTheGate(r))
        /\ WF_held(Released(r))
        /\ WF_held((Failed # {} \/ timed_out \/ ghosts # {}) /\ DeadlinePassed(r))

FairHeldSpec == HeldSpec /\ HeldFairness

------------------------------------------------------------------------------
HeldTypeOK == TypeOK /\ Gate!TypeOK /\ ghosts \subseteq Requests

\* The damage of a wave: all of it reads the same value and all of it writes.  A
\* burst too small for the waves it takes sells one to each of its requests.
WavesNeeded == (Limit - Sold0 + scenario.wave - 1) \div scenario.wave
Buyers == IF WavesNeeded * scenario.wave < Concurrency
          THEN WavesNeeded * scenario.wave ELSE Concurrency
PredictedValue ==
    IF Shape = "process_lock" THEN Limit + scenario.replicas - 1 ELSE Sold0 + Buyers

\* If nothing failed and the valve was not used, the damage is not a matter of
\* scheduling: it is the number the scenario predicts ("the interleaving is
\* identical on every machine and every run"; for the single-use series "w - 1,
\* for every w"; for the lock, none behind one process and one behind two).  A
\* request of a dead round that completes a batch of this one, opens its valve or
\* holds the process lock adds no more than what it writes itself.
DamageIsDetermined ==
    Quiet /\ Failed = {} =>
        /\ value <= PredictedValue + Cardinality(ghosts)
        /\ ghosts = {} /\ ~timed_out => value = PredictedValue

\* The round ends, and needs no valve for it while it is alone and no request
\* fails: "a safety valve, never a normal path".  The batches the gate is armed for always fill.
RoundEnds == <>Quiet

\* instrumentation.py, hold_window_open: with the width "set to eight, they go
\* through eight at a time, and the damage falls accordingly".
GateWidthBoundsTheDamage == ~timed_out => value <= Limit + gate.expected - 1

=============================================================================
