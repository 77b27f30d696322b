---------------------------- MODULE HeldBurstProofs ----------------------------
(***************************************************************************)
(* A deterministic round, for any burst, any number of replicas and any    *)
(* wave: its types, and that its damage is a function of the scenario.     *)
(*                                                                         *)
(* From above the damage is bounded whatever the gate does: once the waves *)
(* that are needed have been answered, the limit is met and no later one   *)
(* enters its window.  From below it is the gate that matters: nobody      *)
(* passes it before its whole wave (behind a process lock: one request of  *)
(* each process) has arrived, and whoever has arrived has read a value     *)
(* below the limit and will write.                                         *)
(***************************************************************************)
EXTENDS HeldBurst, CheckThenActProofs

\* Who has read the size of a batch has read one that is not zero, and the gate is
\* the one the engine has armed.
BatchesAreKnown ==
    /\ gate = GateSettings
    /\ \A r \in Requests : stage[r] \notin {"outside", "through"} => expected[r] > 0

\* Of the requests of this burst, whoever has started has every earlier wave behind it.
Own == Requests \ ghosts
HeldWave ==
    \A q \in Requests, r \in Own : pc[r] # "idle" /\ WaveOf(q) < WaveOf(r) => pc[q] = "done"

\* The harness asks for what there is, of an application without the backstop.
Served == \A r \in Requests : outcome[r] # "UNKNOWN" /\ reply[r] \in {0, 201, 409, 503}

------------------------------------------------------------------------------
USE DEF Goto, Answer, Unlock, RowIsFree, RowIsMine, Gate!Goto

\* Rendezvous counts with the same operator.
LEMMA SameCount == \A S : Gate!Cardinality(S) = Cardinality(S)
BY DEF Gate!Cardinality, Cardinality

\* A held round does what a burst does, and never rejects a request.
HeldStep(r) == Send(r) \/ Step(r) \/ LeaveWindow(r) \/ Failure(r) \/ Backend(r)

LEMMA HeldSteps ==
    ASSUME [HeldNext]_held
    PROVE  \/ UNCHANGED vars
           \/ \E r \in Requests : HeldStep(r)
BY DEF HeldNext, held, Burst, AtTheGate, DeadlinePassed, Released, HeldStep

LEMMA HeldIsNext == [HeldNext]_held => [Next]_vars
BY HeldSteps DEF HeldStep, Next

LEMMA RoundFacts ==
    ASSUME scenario \in Scenarios
    PROVE  /\ ~scenario.backstop
           /\ scenario.wave \in Nat \ {0} /\ scenario.replicas \in Nat \ {0}
           /\ Shape = "process_lock" => Limit = UnitsAvailable /\ Sold0 = Limit - 1
BY WidthFacts, ScenarioFacts, BurstAssumption, RoundAssumption DEF Shape, Limit, Sold0

LEMMA GateOfTheRound ==
    ASSUME scenario \in Scenarios
    PROVE  /\ GateSettings \in [expected : Nat \ {0}, arm_at : Nat \cup {Gate!Anything}]
           /\ GateSettings.expected = IF Shape = "process_lock" THEN scenario.replicas
                                      ELSE scenario.wave
           /\ GateSettings.arm_at = IF Shape = "process_lock" THEN Limit - 1 ELSE Gate!Anything
<1>1. Shape = "process_lock" => Limit - 1 = UnitsAvailable - 1 /\ Limit - 1 \in Nat
  BY RoundFacts, ScenarioFacts
<1> QED BY <1>1, RoundFacts DEF GateSettings

\* Where a round with requests of a dead one begins.
LEMMA HeldStart ==
    ASSUME HeldInit
    PROVE  /\ scenario \in Scenarios /\ ghosts \subseteq Requests
           /\ pc \in [Requests -> GhostPlaces \cup {"idle"}]
           /\ \A r \in Own : pc[r] = "idle"
           /\ observed \in [Requests -> Nat]
           /\ lock \in [Replica -> Requests \cup {NoRequest}]
           /\ Shape = "process_lock" =>
                  \A g \in Requests : pc[g] \in Inside => lock[ReplicaOf(g)] = g
           /\ checks = {} /\ outcome = [r \in Requests |-> "NONE"]
           /\ reply = [r \in Requests |-> 0]
           /\ value = Sold0 /\ rows = {} /\ rowLock = NoRequest /\ inserted = {} /\ inDoubt = {}
<1>1. scenario \in Scenarios /\ GhostsAreAbout
  BY DEF HeldInit
<1>2. ghosts \subseteq Requests
  <2>1. PICK n \in 0 .. MaxGhosts : ghosts = (Concurrency - n + 1) .. Concurrency
    BY <1>1 DEF GhostsAreAbout
  <2>2. n \in 0 .. Concurrency
    BY <2>1, GhostAssumption, BurstAssumption
  <2> QED BY <2>1, <2>2, BurstAssumption DEF Requests
<1>3. PICK where \in [ghosts -> GhostPlaces], read \in [ghosts -> 0 .. Limit - 1] :
          /\ Shape = "process_lock" =>
                 \A g, h \in ghosts : {where[g], where[h]} \subseteq Inside
                                         /\ ReplicaOf(g) = ReplicaOf(h) => g = h
          /\ StartsWith([r \in Requests |-> IF r \in ghosts THEN where[r] ELSE "idle"],
                        [r \in Requests |-> IF r \in ghosts THEN read[r] ELSE 0],
                        [p \in Replica |-> Holder(p, where)])
  BY <1>1 DEF GhostsAreAbout
<1> DEFINE places == [r \in Requests |-> IF r \in ghosts THEN where[r] ELSE "idle"]
           values == [r \in Requests |-> IF r \in ghosts THEN read[r] ELSE 0]
           holders == [p \in Replica |-> Holder(p, where)]
<1>4. /\ places \in [Requests -> GhostPlaces \cup {"idle"}]
      /\ \A r \in Requests : r \notin ghosts => places[r] = "idle"
      /\ \A r \in ghosts : places[r] = where[r]
  BY <1>2, <1>3
<1>5. values \in [Requests -> Nat]
  <2>1. Limit \in Nat
    BY <1>1, ScenarioFacts
  <2> QED BY <1>2, <1>3, <2>1
<1>6. \A p \in Replica : Holder(p, where) \in Requests \cup {NoRequest}
  BY <1>2 DEF Holder
<1>7. holders \in [Replica -> Requests \cup {NoRequest}]
  BY <1>6
<1>8. ASSUME Shape = "process_lock", NEW g \in Requests, places[g] \in Inside
      PROVE  holders[ReplicaOf(g)] = g
  <2>1. ReplicaOf(g) \in Replica
    BY <1>1, ReplicaOfRange
  <2>2. g \in ghosts /\ where[g] \in Inside
    BY <1>4, <1>8 DEF Inside
  <2>3. \A h \in ghosts : where[h] \in Inside /\ ReplicaOf(h) = ReplicaOf(g) => h = g
    BY <1>3, <1>8, <2>2
  <2> DEFINE inside == {h \in ghosts : ReplicaOf(h) = ReplicaOf(g) /\ where[h] \in Inside}
  <2>4. inside = {g}
    BY <2>2, <2>3
  <2>5. Holder(ReplicaOf(g), where) = IF inside # {} THEN CHOOSE h \in inside : TRUE ELSE NoRequest
    BY <1>8 DEF Holder
  <2>6. (CHOOSE h \in {g} : TRUE) = g
    OBVIOUS
  <2> HIDE DEF inside
  <2> QED BY <2>1, <2>4, <2>5, <2>6
<1>9. StartsWith(places, values, holders)
  BY <1>3
<1> HIDE DEF places, values, holders
<1> QED BY <1>1, <1>2, <1>4, <1>5, <1>7, <1>8, <1>9 DEF StartsWith, Own

------------------------------------------------------------------------------
(* Types. *)

LEMMA HeldStartsTyped == HeldInit => HeldTypeOK /\ BatchesAreKnown
<1> SUFFICES ASSUME HeldInit PROVE HeldTypeOK /\ BatchesAreKnown
  OBVIOUS
<1>1. TypeOK
  BY HeldStart, ScenarioFacts, RequestsAreFinite
     DEF TypeOK, Places, GhostPlaces, HoldsConnection, Inside, Outcomes
<1>2. /\ Gate!Armed(GateSettings, InTheWindow, OldWidths) /\ ghosts \subseteq Requests
      /\ InTheWindow \subseteq Requests
  BY HeldStart DEF HeldInit, InTheWindow
<1> DEFINE inside == {p \in InTheWindow : stage[p] # "outside"}
           numbered == {p \in inside : stage[p] # "insert"}
           waiting == {p \in inside : stage[p] \in {"wait", "valve"}}
           before(p) == {q \in numbered : q <= p}
<1>3. expected \in [Requests -> Nat]
  <2>1. expected \in [Requests -> OldWidths \cup {0}]
    BY <1>2 DEF Gate!Armed
  <2>2. OldWidths \cup {0} \subseteq Nat
    BY GhostAssumption
  <2> DEFINE known == OldWidths \cup {0}
  <2>3. expected \in [Requests -> known] /\ known \subseteq Nat
    BY <2>1, <2>2
  <2> HIDE DEF known
  <2> QED BY <2>3
<1>4. arrival_id \in [Requests -> Nat]
  <2>1. arrival_id = [p \in Requests |-> IF p \in numbered THEN Gate!Cardinality(before(p)) ELSE 0]
    BY <1>2 DEF Gate!Armed
  <2>2. \A p \in Requests : Gate!Cardinality(before(p)) \in Nat
    <3> TAKE p \in Requests
    <3>1. before(p) \subseteq Requests
      BY <1>2
    <3> HIDE DEF before
    <3> QED BY <3>1, RequestsAreFinite, FS_Subset, FS_CardinalityType, SameCount
  <2> HIDE DEF before, numbered
  <2> QED BY <2>1, <2>2
<1>5. target \in [Requests -> Nat]
  <2>1. target = [p \in Requests |-> IF p \in waiting THEN expected[p] ELSE 0]
    BY <1>2 DEF Gate!Armed
  <2> HIDE DEF waiting
  <2> QED BY <1>3, <2>1
<1>6. stage \in [Requests -> Gate!Stages] /\ arrivals = {} /\ timed_out = FALSE /\ gate = GateSettings
  BY <1>2 DEF Gate!Armed, Gate!Stages
<1>7. \A r \in Requests : stage[r] # "outside" => expected[r] > 0
  BY <1>2 DEF Gate!Armed
<1>8. gate \in [expected : Nat \ {0}, arm_at : Nat \cup {Gate!Anything}]
  BY <1>6, GateOfTheRound, HeldStart
<1>9. Gate!TypeOK
  BY <1>3, <1>4, <1>5, <1>6, <1>8 DEF Gate!TypeOK
<1>10. BatchesAreKnown
  BY <1>6, <1>7 DEF BatchesAreKnown
<1> QED BY <1>1, <1>2, <1>9, <1>10 DEF HeldTypeOK

\* A step at the gate changes nothing but the place of one party and what it has
\* read, and once in a while the valve.
LEMMA GateStepTyped ==
    ASSUME HeldTypeOK, BatchesAreKnown, NEW r \in Requests, AtTheGate(r) \/ DeadlinePassed(r)
    PROVE  HeldTypeOK' /\ BatchesAreKnown'
<1> USE DEF HeldTypeOK, Gate!TypeOK, Gate!Stages, BatchesAreKnown
<1>1. UNCHANGED <<vars, ghosts, gate>> /\ GateSettings' = GateSettings
  BY DEF AtTheGate, DeadlinePassed, Gate!Hold, Gate!ReadGate, Gate!TakeArrivalId,
     Gate!ArrivalCommits, Gate!Rank, Gate!BatchFull, Gate!OpenValve, Gate!GiveUp, vars,
     GateSettings, Shape
<1>2. TypeOK' /\ ghosts' \subseteq Requests
  BY <1>1 DEF TypeOK, vars, handler, database
<1> DEFINE Goal == /\ gate' = GateSettings
                   /\ stage' \in [Requests -> Gate!Stages]
                   /\ expected' \in [Requests -> Nat] /\ arrival_id' \in [Requests -> Nat]
                   /\ arrivals' \subseteq Requests /\ target' \in [Requests -> Nat]
                   /\ timed_out' \in BOOLEAN
                   /\ \A q \in Requests : stage'[q] \notin {"outside", "through"} => expected'[q] > 0
<1>3. gate.expected \in Nat \ {0}
  OBVIOUS
<1>4. ASSUME Gate!ReadGate(r, observed[r]) PROVE Goal
  BY <1>1, <1>3, <1>4 DEF Gate!ReadGate
<1>5. ASSUME Gate!TakeArrivalId(r) PROVE Goal
  <2> DEFINE numbered == {q \in Requests : arrival_id[q] > 0}
  <2>1. Gate!Cardinality(numbered) \in Nat
    BY SameCount, RequestsAreFinite, FS_Subset, FS_CardinalityType
  <2>2. arrival_id' = [arrival_id EXCEPT ![r] = 1 + Gate!Cardinality(numbered)]
    BY <1>5 DEF Gate!TakeArrivalId
  <2> HIDE DEF numbered
  <2> QED BY <1>1, <1>5, <2>1, <2>2 DEF Gate!TakeArrivalId
<1>6. ASSUME Gate!ArrivalCommits(r) PROVE Goal
  BY <1>1, <1>6 DEF Gate!ArrivalCommits
<1>7. ASSUME Gate!Rank(r) PROVE Goal
  <2> DEFINE batch == (Gate!RankOf(r) + expected[r] - 1) \div expected[r]
  <2>1. stage[r] = "rank" /\ target' = [target EXCEPT ![r] = batch * expected[r]]
    BY <1>7 DEF Gate!Rank
  <2>2. expected[r] \in Nat \ {0}
    BY <2>1
  <2>3. Gate!RankOf(r) \in Nat
    <3> DEFINE first == {q \in arrivals : arrival_id[q] <= arrival_id[r]}
    <3>1. IsFiniteSet(first)
      BY RequestsAreFinite, FS_Subset
    <3> HIDE DEF first
    <3>2. Cardinality(first) \in Nat
      BY <3>1, FS_CardinalityType
    <3> QED BY <3>2, SameCount DEF Gate!RankOf, first
  <2>4. Gate!RankOf(r) + expected[r] - 1 \in Nat
    BY <2>2, <2>3
  <2>5. batch \in Nat
    BY <2>2, <2>4, Division
  <2> HIDE DEF batch
  <2>6. batch * expected[r] \in Nat
    BY <2>2, <2>5
  <2> QED BY <1>1, <1>7, <2>1, <2>6 DEF Gate!Rank
<1>8. ASSUME Gate!BatchFull(r) \/ Gate!OpenValve(r) \/ Gate!GiveUp(r) PROVE Goal
  BY <1>1, <1>8 DEF Gate!BatchFull, Gate!OpenValve, Gate!GiveUp
<1>9. Goal
  BY <1>4, <1>5, <1>6, <1>7, <1>8 DEF AtTheGate, DeadlinePassed, Gate!Hold
<1> QED BY <1>1, <1>2, <1>9

LEMMA NextHeldTyped ==
    HeldTypeOK /\ BatchesAreKnown /\ [HeldNext]_held => HeldTypeOK' /\ BatchesAreKnown'
<1> SUFFICES ASSUME HeldTypeOK, BatchesAreKnown, [HeldNext]_held
             PROVE  HeldTypeOK' /\ BatchesAreKnown'
  OBVIOUS
<1>1. ASSUME UNCHANGED atGate PROVE HeldTypeOK' /\ BatchesAreKnown'
  <2>1. TypeOK' /\ Shape' = Shape /\ scenario' = scenario
    BY HeldIsNext, NextTypeOK, ScenarioIsFixed DEF HeldTypeOK
  <2>2. GateSettings' = GateSettings
    BY <2>1 DEF GateSettings
  <2> QED BY <1>1, <2>1, <2>2 DEF atGate, HeldTypeOK, Gate!TypeOK, BatchesAreKnown
<1>2. CASE UNCHANGED held
  BY <1>1, <1>2 DEF held
<1>3. ASSUME NEW r \in Requests, Burst(r) \/ Released(r) PROVE HeldTypeOK' /\ BatchesAreKnown'
  BY <1>1, <1>3 DEF Burst, Released
<1> QED BY <1>2, <1>3, GateStepTyped DEF HeldNext

\* The burst and the gate keep their types: no batch is empty, no target is
\* computed from a batch size that was never read.
THEOREM HeldTypeCorrect == HeldSpec => []HeldTypeOK
BY HeldStartsTyped, NextHeldTyped, PTL DEF HeldSpec

------------------------------------------------------------------------------
(* What a step of a round means to those who buy. *)

\* Before the check; held between check and act; beyond it, with or without a row;
\* turned away.
Ahead == {"idle", "pool", "instrumentation", "lock", "check"}
Waiting(r) == pc[r] = "window"
Beyond(r) == pc[r] \in {"act", "insert"} \/ r \in inserted \/ r \in rows
Writing(r) == Waiting(r) \/ Beyond(r)
Turned(r) == outcome[r] = "REFUSED" \/ reply[r] = 409

SameFor(q) ==
    /\ pc'[q] \in Ahead <=> pc[q] \in Ahead
    /\ Waiting(q)' <=> Waiting(q)
    /\ Beyond(q)' <=> Beyond(q)
    /\ Turned(q)' <=> Turned(q)
    /\ observed'[q] = observed[q]

Enters(r) ==
    /\ pc[r] = "check" /\ value < Limit
    /\ Waiting(r)' /\ ~Beyond(r)' /\ ~Turned(r)' /\ observed'[r] = value
    /\ \A q \in Requests \ {r} : SameFor(q)

TurnsAway(r) ==
    /\ pc[r] = "check" /\ value >= Limit
    /\ pc'[r] \notin Ahead /\ ~Waiting(r)' /\ ~Beyond(r)' /\ Turned(r)'
    /\ \A q \in Requests \ {r} : SameFor(q)

Passes(r) ==
    /\ Waiting(r) /\ LeaveWindow(r)
    /\ pc'[r] \notin Ahead /\ ~Waiting(r)' /\ Beyond(r)' /\ ~Turned(r)'
    /\ observed'[r] = observed[r]
    /\ \A q \in Requests \ {r} : SameFor(q)

\* Unless somebody fails, a request is in exactly one of these places.
LEMMA OnePlace ==
    ASSUME Core, Served, Failed = {}, NEW r \in Requests
    PROVE  /\ pc[r] \in Ahead => ~Writing(r) /\ ~Turned(r)
           /\ Waiting(r) => ~Beyond(r) /\ ~Turned(r)
           /\ Beyond(r) => ~Turned(r)
           /\ pc[r] = "done" => reply[r] \in {201, 409} /\ (~Turned(r) => r \in rows)
<1> USE DEF Core, TypeOK, Outcomes, Places, HoldsConnection, Inside, Stages, RowOwners, OneWriter,
            Committed, Deciding, Served, Failed, Ahead, Waiting, Beyond, Writing, Turned
<1>1. pc[r] \in Ahead => ~Writing(r) /\ ~Turned(r)
  OBVIOUS
<1>2. Waiting(r) => ~Beyond(r) /\ ~Turned(r)
  OBVIOUS
<1>3. Beyond(r) => ~Turned(r)
  OBVIOUS
<1>4. pc[r] = "done" => reply[r] \in {201, 409} /\ (~Turned(r) => r \in rows)
  OBVIOUS
<1> QED BY <1>1, <1>2, <1>3, <1>4

LEMMA HeldEffect ==
    ASSUME Core, Served, Failed' = {}, NEW r \in Requests, HeldStep(r)
    PROVE  /\ Failed = {}
           /\ \/ \A q \in Requests : SameFor(q)
              \/ Enters(r) \/ TurnsAway(r) \/ Passes(r)
<1> USE DEF Core, TypeOK, database, handler
<1> DEFINE Same == \A q \in Requests : SameFor(q)
           Goal == Failed = {} /\ (Same \/ Enters(r) \/ TurnsAway(r) \/ Passes(r))
<1>a. ~scenario.backstop
  BY RoundFacts
<1> USE DEF SameFor, Ahead, Waiting, Beyond, Turned
<1>b. ASSUME UNCHANGED reply PROVE Failed = {}
  BY <1>b DEF Failed
<1>c. ASSUME NEW place, pc' = [pc EXCEPT ![r] = place],
             UNCHANGED <<observed, outcome, reply, rows, inserted>>,
             place \in Ahead <=> pc[r] \in Ahead, pc[r] # "window", place # "window",
             place \in {"act", "insert"} <=> pc[r] \in {"act", "insert"}
      PROVE  Goal
  <2>1. Same
    BY <1>c
  <2> QED BY <1>b, <1>c, <2>1
<1>1. ASSUME Send(r) \/ AcquireConnection(r) \/ AcquireInstrumentation(r) \/ AcquireProcessLock(r)
      PROVE  Goal
  <2> HIDE DEF Goal
  <2> QED BY <1>c, <1>1 DEF Send, AcquireConnection, AcquireInstrumentation, AcquireProcessLock
<1>2. ASSUME Check(r) PROVE Goal
  <2>1. Cardinality(rows) \in Nat /\ (Shape = "redemption" => Cardinality(rows) = value)
    BY ScenarioFacts, RowsAreFinite DEF CounterMatchesRows
  <2>2. pc[r] = "check" /\ observed' = [observed EXCEPT ![r] = value]
        /\ UNCHANGED <<reply, value, rows, inserted>>
    <3>1. (IF Shape = "redemption" THEN Cardinality(rows) ELSE value) = value
      BY <2>1
    <3> QED BY <1>2, <3>1 DEF Check
  <2>3. Failed = {}
    BY <1>b, <2>2
  <2>4. r \notin rows /\ r \notin inserted /\ outcome[r] = "NONE" /\ reply[r] # 409
    BY <2>2 DEF Stages, RowOwners, Deciding, Committed
  <2>5. CASE value >= Limit
    <3>1. outcome' = [outcome EXCEPT ![r] = "REFUSED"] /\ pc' = [pc EXCEPT ![r] = Returned]
      BY <1>2, <2>1, <2>5 DEF Check
    <3>2. \A q \in Requests \ {r} : SameFor(q)
      BY <2>2, <3>1
    <3>3. pc'[r] \notin Ahead /\ ~Waiting(r)' /\ ~Beyond(r)' /\ Turned(r)'
      BY <2>2, <2>4, <3>1, ReturnedTo
    <3>4. TurnsAway(r)
      BY <2>2, <2>5, <3>2, <3>3 DEF TurnsAway
    <3> QED BY <2>3, <3>4
  <2>6. CASE ~(value >= Limit)
    <3>1. outcome' = outcome /\ pc' = [pc EXCEPT ![r] = "window"] /\ value < Limit
      BY <1>2, <2>1, <2>6, ScenarioFacts DEF Check
    <3>2. \A q \in Requests \ {r} : SameFor(q)
      BY <2>2, <3>1
    <3>3. Waiting(r)' /\ ~Beyond(r)' /\ ~Turned(r)' /\ observed'[r] = value
      BY <2>2, <2>4, <3>1
    <3>4. Enters(r)
      BY <2>2, <3>1, <3>2, <3>3 DEF Enters
    <3> QED BY <2>3, <3>4
  <2> QED BY <2>5, <2>6
<1>3. ASSUME LeaveWindow(r) PROVE Goal
  <2>1. pc[r] = "window" /\ pc' = [pc EXCEPT ![r] = "act"]
        /\ UNCHANGED <<observed, outcome, reply, rows, inserted>>
    BY <1>3 DEF LeaveWindow
  <2>2. outcome[r] = "NONE" /\ reply[r] = 0
    BY <2>1 DEF Stages, Deciding
  <2>3. \A q \in Requests \ {r} : SameFor(q)
    BY <2>1
  <2>4. pc'[r] \notin Ahead /\ ~Waiting(r)' /\ Beyond(r)' /\ ~Turned(r)' /\ observed'[r] = observed[r]
    BY <2>1, <2>2
  <2>5. Passes(r)
    BY <1>3, <2>1, <2>3, <2>4 DEF Passes
  <2> QED BY <1>b, <2>1, <2>5
<1>4. ASSUME Act(r) PROVE Goal
  <2>1. /\ pc[r] = "act" /\ pc' = [pc EXCEPT ![r] = "insert"]
        /\ UNCHANGED <<observed, outcome, reply, rows, inserted>>
    BY <1>4 DEF Act
  <2> HIDE DEF Goal
  <2> QED BY <1>c, <2>1
<1>5. ASSUME InsertRow(r) PROVE Goal
  <2>1. pc[r] = "insert" /\ inserted' = inserted \cup {r}
        /\ outcome' = [outcome EXCEPT ![r] = "CONFIRMED"]
        /\ pc' = [pc EXCEPT ![r] = IF Shape = "single_transaction" THEN "record" ELSE "commit"]
        /\ UNCHANGED <<observed, reply, rows>>
    BY <1>5 DEF InsertRow
  <2>2. outcome[r] = "NONE" /\ reply[r] = 0
    BY <2>1 DEF Stages, Deciding
  <2>3. Same
    BY <2>1, <2>2
  <2> QED BY <1>b, <2>1, <2>3
<1>6. ASSUME RecordAct(r) PROVE Goal
  <2>1. pc[r] = "record" /\ pc' = [pc EXCEPT ![r] = Returned]
        /\ UNCHANGED <<observed, outcome, reply, rows, inserted>>
    BY <1>6 DEF RecordAct
  <2>2. Returned \in {"unlock", "commit", "ended"}
    BY ReturnedTo
  <2> HIDE DEF Goal
  <2> QED BY <1>c, <2>1, <2>2
<1>7. ASSUME Commit(r) PROVE Goal
  <2>1. pc[r] = "commit" /\ UNCHANGED <<observed, outcome, reply>>
        /\ pc' = [pc EXCEPT ![r] = IF Shape = "single_transaction" THEN "ended" ELSE "record"]
    BY <1>7 DEF Commit
  <2>2. inserted' = inserted \ {r} /\ rows' = rows \cup (inserted \cap {r})
    BY <1>7 DEF Commit, ApplyCommit, EndTransaction
  <2>3. Same
    BY <2>1, <2>2
  <2> QED BY <1>b, <2>1, <2>3
<1>8. ASSUME ReleaseProcessLock(r) \/ ReleaseConnections(r) PROVE Goal
  <2> HIDE DEF Goal
  <2> QED BY <1>c, <1>8 DEF ReleaseProcessLock, ReleaseConnections
<1>9. ASSUME Finish(r) PROVE Goal
  <2>1. pc[r] = "finish" /\ pc' = [pc EXCEPT ![r] = "done"]
        /\ reply' = [reply EXCEPT ![r] = StatusOf[outcome[r]]]
        /\ outcome' = [outcome EXCEPT ![r] = "NONE"]
        /\ UNCHANGED <<observed, rows, inserted>>
    BY <1>9 DEF Finish
  <2>2. reply[r] = 0 /\ outcome[r] \in {"CONFIRMED", "REFUSED"}
    BY <2>1 DEF Stages, Deciding, Served, Outcomes
  <2>3. StatusOf[outcome[r]] \in {201, 409} /\ (StatusOf[outcome[r]] = 409 <=> outcome[r] = "REFUSED")
    BY <2>2 DEF StatusOf
  <2>4. Failed = {}
    BY <2>1, <2>2 DEF Failed
  <2>5. Turned(r)' <=> Turned(r)
    BY <2>1, <2>2, <2>3
  <2>6. Same
    BY <2>1, <2>5
  <2> QED BY <2>4, <2>6
<1>10. ~BackstopViolation(r)
  BY <1>a DEF BackstopViolation, CheckViolated, UniqueViolated
<1>11. ~Failure(r)
  <2> SUFFICES ASSUME Failure(r) PROVE r \in Failed'
    OBVIOUS
  <2> QED BY DEF Failure, PoolTimeout, ConnectionLost, InstrumentationLost, Failed
<1>12. ~Backend(r)
  <2> SUFFICES ASSUME Backend(r) PROVE r \in Failed'
    OBVIOUS
  <2>1. Abandoned(r) /\ reply' = reply
    BY DEF Backend, ServerRollback, ServerCommit
  <2> QED BY <2>1 DEF Abandoned, Stages, Failed
<1> HIDE DEF Goal
<1>13. Goal
  BY <1>1, <1>2, <1>3, <1>4, <1>5, <1>6, <1>7, <1>8, <1>9, <1>10, <1>11, <1>12
     DEF HeldStep, Step
<1> QED BY <1>13 DEF Goal

------------------------------------------------------------------------------
(* What holds of every round, requests of a dead one included. *)

\* Behind a process lock no more writes are to come than there are processes, and
\* with the value they pass the limit by less than that.
LockIsNarrow ==
    Shape = "process_lock" => Cardinality(Pending) <= scenario.replicas + Cardinality(Failed)
LockSumBounded ==
    Shape = "process_lock" =>
        value + Cardinality(Pending) <= Limit - 1 + scenario.replicas + Cardinality(Failed)

\* Of the requests of this burst, only those of the waves it takes to sell what
\* there is ever enter the window.
Needed(r) == WaveOf(r) < WavesNeeded
WritersAreNeeded ==
    Failed = {} /\ Shape # "process_lock" => \A r \in Own : Writing(r) => Needed(r)

LEMMA HeldStartsCore == HeldInit => Core /\ LockHeld /\ HeldWave /\ Served
<1> SUFFICES ASSUME HeldInit PROVE Core /\ LockHeld /\ HeldWave /\ Served
  OBVIOUS
<1>1. TypeOK
  BY HeldStartsTyped DEF HeldTypeOK
<1>2. CounterMatchesRows /\ BackstopHolds
  <2>1. value = Sold0 /\ Sold0 \in Nat /\ Sold0 <= Limit /\ rows = {}
    BY HeldStart, ScenarioFacts
  <2>2. Cardinality(rows) = 0
    BY <2>1, FS_EmptySet
  <2>3. value = Sold0 + Cardinality(rows)
    BY <2>1, <2>2
  <2> QED BY <2>1, <2>3 DEF CounterMatchesRows, BackstopHolds
<1>3. OneWriter /\ Stages /\ RowOwners /\ RefusalsAreFinal /\ PendingFits
  BY HeldStart, RequestsAreFinite
     DEF OneWriter, Stages, RowOwners, RefusalsAreFinal, PendingFits, Committed, Deciding,
         GhostPlaces
<1>4. LockHeld
  BY HeldStart DEF LockHeld, Inside
<1>5. HeldWave /\ Served
  BY HeldStart DEF HeldWave, Served, Own
<1> QED BY <1>1, <1>2, <1>3, <1>4, <1>5 DEF Core

LEMMA GhostsStay == [HeldNext]_held => ghosts' = ghosts
BY DEF HeldNext, held, atGate, Burst, AtTheGate, DeadlinePassed, Released

LEMMA NextHeldWave == TypeOK /\ HeldWave /\ [HeldNext]_held => HeldWave'
<1> SUFFICES ASSUME TypeOK, HeldWave, [HeldNext]_held, NEW q \in Requests, NEW r \in Own',
                    pc'[r] # "idle", WaveOf(q)' < WaveOf(r)'
             PROVE  pc'[q] = "done"
  BY DEF HeldWave
<1>1. [Next]_vars /\ r \in Own /\ r \in Requests
  BY HeldIsNext, GhostsStay DEF Own
<1>2. WaveOf(q) < WaveOf(r)
  BY <1>1, ScenarioIsFixed DEF WaveOf
<1>3. pc[q] = "done"
  BY <1>1, <1>2, StartAndEnd DEF HeldWave, MaySend, WaveOf
<1> QED BY <1>1, <1>3, StartAndEnd

LEMMA NextServed == Core /\ Served /\ [HeldNext]_held => Served'
<1> SUFFICES ASSUME Core, Served, [HeldNext]_held PROVE Served'
  OBVIOUS
<1> USE DEF Core, TypeOK, Served, Outcomes, database, handler
<1>a. ~scenario.backstop
  BY RoundFacts
<1>1. CASE UNCHANGED vars
  BY <1>1 DEF vars
<1>2. ASSUME NEW r \in Requests, UNCHANGED <<outcome, reply>> PROVE Served'
  BY <1>2
<1>3. ASSUME NEW r \in Requests, Check(r) PROVE Served'
  <2>1. reply' = reply /\ outcome' \in {outcome, [outcome EXCEPT ![r] = "REFUSED"]}
    BY <1>3 DEF Check
  <2> QED BY <2>1
<1>4. ASSUME NEW r \in Requests, InsertRow(r) PROVE Served'
  BY <1>4 DEF InsertRow
<1>5. ASSUME NEW r \in Requests, NEW status \in {201, 409, 503}, Answer(r, status) PROVE Served'
  BY <1>5
<1>6. ASSUME NEW r \in Requests, Finish(r) PROVE Served'
  <2>1. outcome[r] \in {"CONFIRMED", "REFUSED", "NONE"}
    OBVIOUS
  <2>2. StatusOf[outcome[r]] \in {201, 409, 503}
    BY <2>1 DEF StatusOf
  <2> QED BY <1>5, <1>6, <2>2 DEF Finish
<1>7. ASSUME NEW r \in Requests, Failure(r) PROVE Served'
  BY <1>5, <1>7 DEF Failure, PoolTimeout, ConnectionLost, InstrumentationLost
<1>8. ASSUME NEW r \in Requests, Backend(r) PROVE Served'
  BY <1>2, <1>8 DEF Backend, ServerRollback, ServerCommit
<1>9. ASSUME NEW r \in Requests,
             \/ Send(r) \/ LeaveWindow(r) \/ AcquireConnection(r) \/ AcquireInstrumentation(r)
             \/ AcquireProcessLock(r) \/ Act(r) \/ RecordAct(r) \/ Commit(r)
             \/ ReleaseProcessLock(r) \/ ReleaseConnections(r)
      PROVE  Served'
  BY <1>2, <1>9 DEF Send, LeaveWindow, AcquireConnection, AcquireInstrumentation,
     AcquireProcessLock, Act, RecordAct, Commit, ReleaseProcessLock, ReleaseConnections
<1>10. ASSUME NEW r \in Requests PROVE ~BackstopViolation(r)
  BY <1>a DEF BackstopViolation, CheckViolated, UniqueViolated
<1> QED
  BY <1>1, <1>3, <1>4, <1>6, <1>7, <1>8, <1>9, <1>10, HeldSteps DEF HeldStep, Step

------------------------------------------------------------------------------
(* The process lock, from above. *)

LEMMA PendingBehindLock == Core /\ LockHeld => LockIsNarrow
<1> SUFFICES ASSUME Core, LockHeld, Shape = "process_lock"
             PROVE  Cardinality(Pending) <= scenario.replicas + Cardinality(Failed)
  BY DEF LockIsNarrow
<1>1. scenario.replicas \in Nat
  BY WidthFacts DEF Core, TypeOK
<1>2. Cardinality({r \in Requests : pc[r] \in Inside}) <= scenario.replicas
  BY InsideIsOnePerProcess DEF Core
<1> QED BY <1>1, <1>2, PendingWithin

LEMMA HeldStartsBounded == HeldInit => LockSumBounded
<1> SUFFICES ASSUME HeldInit, Shape = "process_lock"
             PROVE  value + Cardinality(Pending)
                        <= Limit - 1 + scenario.replicas + Cardinality(Failed)
  BY DEF LockSumBounded
<1>1. Core /\ LockHeld /\ scenario \in Scenarios
  BY HeldStartsCore, HeldStart
<1>2. value = Limit - 1 /\ Limit \in Nat /\ scenario.replicas \in Nat
  BY <1>1, HeldStart, RoundFacts, ScenarioFacts
<1>3. Cardinality(Pending) <= scenario.replicas + Cardinality(Failed)
  BY <1>1, PendingBehindLock DEF LockIsNarrow
<1> QED BY <1>2, <1>3, CountsAreNatural

LEMMA NextLockSumBounded ==
    Core /\ Core' /\ LockIsNarrow' /\ LockSumBounded /\ [Next]_vars => LockSumBounded'
<1> SUFFICES ASSUME Core, Core', LockIsNarrow', LockSumBounded, [Next]_vars PROVE LockSumBounded'
  OBVIOUS
<1>1. UNCHANGED <<scenario, Shape, Limit>> /\ scenario.replicas \in Nat \ {0}
  BY ScenarioIsFixed, WidthFacts DEF Core, TypeOK
<1> QED BY <1>1, SumCannotGrow DEF LockSumBounded, LockIsNarrow

------------------------------------------------------------------------------
(* Waves, and how many of them are needed. *)

UpTo(k) == {q \in Requests : WaveOf(q) < k}

\* Multiplication is monotone.
LEMMA Multiples ==
    ASSUME NEW a \in Nat, NEW b \in Nat, NEW w \in Nat \ {0}, a < b
    PROVE  a * w + w <= b * w
<1> DEFINE d == b - a - 1
<1>1. d \in Nat /\ b = a + 1 + d
  OBVIOUS
<1>2. d * w \in Nat
  BY <1>1
<1> HIDE DEF d
<1>3. (a + 1 + d) * w = a * w + w + d * w
  BY <1>1
<1> QED BY <1>1, <1>2, <1>3

\* The quotient is the only one of its kind.
LEMMA Quotient ==
    ASSUME NEW a \in Nat, NEW m \in Nat, NEW w \in Nat \ {0}, m * w <= a, a < m * w + w
    PROVE  a \div w = m
<1> DEFINE d == a \div w
<1>1. d \in Nat /\ d * w <= a /\ a < d * w + w
  BY Division
<1> HIDE DEF d
<1>2. ~(d < m)
  <2> SUFFICES ASSUME d < m PROVE FALSE
    OBVIOUS
  <2>1. d * w + w <= m * w
    BY <1>1, Multiples
  <2> QED BY <1>1, <2>1
<1>3. ~(m < d)
  <2> SUFFICES ASSUME m < d PROVE FALSE
    OBVIOUS
  <2>1. m * w + w <= d * w
    BY <1>1, Multiples
  <2> QED BY <1>1, <2>1
<1>4. d = m
  BY <1>1, <1>2, <1>3
<1> QED BY <1>4 DEF d

LEMMA WaveBelow ==
    ASSUME scenario \in Scenarios, NEW q \in Requests, NEW k \in Nat
    PROVE  /\ WaveOf(q) \in Nat
           /\ WaveOf(q) < k <=> q <= k * scenario.wave
<1>1. q - 1 \in Nat /\ q \in Nat /\ scenario.wave \in Nat \ {0}
  BY WidthFacts, BurstAssumption DEF Requests
<1> DEFINE m == WaveOf(q)
           w == scenario.wave
<1>2. m \in Nat /\ m * w <= q - 1 /\ q - 1 < m * w + w
  BY <1>1, Division DEF WaveOf
<1> HIDE DEF m, w
<1>3. w \in Nat \ {0}
  BY <1>1 DEF w
<1>4. m < k => q <= k * w
  <2> SUFFICES ASSUME m < k PROVE q <= k * w
    OBVIOUS
  <2>1. m * w + w <= k * w
    BY <1>2, <1>3, Multiples
  <2> QED BY <1>1, <1>2, <1>3, <2>1
<1>5. ~(m < k) => ~(q <= k * w)
  <2> SUFFICES ASSUME k <= m PROVE k * w < q
    BY <1>1, <1>2, <1>3
  <2>1. k * w <= m * w
    <3>1. CASE k = m
      BY <1>2, <1>3, <3>1
    <3>2. CASE k < m
      <4>1. k * w + w <= m * w
        BY <1>2, <1>3, <3>2, Multiples
      <4> QED BY <1>2, <1>3, <4>1
    <3> QED BY <1>2, <3>1, <3>2
  <2> QED BY <1>1, <1>2, <1>3, <2>1
<1> QED BY <1>2, <1>4, <1>5 DEF m, w

\* The requests of the first k waves.
LEMMA UpToSize ==
    ASSUME scenario \in Scenarios, NEW k \in Nat
    PROVE  /\ IsFiniteSet(UpTo(k))
           /\ Cardinality(UpTo(k)) = IF k * scenario.wave < Concurrency
                                     THEN k * scenario.wave ELSE Concurrency
           /\ Cardinality(UpTo(k)) \in Nat /\ k * scenario.wave \in Nat
<1> DEFINE last == IF k * scenario.wave < Concurrency THEN k * scenario.wave ELSE Concurrency
<1>1. k * scenario.wave \in Nat /\ Concurrency \in Nat
  BY WidthFacts, BurstAssumption
<1>2. last \in Nat /\ \A q \in Requests : q <= k * scenario.wave <=> q <= last
  BY <1>1 DEF Requests
<1>3. UpTo(k) = 1 .. last
  <2>1. UpTo(k) = {q \in Requests : q <= k * scenario.wave}
    BY WaveBelow DEF UpTo
  <2>2. last <= Concurrency
    BY <1>1
  <2> HIDE DEF last
  <2> QED BY <1>1, <1>2, <2>1, <2>2 DEF Requests
<1> HIDE DEF last
<1>4. IsFiniteSet(1 .. last) /\ Cardinality(1 .. last) = IF 1 > last THEN 0 ELSE last - 1 + 1
  BY <1>2, FS_Interval
<1>5. Cardinality(1 .. last) = last
  BY <1>2, <1>4
<1> QED BY <1>1, <1>2, <1>3, <1>4, <1>5 DEF last

\* As many waves as are needed sell what there is, and no fewer do.
LEMMA NeededFacts ==
    ASSUME scenario \in Scenarios
    PROVE  /\ WavesNeeded \in Nat
           /\ Limit <= Sold0 + WavesNeeded * scenario.wave
           /\ \A k \in Nat : k < WavesNeeded => Sold0 + k * scenario.wave < Limit
           /\ Buyers = Cardinality(UpTo(WavesNeeded))
<1> DEFINE w == scenario.wave
           missing == Limit - Sold0 + w - 1
<1>1. w \in Nat \ {0} /\ Limit \in Nat /\ Sold0 \in Nat /\ Sold0 <= Limit
  BY WidthFacts, ScenarioFacts
<1>2. missing \in Nat
  BY <1>1
<1>3. WavesNeeded = missing \div w
  BY DEF WavesNeeded
<1> HIDE DEF w
<1>4. WavesNeeded \in Nat /\ WavesNeeded * w <= missing /\ missing < WavesNeeded * w + w
  BY <1>1, <1>2, <1>3, Division
<1>5. Limit <= Sold0 + WavesNeeded * w
  BY <1>1, <1>4
<1>6. ASSUME NEW k \in Nat, k < WavesNeeded PROVE Sold0 + k * w < Limit
  <2>1. k * w + w <= WavesNeeded * w
    BY <1>1, <1>4, <1>6, Multiples
  <2> QED BY <1>1, <1>4, <2>1
<1>7. Buyers = Cardinality(UpTo(WavesNeeded))
  BY <1>4, UpToSize DEF Buyers
<1> QED BY <1>4, <1>5, <1>6, <1>7 DEF w

------------------------------------------------------------------------------
(* Without a process lock, from above. *)

\* What holds of every round, whatever fails and whoever is left of a dead one.
Ground == HeldTypeOK /\ Core /\ Served /\ HeldWave /\ LockHeld

\* The round stays what it was.
LEMMA RoundIsFixed ==
    [HeldNext]_held => /\ UNCHANGED <<scenario, Shape, Limit, Sold0, WavesNeeded, ghosts, Own>>
                       /\ \A q \in Requests : /\ UNCHANGED WaveOf(q)
                                              /\ Needed(q)' <=> Needed(q)
<1> SUFFICES ASSUME [HeldNext]_held
             PROVE  /\ UNCHANGED <<scenario, Shape, Limit, Sold0, WavesNeeded, ghosts, Own>>
                    /\ \A q \in Requests : /\ UNCHANGED WaveOf(q)
                                           /\ Needed(q)' <=> Needed(q)
  OBVIOUS
<1>1. UNCHANGED <<scenario, Shape, Limit, Sold0, ghosts, Own>>
  BY HeldIsNext, ScenarioIsFixed, GhostsStay DEF Own
<1>2. WavesNeeded' = WavesNeeded /\ \A q \in Requests : WaveOf(q)' = WaveOf(q)
  BY <1>1 DEF WavesNeeded, WaveOf
<1> QED BY <1>1, <1>2 DEF Needed

\* What the value is made of.
LEMMA ValueIsCounted ==
    ASSUME Core
    PROVE  /\ value = Sold0 + Cardinality(rows) /\ rows \subseteq Requests
           /\ IsFiniteSet(rows) /\ Cardinality(rows) \in Nat
           /\ value \in Nat /\ Sold0 \in Nat /\ Limit \in Nat
BY RowsAreFinite, ScenarioFacts DEF Core, TypeOK, CounterMatchesRows

\* Whoever is done while the limit is not met has bought.
LEMMA AnsweredHasBought ==
    ASSUME Core, Served, Failed = {}, NEW q \in Requests, pc[q] = "done", ~Turned(q)
    PROVE  q \in rows
BY OnePlace

LEMMA NobodyIsTurnedAwayEarly ==
    ASSUME Core, value < Limit, NEW q \in Requests
    PROVE  ~Turned(q)
BY ValueIsCounted DEF Core, RefusalsAreFinal, Turned

\* Once the waves that are needed have been answered, the limit is met.
LEMMA EntersOnlyIfNeeded ==
    ASSUME Ground, Failed = {}, NEW r \in Own, pc[r] = "check", value < Limit
    PROVE  Needed(r)
<1> SUFFICES ASSUME ~Needed(r) PROVE FALSE
  OBVIOUS
<1> DEFINE n == WavesNeeded
<1>1. scenario \in Scenarios /\ r \in Requests
  BY DEF Ground, Core, TypeOK, Own
<1>2. n \in Nat /\ Limit <= Sold0 + n * scenario.wave /\ n * scenario.wave \in Nat
  BY <1>1, NeededFacts, UpToSize
<1>3. WaveOf(r) \in Nat /\ ~(WaveOf(r) < n) /\ ~(r <= n * scenario.wave)
  BY <1>1, <1>2, WaveBelow DEF Needed
<1>4. UpTo(n) \subseteq rows
  <2> SUFFICES ASSUME NEW q \in UpTo(n) PROVE q \in rows
    OBVIOUS
  <2>1. q \in Requests /\ WaveOf(q) \in Nat /\ WaveOf(q) < WaveOf(r)
    BY <1>1, <1>2, <1>3, WaveBelow DEF UpTo
  <2>2. pc[q] = "done"
    BY <2>1 DEF Ground, HeldWave
  <2> QED BY <2>1, <2>2, AnsweredHasBought, NobodyIsTurnedAwayEarly DEF Ground
<1>5. Cardinality(UpTo(n)) = n * scenario.wave
  <2>1. r <= Concurrency /\ r \in Nat /\ Concurrency \in Nat
    BY <1>1, BurstAssumption DEF Requests
  <2>2. n * scenario.wave < Concurrency
    BY <1>2, <1>3, <2>1
  <2> QED BY <1>1, <1>2, <2>2, UpToSize
<1>6. Cardinality(UpTo(n)) <= Cardinality(rows)
  BY <1>4, ValueIsCounted, FS_Subset DEF Ground
<1> QED BY <1>2, <1>5, <1>6, ValueIsCounted DEF Ground

LEMMA NextWritersAreNeeded ==
    Ground /\ WritersAreNeeded /\ [HeldNext]_held => WritersAreNeeded'
<1> SUFFICES ASSUME Ground, WritersAreNeeded, [HeldNext]_held, Failed' = {},
                    Shape # "process_lock", NEW r \in Own, Writing(r)'
             PROVE  Needed(r)
  BY RoundIsFixed DEF WritersAreNeeded, Own
<1>1. r \in Requests /\ Core /\ Served
  BY DEF Own, Ground
<1>2. CASE UNCHANGED vars
  <2>1. Failed = {} /\ Writing(r)
    BY <1>2 DEF vars, handler, database, Failed, Writing, Waiting, Beyond
  <2> QED BY <2>1 DEF WritersAreNeeded
<1>3. ASSUME NEW p \in Requests, HeldStep(p) PROVE Needed(r)
  <2>1. Failed = {} /\ (\/ \A q \in Requests : SameFor(q)
                        \/ Enters(p) \/ TurnsAway(p) \/ Passes(p))
    BY <1>1, <1>3, HeldEffect
  <2>2. CASE Writing(r)
    BY <2>1, <2>2 DEF WritersAreNeeded
  <2>3. CASE ~Writing(r)
    <3>1. ~SameFor(r)
      BY <2>3 DEF SameFor, Writing
    <3>2. r = p /\ Enters(r)
      BY <1>1, <2>1, <2>3, <3>1 DEF Enters, TurnsAway, Passes, Writing
    <3> QED BY <2>1, <3>2, EntersOnlyIfNeeded DEF Enters
  <2> QED BY <2>2, <2>3
<1> QED BY <1>2, <1>3, HeldSteps

\* Nobody buys who is not in a wave that is needed or left of a dead round; behind
\* a process lock the value is bounded already.
LEMMA DamageIsBounded ==
    ASSUME Ground, WritersAreNeeded, LockSumBounded, Failed = {}
    PROVE  value <= PredictedValue + Cardinality(ghosts)
<1>1. scenario \in Scenarios /\ ghosts \subseteq Requests
  BY DEF Ground, HeldTypeOK, Core, TypeOK
<1>2. IsFiniteSet(ghosts) /\ Cardinality(ghosts) \in Nat
  BY <1>1, RequestsAreFinite, FS_Subset, FS_CardinalityType
<1>3. CASE Shape = "process_lock"
  <2>1. Cardinality(Failed) = 0 /\ Cardinality(Pending) \in Nat
    BY CountsAreNatural, FS_EmptySet
  <2>2. value + Cardinality(Pending) <= Limit - 1 + scenario.replicas
    BY <1>1, <1>3, <2>1, RoundFacts, ValueIsCounted DEF LockSumBounded, Ground
  <2>3. scenario.replicas \in Nat /\ value \in Nat /\ Limit \in Nat
    BY <1>1, RoundFacts, ValueIsCounted DEF Ground
  <2> QED BY <1>2, <1>3, <2>1, <2>2, <2>3 DEF PredictedValue
<1>4. CASE Shape # "process_lock"
  <2>1. IsFiniteSet(UpTo(WavesNeeded)) /\ Cardinality(UpTo(WavesNeeded)) \in Nat
        /\ Buyers = Cardinality(UpTo(WavesNeeded))
    BY <1>1, UpToSize, NeededFacts
  <2>2. rows \subseteq UpTo(WavesNeeded) \cup ghosts
    <3> SUFFICES ASSUME NEW r \in rows, r \notin ghosts PROVE r \in UpTo(WavesNeeded)
      OBVIOUS
    <3>1. r \in Own /\ r \in Requests /\ Writing(r)
      BY ValueIsCounted DEF Ground, Own, Writing, Beyond
    <3> QED BY <1>4, <3>1 DEF WritersAreNeeded, Needed, UpTo
  <2> DEFINE some == UpTo(WavesNeeded)
             both == some \cup ghosts
  <2>3. /\ IsFiniteSet(both) /\ Cardinality(both) \in Nat
        /\ Cardinality(both) <= Cardinality(some) + Cardinality(ghosts)
    <3>1. IsFiniteSet(some) /\ Cardinality(some) \in Nat
      BY <2>1
    <3> HIDE DEF some
    <3>2. IsFiniteSet(both)
          /\ Cardinality(both)
                 = Cardinality(some) + Cardinality(ghosts) - Cardinality(some \cap ghosts)
      BY <1>2, <3>1, FS_Union
    <3>3. Cardinality(some \cap ghosts) \in Nat
      BY <1>2, FS_Subset, FS_CardinalityType
    <3>4. Cardinality(both) \in Nat
      BY <3>2, FS_CardinalityType
    <3> QED BY <1>2, <3>1, <3>2, <3>3, <3>4
  <2> HIDE DEF some, both
  <2>4. Cardinality(rows) <= Cardinality(both)
    BY <2>2, <2>3, FS_Subset DEF both, some
  <2>5. value = Sold0 + Cardinality(rows) /\ Sold0 \in Nat /\ Cardinality(rows) \in Nat
    BY ValueIsCounted DEF Ground
  <2> QED BY <1>2, <1>4, <2>1, <2>3, <2>4, <2>5 DEF PredictedValue, some
<1> QED BY <1>3, <1>4

------------------------------------------------------------------------------
(* A round nobody disturbs, from below. *)

Alone == ghosts = {} /\ Failed = {} /\ ~timed_out

\* The place in hold_window_open tells who has arrived, who has an id, and that all
\* of them are writers; nobody writes without having passed the gate.
Arrived == {"rank", "wait", "valve", "through"}
Staged ==
    \A r \in Requests :
        /\ r \in arrivals <=> stage[r] \in Arrived
        /\ arrival_id[r] > 0 <=> stage[r] \notin {"outside", "insert"}
        /\ stage[r] # "outside" => expected[r] = gate.expected /\ Writing(r)
        /\ stage[r] \notin {"outside", "through"} => Waiting(r)
        /\ Beyond(r) => stage[r] = "through"

\* Behind a process lock every writer has read the value the gate is armed for.
ReadsTheLast ==
    Shape = "process_lock" => \A r \in Requests : Writing(r) => observed[r] = Limit - 1

\* Ids are given in the order of the waves.
Numbered == {q \in Requests : arrival_id[q] > 0}
IdsGrow ==
    Shape # "process_lock" =>
        /\ \A q \in Requests : arrival_id[q] <= Cardinality(Numbered)
        /\ \A q, r \in Numbered : WaveOf(q) < WaveOf(r) => arrival_id[q] <= arrival_id[r]

\* A wave that is needed buys as one: nobody of it is turned away, and nobody of it
\* passes before all of it has arrived.
WavesAreWhole ==
    Shape # "process_lock" => \A r \in Requests :
        /\ Turned(r) => ~Needed(r)
        /\ stage[r] = "wait" => target[r] = (WaveOf(r) + 1) * scenario.wave
        /\ stage[r] = "through" => UpTo(WaveOf(r) + 1) \subseteq arrivals

\* Behind a process lock nobody passes before one request of each process arrived.
ProcessesAreWhole ==
    Shape = "process_lock" => \A r \in Requests :
        /\ stage[r] = "wait" => target[r] >= scenario.replicas
        /\ stage[r] = "through" => Cardinality(arrivals) >= scenario.replicas

Orderly == Staged /\ ReadsTheLast /\ IdsGrow /\ WavesAreWhole /\ ProcessesAreWhole
InOrder == Alone => Orderly

LEMMA HeldStartsInOrder == HeldInit => InOrder
<1> SUFFICES ASSUME HeldInit, Alone PROVE Orderly
  BY DEF InOrder
<1>1. Gate!Armed(GateSettings, {}, OldWidths) /\ ghosts = {}
  <2>1. ghosts = {} /\ Gate!Armed(GateSettings, InTheWindow, OldWidths)
    BY DEF HeldInit, Alone
  <2>2. InTheWindow = {}
    BY <2>1 DEF InTheWindow
  <2> QED BY <2>1, <2>2
<1>2. \A r \in Requests : stage[r] = "outside" /\ arrival_id[r] = 0
  BY <1>1 DEF Gate!Armed
<1>3. arrivals = {}
  BY <1>1 DEF Gate!Armed
<1>4. \A r \in Requests : ~Waiting(r) /\ ~Beyond(r) /\ ~Writing(r) /\ ~Turned(r)
  BY <1>1, HeldStart DEF Waiting, Beyond, Writing, Turned, Own
<1>5. IsFiniteSet(Numbered) /\ Cardinality(Numbered) \in Nat
  BY RequestsAreFinite, FS_Subset, FS_CardinalityType DEF Numbered
<1>6. Staged /\ ReadsTheLast
  BY <1>2, <1>3, <1>4 DEF Staged, Arrived, ReadsTheLast
<1>7. IdsGrow
  BY <1>2, <1>5 DEF IdsGrow, Numbered
<1>8. WavesAreWhole /\ ProcessesAreWhole
  BY <1>2, <1>4 DEF WavesAreWhole, ProcessesAreWhole
<1> QED BY <1>6, <1>7, <1>8 DEF Orderly

\* Nobody writes who is of a later wave than somebody still to be answered.
LEMMA WritersAreNotAhead ==
    ASSUME Ground, Alone, NEW q \in Requests, NEW r \in Requests, Writing(q), pc[r] # "done"
    PROVE  WaveOf(q) \in Nat /\ WaveOf(r) \in Nat /\ WaveOf(q) <= WaveOf(r)
<1>1. scenario \in Scenarios /\ q \in Own
  BY DEF Ground, Core, TypeOK, Alone, Own
<1>2. WaveOf(q) \in Nat /\ WaveOf(r) \in Nat
  BY <1>1, WaveBelow
<1>3. pc[q] # "idle"
  BY OnePlace DEF Ground, Alone, Ahead
<1>4. ~(WaveOf(r) < WaveOf(q))
  BY <1>1, <1>3 DEF Ground, HeldWave
<1> QED BY <1>2, <1>4

\* The waves before that of somebody in the window have bought, all of them.
LEMMA EarlierHaveBought ==
    ASSUME Ground, WritersAreNeeded, Alone, Orderly, Shape # "process_lock",
           NEW r \in Requests, Waiting(r), NEW q \in UpTo(WaveOf(r))
    PROVE  q \in Requests /\ q \in rows /\ stage[q] = "through"
<1>1. scenario \in Scenarios /\ r \in Own /\ q \in Requests /\ WaveOf(q) < WaveOf(r)
  BY DEF Ground, Core, TypeOK, Alone, Own, UpTo
<1>2. pc[q] = "done"
  BY <1>1 DEF Waiting, Ground, HeldWave
<1>3. WavesNeeded \in Nat /\ WaveOf(q) \in Nat /\ WaveOf(r) \in Nat
  BY <1>1, NeededFacts, WaveBelow
<1>4. Needed(r)
  BY <1>1 DEF WritersAreNeeded, Alone, Writing
<1>5. ~Turned(q)
  BY <1>1, <1>3, <1>4 DEF Needed, Orderly, WavesAreWhole
<1>6. q \in rows
  BY <1>1, <1>2, <1>5, AnsweredHasBought DEF Ground, Alone
<1> QED BY <1>1, <1>6 DEF Orderly, Staged, Beyond

\* Those who have arrived are of the wave of anybody in the window, or earlier.
LEMMA ArrivalsAreUpTo ==
    ASSUME Ground, Alone, Orderly, NEW r \in Requests, Waiting(r)
    PROVE  arrivals \subseteq UpTo(WaveOf(r) + 1)
<1> SUFFICES ASSUME NEW q \in arrivals PROVE q \in UpTo(WaveOf(r) + 1)
  OBVIOUS
<1>1. q \in Requests
  BY DEF Ground, HeldTypeOK, Gate!TypeOK
<1>2. Writing(q)
  BY <1>1 DEF Orderly, Staged, Arrived
<1>3. pc[r] # "done"
  BY DEF Waiting
<1>4. WaveOf(q) \in Nat /\ WaveOf(r) \in Nat /\ WaveOf(q) <= WaveOf(r)
  BY <1>1, <1>2, <1>3, WritersAreNotAhead
<1> QED BY <1>1, <1>4 DEF UpTo

\* The rank of an arrival tells its wave.
LEMMA RankTellsTheWave ==
    ASSUME Ground, WritersAreNeeded, Alone, Orderly, Shape # "process_lock",
           NEW r \in Requests, stage[r] = "rank"
    PROVE  /\ Gate!RankOf(r) \in Nat
           /\ WaveOf(r) * scenario.wave < Gate!RankOf(r)
           /\ Gate!RankOf(r) <= WaveOf(r) * scenario.wave + scenario.wave
<1> DEFINE k == WaveOf(r)
           w == scenario.wave
           first == {q \in arrivals : arrival_id[q] <= arrival_id[r]}
<1>1. scenario \in Scenarios
  BY DEF Ground, Core, TypeOK
<1>2. w \in Nat \ {0} /\ k \in Nat /\ ~(r <= k * w) /\ Concurrency \in Nat
      /\ r \in Nat /\ r <= Concurrency
  <2>1. k \in Nat
    BY <1>1, WaveBelow
  <2>2. ~(r <= k * w)
    BY <1>1, <2>1, WaveBelow
  <2> QED BY <1>1, <2>1, <2>2, WidthFacts, BurstAssumption DEF Requests
<1>3. Waiting(r) /\ arrival_id \in [Requests -> Nat] /\ arrivals \subseteq Requests
  BY DEF Orderly, Staged, Ground, HeldTypeOK, Gate!TypeOK
<1>4. Gate!RankOf(r) = Cardinality(first)
  BY SameCount DEF Gate!RankOf
<1>5. first \subseteq UpTo(k + 1)
  BY <1>3, ArrivalsAreUpTo
<1>6. /\ IsFiniteSet(UpTo(k + 1)) /\ Cardinality(UpTo(k + 1)) \in Nat
      /\ Cardinality(UpTo(k + 1)) <= k * w + w
  <2>1. k + 1 \in Nat /\ (k + 1) * w = k * w + w
    BY <1>2
  <2>2. /\ IsFiniteSet(UpTo(k + 1)) /\ Cardinality(UpTo(k + 1)) \in Nat
        /\ Cardinality(UpTo(k + 1)) <= (k + 1) * w
    <3> DEFINE m == k + 1
    <3>1. m \in Nat
      BY <2>1
    <3> HIDE DEF m, k
    <3>2. /\ IsFiniteSet(UpTo(m)) /\ Cardinality(UpTo(m)) \in Nat
          /\ Cardinality(UpTo(m)) <= m * w
      BY <1>1, <1>2, <3>1, UpToSize
    <3> QED BY <3>2 DEF m
  <2> QED BY <2>1, <2>2
<1>7. /\ IsFiniteSet(first) /\ Cardinality(first) \in Nat
      /\ Cardinality(first) <= Cardinality(UpTo(k + 1))
  <2> HIDE DEF first
  <2> QED BY <1>5, <1>6, FS_Subset, FS_CardinalityType
<1>8. UpTo(k) \cup {r} \subseteq first
  <2>1. r \in first
    BY <1>3 DEF Orderly, Staged, Arrived
  <2>2. ASSUME NEW q \in UpTo(k) PROVE q \in first
    <3>1. q \in Requests /\ stage[q] = "through" /\ WaveOf(q) < WaveOf(r)
      BY <1>3, <2>2, EarlierHaveBought DEF UpTo
    <3>2. q \in arrivals /\ q \in Numbered /\ r \in Numbered
      BY <3>1 DEF Orderly, Staged, Arrived, Numbered
    <3> QED BY <3>1, <3>2 DEF Orderly, IdsGrow
  <2> QED BY <2>1, <2>2
<1>9. IsFiniteSet(UpTo(k)) /\ Cardinality(UpTo(k)) = k * w /\ k * w \in Nat
  <2>1. k * w < Concurrency
    BY <1>2
  <2> QED BY <1>1, <1>2, <2>1, UpToSize
<1>10. r \notin UpTo(k)
  BY <1>2 DEF UpTo
<1>11. Cardinality(UpTo(k) \cup {r}) = k * w + 1
  BY <1>9, <1>10, FS_AddElement
<1>12. Cardinality(UpTo(k) \cup {r}) <= Cardinality(first)
  <2> HIDE DEF first
  <2> QED BY <1>7, <1>8, FS_Subset
<1> HIDE DEF first, k, w
<1>13. Gate!RankOf(r) \in Nat /\ k * w < Gate!RankOf(r) /\ Gate!RankOf(r) <= k * w + w
  BY <1>2, <1>4, <1>6, <1>7, <1>9, <1>11, <1>12
<1> QED BY <1>13 DEF k, w

\* So the batch it belongs to is its wave.
LEMMA TargetIsTheWave ==
    ASSUME Ground, BatchesAreKnown, WritersAreNeeded, Alone, Orderly, Shape # "process_lock",
           NEW r \in Requests, Gate!Rank(r)
    PROVE  target'[r] = (WaveOf(r) + 1) * scenario.wave
<1> DEFINE k == WaveOf(r)
           w == scenario.wave
           a == Gate!RankOf(r) + w - 1
<1>1. scenario \in Scenarios /\ stage[r] = "rank" /\ target \in [Requests -> Nat]
  BY DEF Ground, Core, TypeOK, HeldTypeOK, Gate!TypeOK, Gate!Rank
<1>2. expected[r] = w
  BY <1>1, GateOfTheRound DEF BatchesAreKnown, Orderly, Staged
<1>3. w \in Nat \ {0} /\ k \in Nat
  BY <1>1, WidthFacts, WaveBelow
<1>4. Gate!RankOf(r) \in Nat /\ k * w < Gate!RankOf(r) /\ Gate!RankOf(r) <= k * w + w
  BY <1>1, RankTellsTheWave
<1>5. target'[r] = (a \div w) * w
  BY <1>1, <1>2 DEF Gate!Rank
<1> HIDE DEF k, w
<1>6. a \in Nat /\ k + 1 \in Nat /\ (k + 1) * w = k * w + w /\ k * w \in Nat
  BY <1>3, <1>4
<1>7. (k + 1) * w <= a /\ a < (k + 1) * w + w
  BY <1>3, <1>4, <1>6
<1> HIDE DEF a
<1>8. a \div w = k + 1
  BY <1>3, <1>6, <1>7, Quotient
<1>9. target'[r] = (k + 1) * w
  BY <1>5, <1>8
<1> QED BY <1>9 DEF k, w

\* A full batch is the whole wave.
LEMMA FullIsTheWave ==
    ASSUME Ground, Alone, Orderly, Shape # "process_lock", NEW r \in Requests, Gate!BatchFull(r)
    PROVE  UpTo(WaveOf(r) + 1) \subseteq arrivals
<1> DEFINE m == WaveOf(r) + 1
<1>1. scenario \in Scenarios /\ stage[r] = "wait" /\ Cardinality(arrivals) >= target[r]
  BY SameCount DEF Ground, Core, TypeOK, Gate!BatchFull
<1>2. Waiting(r) /\ target[r] = m * scenario.wave
  BY <1>1 DEF Orderly, Staged, WavesAreWhole
<1>3. arrivals \subseteq UpTo(m)
  BY <1>2, ArrivalsAreUpTo
<1>4. m \in Nat
  BY <1>1, WaveBelow
<1> HIDE DEF m
<1>5. /\ IsFiniteSet(UpTo(m)) /\ Cardinality(UpTo(m)) \in Nat
      /\ Cardinality(UpTo(m)) <= m * scenario.wave /\ m * scenario.wave \in Nat
  BY <1>1, <1>4, UpToSize, WidthFacts, BurstAssumption
<1>6. Cardinality(arrivals) \in Nat /\ Cardinality(arrivals) <= Cardinality(UpTo(m))
  BY <1>3, <1>5, FS_Subset, FS_CardinalityType
<1>7. Cardinality(arrivals) = Cardinality(UpTo(m))
  BY <1>1, <1>2, <1>5, <1>6
<1>8. arrivals = UpTo(m)
  BY <1>3, <1>5, <1>7, FS_Subset
<1> QED BY <1>8 DEF m

\* Nobody of a wave that is needed finds the limit met: those who have bought are
\* of earlier waves, because nobody of its own passes the gate without it.
LEMMA TurnedAwayIfNotNeeded ==
    ASSUME Ground, Alone, Orderly, Shape # "process_lock",
           NEW r \in Requests, pc[r] = "check", value >= Limit
    PROVE  ~Needed(r)
<1> SUFFICES ASSUME Needed(r) PROVE FALSE
  OBVIOUS
<1> DEFINE k == WaveOf(r)
<1>1. scenario \in Scenarios
  BY DEF Ground, Core, TypeOK
<1>2. k \in Nat /\ k < WavesNeeded
  BY <1>1, WaveBelow DEF Needed
<1>3. r \notin arrivals
  <2>1. ~Writing(r)
    BY OnePlace DEF Ground, Alone, Ahead
  <2> QED BY <2>1 DEF Orderly, Staged, Arrived
<1>4. rows \subseteq UpTo(k)
  <2> SUFFICES ASSUME NEW q \in rows PROVE q \in UpTo(k)
    OBVIOUS
  <2>1. q \in Requests /\ Writing(q) /\ Beyond(q)
    BY ValueIsCounted DEF Ground, Writing, Beyond
  <2>2. WaveOf(q) \in Nat /\ WaveOf(q) <= k
    BY <2>1, WritersAreNotAhead
  <2>3. UpTo(WaveOf(q) + 1) \subseteq arrivals
    BY <2>1 DEF Orderly, Staged, WavesAreWhole
  <2>4. WaveOf(q) # k
    <3> SUFFICES ASSUME WaveOf(q) = k PROVE FALSE
      OBVIOUS
    <3>1. r \in UpTo(k + 1)
      BY <1>2 DEF UpTo
    <3> QED BY <1>3, <2>3, <3>1
  <2> QED BY <1>2, <2>1, <2>2, <2>4 DEF UpTo
<1> HIDE DEF k
<1>5. /\ IsFiniteSet(UpTo(k)) /\ Cardinality(UpTo(k)) \in Nat
      /\ Cardinality(UpTo(k)) <= k * scenario.wave /\ k * scenario.wave \in Nat
  BY <1>1, <1>2, UpToSize, BurstAssumption
<1>6. Cardinality(rows) <= Cardinality(UpTo(k))
  BY <1>4, <1>5, FS_Subset
<1>7. Sold0 + k * scenario.wave < Limit
  BY <1>1, <1>2, NeededFacts
<1> QED BY <1>5, <1>6, <1>7, ValueIsCounted DEF Ground

------------------------------------------------------------------------------
(* Every step keeps an undisturbed round in order. *)

\* While nobody fails, only leaving the window leads out of it.
LEMMA HeldInTheWindow ==
    ASSUME Core, Failed' = {}, NEW r \in Requests, pc[r] = "window", Burst(r)
    PROVE  FALSE
<1> USE DEF Core, TypeOK
<1>1. ~Send(r) /\ ~Step(r)
  BY RoundFacts
     DEF Send, Step, AcquireConnection, AcquireInstrumentation, AcquireProcessLock, Check, Act,
         InsertRow, RecordAct, Commit, BackstopViolation, ReleaseProcessLock,
         ReleaseConnections, Finish
<1>2. ~Failure(r)
  <2> SUFFICES ASSUME Failure(r) PROVE r \in Failed'
    OBVIOUS
  <2> QED BY DEF Failure, PoolTimeout, ConnectionLost, InstrumentationLost, Failed
<1>3. ~Backend(r)
  BY DEF Backend, ServerRollback, ServerCommit, Abandoned
<1> QED BY <1>1, <1>2, <1>3 DEF Burst

\* A step of the burst that leaves the gate alone: what has to be shown of it.
Keeps ==
    /\ \A q \in Requests :
           /\ Writing(q) => Writing(q)'
           /\ stage[q] \notin {"outside", "through"} => Waiting(q)'
           /\ Beyond(q)' => stage[q] = "through"
    /\ Shape = "process_lock" =>
           \A q \in Requests : Writing(q)' => observed'[q] = Limit - 1
    /\ Shape # "process_lock" => \A q \in Requests : Turned(q)' => ~Needed(q)

LEMMA OrderlyIfKept ==
    ASSUME Ground, Orderly, [HeldNext]_held, UNCHANGED atGate, Keeps
    PROVE  Orderly'
<1>1. /\ UNCHANGED <<scenario, Shape, Limit, Own>>
      /\ \A q \in Requests : WaveOf(q)' = WaveOf(q) /\ (Needed(q)' <=> Needed(q))
  BY RoundIsFixed
<1>2. UNCHANGED <<gate, stage, expected, arrival_id, arrivals, target, timed_out, Numbered>>
  BY DEF atGate, Numbered
<1>3. \A k : UpTo(k)' = UpTo(k)
  BY <1>1 DEF UpTo
<1>4. Staged'
  BY <1>2 DEF Orderly, Staged, Arrived, Keeps
<1>5. ReadsTheLast'
  BY <1>1 DEF ReadsTheLast, Keeps
<1>6. IdsGrow'
  <2>1. Numbered \subseteq Requests
    BY DEF Numbered
  <2> QED BY <1>1, <1>2, <2>1 DEF Orderly, IdsGrow
<1>7. WavesAreWhole'
  BY <1>1, <1>2, <1>3 DEF Orderly, WavesAreWhole, Keeps
<1>8. ProcessesAreWhole'
  BY <1>1, <1>2 DEF Orderly, ProcessesAreWhole
<1> QED BY <1>4, <1>5, <1>6, <1>7, <1>8 DEF Orderly

LEMMA BurstInOrder ==
    ASSUME Ground, InOrder, Alone', NEW r \in Requests, Burst(r) \/ Released(r)
    PROVE  Orderly'
<1>1. HeldStep(r) /\ [HeldNext]_held /\ UNCHANGED atGate /\ Failed' = {} /\ Core /\ Served
  BY DEF HeldStep, HeldNext, Burst, Released, Alone, Ground
<1>2. Failed = {} /\ (\/ \A q \in Requests : SameFor(q)
                      \/ Enters(r) \/ TurnsAway(r) \/ Passes(r))
  BY <1>1, HeldEffect
<1>3. Alone /\ Orderly
  <2>1. ghosts = {} /\ ~timed_out
    BY <1>1 DEF Alone, atGate
  <2> QED BY <1>2, <2>1 DEF Alone, InOrder
<1>4. \A q \in Requests : /\ pc[q] \in Ahead => ~Writing(q)
                          /\ Writing(q) => ~Turned(q)
                          /\ ~Writing(q) => stage[q] = "outside"
  BY <1>1, <1>2, <1>3, OnePlace DEF Writing, Orderly, Staged
<1>5. Shape # "process_lock" => \A q \in Requests : Turned(q) => ~Needed(q)
  BY <1>3 DEF Orderly, WavesAreWhole
<1>6. Shape = "process_lock" => \A q \in Requests : Writing(q) => observed[q] = Limit - 1
  BY <1>3 DEF Orderly, ReadsTheLast
<1>7. \A q \in Requests : /\ stage[q] \notin {"outside", "through"} => Waiting(q)
                          /\ Beyond(q) => stage[q] = "through"
  BY <1>3 DEF Orderly, Staged
<1>8. ASSUME \A q \in Requests : SameFor(q) PROVE Keeps
  BY <1>5, <1>6, <1>7, <1>8 DEF Keeps, SameFor, Writing
<1>9. ASSUME Enters(r) PROVE Keeps
  <2>1. Shape = "process_lock" => value = Limit - 1
    <3>1. value < Limit /\ value \in Nat /\ value >= Sold0
      BY <1>9, ValueIsCounted DEF Enters, Ground
    <3> QED BY <3>1, RoundFacts, ValueIsCounted DEF Ground, Core, TypeOK
  <2>2. ~Writing(r)
    BY <1>4, <1>9 DEF Enters, Ahead
  <2>3. stage[r] = "outside"
    BY <1>4, <2>2
  <2>4. ~Turned(r)' /\ Waiting(r)' /\ ~Beyond(r)' /\ observed'[r] = value
        /\ \A q \in Requests \ {r} : SameFor(q)
    BY <1>9 DEF Enters
  <2> QED BY <1>5, <1>6, <1>7, <2>1, <2>2, <2>3, <2>4 DEF Keeps, SameFor, Writing
<1>10. ASSUME TurnsAway(r) PROVE Keeps
  <2>1. Shape # "process_lock" => ~Needed(r)
    BY <1>3, <1>10, TurnedAwayIfNotNeeded DEF TurnsAway
  <2>2. ~Writing(r)
    BY <1>4, <1>10 DEF TurnsAway, Ahead
  <2>3. stage[r] = "outside"
    BY <1>4, <2>2
  <2>4. ~Waiting(r)' /\ ~Beyond(r)' /\ \A q \in Requests \ {r} : SameFor(q)
    BY <1>10 DEF TurnsAway
  <2> QED BY <1>5, <1>6, <1>7, <2>1, <2>2, <2>3, <2>4 DEF Keeps, SameFor, Writing
<1>11. ASSUME Passes(r) PROVE Keeps
  <2>1. stage[r] = "through"
    BY <1>1, <1>11, HeldInTheWindow DEF Passes, Waiting, Released
  <2>2. /\ ~Waiting(r)' /\ Beyond(r)' /\ ~Turned(r)' /\ observed'[r] = observed[r]
        /\ Waiting(r) /\ \A q \in Requests \ {r} : SameFor(q)
    BY <1>11 DEF Passes
  <2> QED BY <1>5, <1>6, <1>7, <2>1, <2>2 DEF Keeps, SameFor, Writing
<1> QED BY <1>1, <1>2, <1>3, <1>8, <1>9, <1>10, <1>11, OrderlyIfKept

\* A step at the gate: what is left to show once it is known that the burst is as it
\* was.
AtGate ==
    /\ UNCHANGED <<scenario, Shape, Limit, gate>>
    /\ \A q \in Requests : /\ WaveOf(q)' = WaveOf(q) /\ observed'[q] = observed[q]
                           /\ Needed(q)' <=> Needed(q)
                           /\ Waiting(q)' <=> Waiting(q)
                           /\ Beyond(q)' <=> Beyond(q)
                           /\ Writing(q)' <=> Writing(q)
                           /\ Turned(q)' <=> Turned(q)
    /\ \A k : UpTo(k)' = UpTo(k)

LEMMA BurstStays ==
    ASSUME NEW r \in Requests, AtTheGate(r) \/ DeadlinePassed(r)
    PROVE  AtGate
<1>1. UNCHANGED <<vars, ghosts, gate>> /\ [HeldNext]_held
  BY DEF AtTheGate, DeadlinePassed, HeldNext, Gate!Hold, Gate!ReadGate, Gate!TakeArrivalId,
     Gate!ArrivalCommits, Gate!Rank, Gate!BatchFull, Gate!OpenValve, Gate!GiveUp
<1>2. /\ UNCHANGED <<scenario, Shape, Limit>>
      /\ \A q \in Requests : WaveOf(q)' = WaveOf(q) /\ (Needed(q)' <=> Needed(q))
  BY <1>1, RoundIsFixed
<1>3. \A k : UpTo(k)' = UpTo(k)
  BY <1>2 DEF UpTo
<1>4. UNCHANGED <<pc, observed, outcome, reply, rows, inserted>>
  BY <1>1 DEF vars, handler, database
<1> QED BY <1>1, <1>2, <1>3, <1>4 DEF AtGate, Waiting, Beyond, Writing, Turned

LEMMA ReadGateInOrder ==
    ASSUME Ground, BatchesAreKnown, Alone, Orderly, AtGate,
           NEW r \in Requests, Waiting(r), Gate!ReadGate(r, observed[r])
    PROVE  Orderly'
<1> USE DEF Orderly, AtGate
<1>1. gate.arm_at \in {Gate!Anything, observed[r]}
  <2>1. CASE Shape = "process_lock"
    <3>1. observed[r] = Limit - 1
      BY <2>1 DEF ReadsTheLast, Writing
    <3> QED BY <2>1, <3>1, GateOfTheRound DEF BatchesAreKnown, Ground, Core, TypeOK
  <2>2. CASE Shape # "process_lock"
    BY <2>2, GateOfTheRound DEF BatchesAreKnown, Ground, Core, TypeOK
  <2> QED BY <2>1, <2>2
<1>2. /\ stage[r] = "outside" /\ stage' = [stage EXCEPT ![r] = "insert"]
      /\ expected' = [expected EXCEPT ![r] = gate.expected]
      /\ UNCHANGED <<gate, arrival_id, arrivals, target, timed_out>>
  BY <1>1 DEF Gate!ReadGate
<1>3. stage \in [Requests -> Gate!Stages] /\ expected \in [Requests -> Nat]
  BY DEF Ground, HeldTypeOK, Gate!TypeOK
<1>4. stage'[r] = "insert" /\ expected'[r] = gate.expected
      /\ \A q \in Requests \ {r} : stage'[q] = stage[q] /\ expected'[q] = expected[q]
  BY <1>2, <1>3
<1>5. Writing(r) /\ ~Beyond(r)
  BY OnePlace DEF Writing, Ground, Alone
<1>6. Staged'
  BY <1>2, <1>4, <1>5 DEF Staged, Arrived
<1>7. ReadsTheLast'
  BY DEF ReadsTheLast
<1>8. IdsGrow'
  BY <1>2 DEF IdsGrow, Numbered
<1>9. WavesAreWhole'
  BY <1>2, <1>4 DEF WavesAreWhole
<1>10. ProcessesAreWhole'
  BY <1>2, <1>4 DEF ProcessesAreWhole, Ground, Core, TypeOK
<1> QED BY <1>6, <1>7, <1>8, <1>9, <1>10

LEMMA TakeArrivalIdInOrder ==
    ASSUME Ground, Alone, Orderly, AtGate,
           NEW r \in Requests, Waiting(r), Gate!TakeArrivalId(r)
    PROVE  Orderly'
<1> USE DEF Orderly, AtGate
<1> DEFINE n == Cardinality(Numbered)
<1>1. /\ stage[r] = "insert" /\ stage' = [stage EXCEPT ![r] = "inserting"]
      /\ arrival_id' = [arrival_id EXCEPT ![r] = 1 + n]
      /\ UNCHANGED <<gate, expected, arrivals, target, timed_out>>
  BY SameCount DEF Gate!TakeArrivalId, Numbered
<1>2. stage \in [Requests -> Gate!Stages] /\ arrival_id \in [Requests -> Nat]
  BY DEF Ground, HeldTypeOK, Gate!TypeOK
<1>3. IsFiniteSet(Numbered) /\ n \in Nat
  BY RequestsAreFinite, FS_Subset, FS_CardinalityType DEF Numbered
<1>4. stage'[r] = "inserting" /\ arrival_id'[r] = n + 1
      /\ \A q \in Requests \ {r} : stage'[q] = stage[q] /\ arrival_id'[q] = arrival_id[q]
  BY <1>1, <1>2, <1>3
<1>5. r \notin Numbered /\ Numbered' = Numbered \cup {r}
  <2>1. ~(arrival_id[r] > 0)
    BY <1>1 DEF Staged
  <2>2. arrival_id'[r] > 0
    BY <1>3, <1>4
  <2> QED BY <1>4, <2>1, <2>2 DEF Numbered
<1>6. Cardinality(Numbered') = n + 1
  BY <1>3, <1>5, FS_AddElement
<1>7. Staged'
  BY <1>1, <1>3, <1>4 DEF Staged, Arrived
<1>8. ReadsTheLast'
  BY DEF ReadsTheLast
<1>9. IdsGrow'
  <2> SUFFICES ASSUME Shape # "process_lock"
               PROVE  /\ \A q \in Requests : arrival_id'[q] <= n + 1
                      /\ \A p, q \in Numbered' :
                             WaveOf(p) < WaveOf(q) => arrival_id'[p] <= arrival_id'[q]
    BY <1>5, <1>6 DEF IdsGrow, Numbered
  <2>1. \A q \in Requests : arrival_id[q] <= n /\ arrival_id[q] \in Nat
    BY <1>2 DEF IdsGrow
  <2>2. \A q \in Requests : arrival_id'[q] <= n + 1
    BY <1>3, <1>4, <2>1
  <2>3. ASSUME NEW p \in Numbered', NEW q \in Numbered', WaveOf(p) < WaveOf(q)
        PROVE  arrival_id'[p] <= arrival_id'[q]
    <3>0. p \in Requests /\ q \in Requests
      BY <1>5, <2>3 DEF Numbered
    <3>1. CASE q = r
      BY <1>3, <1>4, <2>2, <3>0, <3>1
    <3>2. CASE q # r /\ p # r
      BY <1>4, <1>5, <2>3, <3>0, <3>2 DEF IdsGrow
    <3>3. CASE q # r /\ p = r
      <4>1. Writing(q)
        BY <1>5, <3>0, <3>3 DEF Staged, Numbered
      <4>2. pc[r] # "done"
        BY DEF Waiting
      <4>3. WaveOf(q) \in Nat /\ WaveOf(r) \in Nat /\ WaveOf(q) <= WaveOf(r)
        BY <3>0, <4>1, <4>2, WritersAreNotAhead
      <4> QED BY <2>3, <3>3, <4>3
    <3> QED BY <3>1, <3>2, <3>3
  <2> QED BY <2>2, <2>3
<1>10. WavesAreWhole'
  BY <1>1, <1>4 DEF WavesAreWhole
<1>11. ProcessesAreWhole'
  BY <1>1, <1>4 DEF ProcessesAreWhole
<1> QED BY <1>7, <1>8, <1>9, <1>10, <1>11

LEMMA ArrivalCommitsInOrder ==
    ASSUME Ground, Alone, Orderly, AtGate,
           NEW r \in Requests, Waiting(r), Gate!ArrivalCommits(r)
    PROVE  Orderly'
<1> USE DEF Orderly, AtGate
<1>1. /\ stage[r] = "inserting" /\ stage' = [stage EXCEPT ![r] = "rank"]
      /\ arrivals' = arrivals \cup {r}
      /\ UNCHANGED <<gate, expected, arrival_id, target, timed_out>>
  BY DEF Gate!ArrivalCommits
<1>2. stage \in [Requests -> Gate!Stages] /\ arrivals \subseteq Requests
      /\ arrival_id \in [Requests -> Nat]
  BY DEF Ground, HeldTypeOK, Gate!TypeOK
<1>3. stage'[r] = "rank" /\ \A q \in Requests \ {r} : stage'[q] = stage[q]
  BY <1>1, <1>2
<1>4. Staged'
  BY <1>1, <1>3 DEF Staged, Arrived
<1>5. ReadsTheLast'
  BY DEF ReadsTheLast
<1>6. IdsGrow'
  BY <1>1 DEF IdsGrow, Numbered
<1>7. WavesAreWhole'
  BY <1>1, <1>3 DEF WavesAreWhole
<1>8. ProcessesAreWhole'
  <2>1. /\ IsFiniteSet(arrivals) /\ Cardinality(arrivals) \in Nat
        /\ IsFiniteSet(arrivals') /\ Cardinality(arrivals') \in Nat
        /\ Cardinality(arrivals) <= Cardinality(arrivals')
    BY <1>1, <1>2, RequestsAreFinite, FS_Subset, FS_CardinalityType
  <2>2. scenario.replicas \in Nat
    BY WidthFacts DEF Ground, Core, TypeOK
  <2> QED BY <1>1, <1>3, <2>1, <2>2 DEF ProcessesAreWhole
<1> QED BY <1>4, <1>5, <1>6, <1>7, <1>8

LEMMA RankInOrder ==
    ASSUME Ground, BatchesAreKnown, WritersAreNeeded, Alone, Orderly, AtGate,
           NEW r \in Requests, Waiting(r), Gate!Rank(r)
    PROVE  Orderly'
<1> USE DEF Orderly, AtGate
<1>1. /\ stage[r] = "rank" /\ stage' = [stage EXCEPT ![r] = "wait"]
      /\ \A q \in Requests \ {r} : target'[q] = target[q]
      /\ UNCHANGED <<gate, expected, arrival_id, arrivals, timed_out>>
  BY DEF Gate!Rank, Ground, HeldTypeOK, Gate!TypeOK
<1>2. stage \in [Requests -> Gate!Stages]
  BY DEF Ground, HeldTypeOK, Gate!TypeOK
<1>3. stage'[r] = "wait" /\ \A q \in Requests \ {r} : stage'[q] = stage[q]
  BY <1>1, <1>2
<1>4. Staged'
  BY <1>1, <1>3 DEF Staged, Arrived
<1>5. ReadsTheLast'
  BY DEF ReadsTheLast
<1>6. IdsGrow'
  BY <1>1 DEF IdsGrow, Numbered
<1>7. Shape # "process_lock" => target'[r] = (WaveOf(r) + 1) * scenario.wave
  BY TargetIsTheWave
<1>8. WavesAreWhole'
  BY <1>1, <1>3, <1>7 DEF WavesAreWhole
<1>9. Shape = "process_lock" => target'[r] >= scenario.replicas
  <2> SUFFICES ASSUME Shape = "process_lock" PROVE target'[r] >= scenario.replicas
    OBVIOUS
  <2> DEFINE p == scenario.replicas
             rank == Gate!RankOf(r)
             a == rank + p - 1
             b == a \div p
             first == {q \in arrivals : arrival_id[q] <= arrival_id[r]}
  <2>1. expected[r] = p /\ p \in Nat \ {0}
    BY <1>1, GateOfTheRound, WidthFacts DEF BatchesAreKnown, Staged, Ground, Core, TypeOK
  <2>2. target'[r] = b * p
    BY <2>1 DEF Gate!Rank, Ground, HeldTypeOK, Gate!TypeOK
  <2>3. r \in first /\ IsFiniteSet(first)
    <3>1. r \in arrivals /\ arrival_id[r] \in Nat /\ arrivals \subseteq Requests
      BY <1>1 DEF Staged, Arrived, Ground, HeldTypeOK, Gate!TypeOK
    <3> QED BY <3>1, RequestsAreFinite, FS_Subset
  <2>4. rank = Cardinality(first)
    BY SameCount DEF Gate!RankOf
  <2> HIDE DEF rank, first, p
  <2>5. rank \in Nat /\ rank # 0
    BY <2>3, <2>4, FS_CardinalityType, FS_EmptySet
  <2>6. a \in Nat /\ a >= p
    BY <2>1, <2>5
  <2> HIDE DEF a
  <2>7. b \in Nat /\ a < b * p + p
    BY <2>1, <2>6, Division
  <2> HIDE DEF b
  <2>8. b # 0
    <3> SUFFICES ASSUME b = 0 PROVE FALSE
      OBVIOUS
    <3>1. b * p = 0
      BY <2>1
    <3> QED BY <2>1, <2>6, <2>7, <3>1
  <2>9. b * p >= p
    <3>1. 0 < b /\ 0 \in Nat
      BY <2>7, <2>8
    <3>2. 0 * p + p <= b * p
      BY <2>1, <2>7, <3>1, Multiples
    <3>3. 0 * p + p = p
      BY <2>1
    <3>4. b * p \in Nat
      BY <2>1, <2>7
    <3> QED BY <2>1, <3>2, <3>3, <3>4
  <2> QED BY <2>2, <2>9 DEF p
<1>10. ProcessesAreWhole'
  BY <1>1, <1>3, <1>9 DEF ProcessesAreWhole
<1> QED BY <1>4, <1>5, <1>6, <1>8, <1>10

LEMMA BatchFullInOrder ==
    ASSUME Ground, Alone, Orderly, AtGate, NEW r \in Requests, Waiting(r), Gate!BatchFull(r)
    PROVE  Orderly'
<1> USE DEF Orderly, AtGate
<1>1. /\ stage[r] = "wait" /\ stage' = [stage EXCEPT ![r] = "through"]
      /\ Cardinality(arrivals) >= target[r]
      /\ UNCHANGED <<gate, expected, arrival_id, arrivals, target, timed_out>>
  BY SameCount DEF Gate!BatchFull
<1>2. stage \in [Requests -> Gate!Stages]
  BY DEF Ground, HeldTypeOK, Gate!TypeOK
<1>3. stage'[r] = "through" /\ \A q \in Requests \ {r} : stage'[q] = stage[q]
  BY <1>1, <1>2
<1>4. Staged'
  BY <1>1, <1>3 DEF Staged, Arrived
<1>5. ReadsTheLast'
  BY DEF ReadsTheLast
<1>6. IdsGrow'
  BY <1>1 DEF IdsGrow, Numbered
<1>7. WavesAreWhole'
  <2>1. Shape # "process_lock" => UpTo(WaveOf(r) + 1) \subseteq arrivals
    BY FullIsTheWave
  <2> QED BY <1>1, <1>3, <2>1 DEF WavesAreWhole
<1>8. ProcessesAreWhole'
  <2>1. Shape = "process_lock" => Cardinality(arrivals) >= scenario.replicas
    <3>1. target[r] \in Nat /\ Cardinality(arrivals) \in Nat /\ scenario.replicas \in Nat
      BY RequestsAreFinite, FS_Subset, FS_CardinalityType, WidthFacts
         DEF Ground, HeldTypeOK, Gate!TypeOK, Core, TypeOK
    <3> QED BY <1>1, <3>1 DEF ProcessesAreWhole
  <2> QED BY <1>1, <1>3, <2>1 DEF ProcessesAreWhole
<1> QED BY <1>4, <1>5, <1>6, <1>7, <1>8

LEMMA GiveUpInOrder ==
    ASSUME Ground, Alone, Orderly, AtGate, NEW r \in Requests, Waiting(r), Gate!GiveUp(r)
    PROVE  Orderly'
<1> USE DEF Orderly, AtGate
<1>1. /\ stage[r] = "wait" /\ stage' = [stage EXCEPT ![r] = "valve"]
      /\ UNCHANGED <<gate, expected, arrival_id, arrivals, target, timed_out>>
  BY DEF Gate!GiveUp
<1>2. stage'[r] = "valve" /\ \A q \in Requests \ {r} : stage'[q] = stage[q]
  BY <1>1 DEF Ground, HeldTypeOK, Gate!TypeOK
<1>3. Staged'
  BY <1>1, <1>2 DEF Staged, Arrived
<1>4. ReadsTheLast' /\ IdsGrow'
  BY <1>1 DEF ReadsTheLast, IdsGrow, Numbered
<1>5. WavesAreWhole' /\ ProcessesAreWhole'
  BY <1>1, <1>2 DEF WavesAreWhole, ProcessesAreWhole
<1> QED BY <1>3, <1>4, <1>5

LEMMA GateStepInOrder ==
    ASSUME Ground, BatchesAreKnown, WritersAreNeeded, InOrder, Alone',
           NEW r \in Requests, AtTheGate(r) \/ DeadlinePassed(r)
    PROVE  Orderly'
<1>1. AtGate /\ Waiting(r)
  BY BurstStays DEF AtTheGate, DeadlinePassed, Waiting
<1>2. UNCHANGED <<ghosts, Failed>> /\ (timed_out => timed_out') /\ ~Gate!OpenValve(r)
  BY DEF AtTheGate, DeadlinePassed, Gate!Hold, Gate!ReadGate, Gate!TakeArrivalId,
     Gate!ArrivalCommits, Gate!Rank, Gate!BatchFull, Gate!OpenValve, Gate!GiveUp,
     Failed, vars, handler, Alone
<1>3. Alone /\ Orderly
  BY <1>2 DEF Alone, InOrder
<1> QED
  BY <1>1, <1>2, <1>3, ReadGateInOrder, TakeArrivalIdInOrder, ArrivalCommitsInOrder,
     RankInOrder, BatchFullInOrder, GiveUpInOrder
     DEF AtTheGate, DeadlinePassed, Gate!Hold

LEMMA NextInOrder ==
    Ground /\ BatchesAreKnown /\ WritersAreNeeded /\ InOrder /\ [HeldNext]_held => InOrder'
<1> SUFFICES ASSUME Ground, BatchesAreKnown, WritersAreNeeded, InOrder, [HeldNext]_held, Alone'
             PROVE  Orderly'
  BY DEF InOrder
<1>1. CASE UNCHANGED held
  <2>1. Alone
    BY <1>1 DEF held, vars, handler, atGate, Alone, Failed
  <2>2. Keeps
    <3>1. Orderly /\ UNCHANGED <<pc, observed, outcome, reply, rows, inserted, scenario>>
      BY <1>1, <2>1 DEF InOrder, held, vars, handler, database
    <3> QED BY <3>1 DEF Keeps, Orderly, Staged, ReadsTheLast, WavesAreWhole, Writing, Waiting,
                        Beyond, Turned
  <2> QED BY <1>1, <2>1, <2>2, OrderlyIfKept DEF InOrder, held
<1>2. CASE HeldNext
  BY <1>2, BurstInOrder, GateStepInOrder DEF HeldNext
<1> QED BY <1>1, <1>2

------------------------------------------------------------------------------
(* The damage of a round that is over. *)

\* Everybody has bought of the waves that were needed; behind a process lock,
\* somebody has bought, and has not done so alone.
LEMMA UndisturbedDamage ==
    ASSUME Ground, WritersAreNeeded, LockSumBounded, Quiet, Alone, Orderly
    PROVE  value = PredictedValue
<1>1. scenario \in Scenarios
  BY DEF Ground, Core, TypeOK
<1>2. \A q \in Requests : pc[q] = "done" /\ (~Turned(q) => q \in rows) /\ (Writing(q) => q \in rows)
  <2> TAKE q \in Requests
  <2>1. pc[q] = "done"
    BY DEF Quiet
  <2>2. Writing(q) => ~Turned(q)
    BY OnePlace DEF Ground, Alone, Writing
  <2> QED BY <2>1, <2>2, AnsweredHasBought DEF Ground, Alone
<1>3. value = Sold0 + Cardinality(rows) /\ IsFiniteSet(rows) /\ Cardinality(rows) \in Nat
      /\ rows \subseteq Requests /\ Sold0 \in Nat /\ Limit \in Nat /\ value \in Nat
  BY ValueIsCounted DEF Ground
<1>4. CASE Shape # "process_lock"
  <2>1. rows = UpTo(WavesNeeded)
    <3>1. ASSUME NEW q \in rows PROVE q \in UpTo(WavesNeeded)
      <4>1. q \in Own /\ q \in Requests /\ Writing(q)
        BY <1>3 DEF Alone, Own, Writing, Beyond
      <4> QED BY <1>4, <4>1 DEF WritersAreNeeded, Alone, Needed, UpTo
    <3>2. ASSUME NEW q \in UpTo(WavesNeeded) PROVE q \in rows
      <4>1. q \in Requests /\ ~Turned(q)
        BY <1>4 DEF UpTo, Needed, Orderly, WavesAreWhole
      <4> QED BY <1>2, <4>1
    <3> QED BY <3>1, <3>2
  <2> QED BY <1>1, <1>3, <1>4, <2>1, NeededFacts DEF PredictedValue
<1>5. CASE Shape = "process_lock"
  <2>1. Sold0 = Limit - 1 /\ scenario.replicas \in Nat \ {0}
    BY <1>1, <1>5, RoundFacts
  <2>2. PICK r \in Requests : r \in rows
    <3> SUFFICES ASSUME rows = {} PROVE 1 \in rows
      BY <1>3
    <3>1. 1 \in Requests
      BY BurstAssumption, RoundAssumption DEF Requests
    <3>2. value < Limit
      BY <1>3, <2>1, FS_EmptySet
    <3> QED BY <1>2, <3>1, <3>2, NobodyIsTurnedAwayEarly DEF Ground
  <2>3. Cardinality(arrivals) >= scenario.replicas
    BY <1>5, <2>2 DEF Orderly, Staged, ProcessesAreWhole, Beyond
  <2>4. arrivals \subseteq rows
    <3> SUFFICES ASSUME NEW q \in arrivals PROVE q \in rows
      OBVIOUS
    <3>1. q \in Requests
      BY DEF Ground, HeldTypeOK, Gate!TypeOK
    <3>2. Writing(q)
      BY <3>1 DEF Orderly, Staged, Arrived
    <3> QED BY <1>2, <3>1, <3>2
  <2>5. Cardinality(arrivals) \in Nat /\ Cardinality(arrivals) <= Cardinality(rows)
    BY <1>3, <2>4, FS_Subset, FS_CardinalityType
  <2>6. value + Cardinality(Pending) <= Limit - 1 + scenario.replicas
    <3>1. Cardinality(Failed) = 0
      BY FS_EmptySet DEF Alone
    <3> QED BY <1>3, <1>5, <2>1, <3>1, CountsAreNatural DEF LockSumBounded
  <2>7. Cardinality(Pending) \in Nat
    BY CountsAreNatural
  <2> QED BY <1>3, <1>5, <2>1, <2>3, <2>5, <2>6, <2>7 DEF PredictedValue
<1> QED BY <1>4, <1>5

\* The damage of a deterministic round is not a matter of scheduling: undisturbed it
\* is the number the scenario predicts, for any burst and any wave, and a request of a
\* dead round adds no more than its own write.
THEOREM DamageDetermined == HeldSpec => []DamageIsDetermined
<1>1. HeldSpec => [](Core /\ Served /\ HeldWave /\ LockHeld)
  <2>1. Core /\ Served /\ HeldWave /\ LockHeld /\ [HeldNext]_held
            => Core' /\ Served' /\ HeldWave' /\ LockHeld'
    BY HeldIsNext, NextCore, NextServed, NextHeldWave, NextLockHeld DEF Core
  <2> QED BY <2>1, HeldStartsCore, PTL DEF HeldSpec
<1>2. HeldSpec => [](Ground /\ BatchesAreKnown)
  <2>1. HeldTypeOK /\ Core /\ Served /\ HeldWave /\ LockHeld => Ground
    BY DEF Ground
  <2> QED BY <1>1, <2>1, HeldStartsTyped, NextHeldTyped, PTL DEF HeldSpec
<1>3. HeldSpec => []LockSumBounded
  BY <1>1, HeldStartsBounded, PendingBehindLock, NextLockSumBounded, HeldIsNext, PTL DEF HeldSpec
<1>4. HeldInit => WritersAreNeeded
  BY HeldStart DEF WritersAreNeeded, Own, Writing, Waiting, Beyond
<1>5. HeldSpec => [](WritersAreNeeded /\ InOrder)
  BY <1>2, <1>4, HeldStartsInOrder, NextWritersAreNeeded, NextInOrder, PTL DEF HeldSpec
<1>6. Ground /\ LockSumBounded /\ WritersAreNeeded /\ InOrder => DamageIsDetermined
  BY DamageIsBounded, UndisturbedDamage DEF DamageIsDetermined, InOrder, Alone
<1> QED BY <1>2, <1>3, <1>5, <1>6, PTL

------------------------------------------------------------------------------
\* A round no dead one has left requests in is a burst of CheckThenAct: all that is
\* proved of a burst, its overrun and its timeline holds of it.
THEOREM RoundIsABurst == HeldSpec /\ ghosts = {} => Spec
<1>1. HeldInit /\ ghosts = {} => Init
  <2> SUFFICES ASSUME HeldInit, ghosts = {} PROVE Init
    OBVIOUS
  <2>1. PICK where \in [ghosts -> GhostPlaces], read \in [ghosts -> 0 .. Limit - 1] :
            StartsWith([r \in Requests |-> IF r \in ghosts THEN where[r] ELSE "idle"],
                       [r \in Requests |-> IF r \in ghosts THEN read[r] ELSE 0],
                       [p \in Replica |-> Holder(p, where)])
    BY DEF HeldInit, GhostsAreAbout
  <2>2. \A p \in Replica : Holder(p, where) = NoRequest
    BY DEF Holder
  <2> QED BY <2>1, <2>2 DEF Init, StartsWith
<1> QED BY <1>1, HeldIsNext, PTL DEF HeldSpec, Spec

\* Also among the requests of a dead round counter and rows agree, and every answer
\* is true when it is given.
THEOREM HeldAnswersAreTrue == HeldSpec => [](CounterMatchesRows /\ AnswersMatchRows)
<1>1. Core => CounterMatchesRows /\ AnswersMatchRows
  BY CoreAnswers DEF Core
<1>2. HeldSpec => []Core
  BY HeldStartsCore, HeldIsNext, NextCore, PTL DEF HeldSpec
<1> QED BY <1>1, <1>2, PTL

=============================================================================
