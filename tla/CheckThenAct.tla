----------------------------- MODULE CheckThenAct -----------------------------
(***************************************************************************)
(* The intentionally vulnerable storefront: the four check-then-act shapes *)
(* of vulnerable/shapes.py under a burst of the harness.                   *)
(*                                                                         *)
(* unguarded, process_lock and single_transaction sell units of a drop;    *)
(* redemption (redeem_unguarded) has the same steps with a limit of one:   *)
(* `value' is units_sold, or the wallet's balance in face values, and      *)
(* `rows' are the committed orders, or redemptions.  PostgreSQL is         *)
(* modelled as in SecureCounter.                                           *)
(*                                                                         *)
(* The window between the check and the act is the place "window"; what    *)
(* holds it open in the deterministic mode is modelled in Rendezvous and   *)
(* composed with this module in HeldBurst.                                 *)
(***************************************************************************)
EXTENDS Integers, FiniteSets

CONSTANTS
    Concurrency,     \* requests of the burst
    NoRequest,       \* nobody: the row, or a process lock, is free
    Scenarios,       \* the scenarios a run may be: see ScenarioType
    UnitsAvailable,  \* drops.units_available
    PoolSize,        \* pool_max_size, of each of a replica's two pools
    MaxFailures      \* bound: requests that may be answered 503

Requests == 1 .. Concurrency

Shapes == {"unguarded", "process_lock", "single_transaction", "redemption"}

\* shape, replicas addressed, requests in flight at once, units sold by the
\* fixture before the burst, backstop constraints in place
ScenarioType == [shape : Shapes, replicas : Nat \ {0}, wave : Nat \ {0},
                 preSold : Nat, backstop : BOOLEAN]

ASSUME BurstAssumption ==
    /\ Concurrency \in Nat /\ PoolSize \in Nat \ {0} /\ MaxFailures \in Nat
    /\ UnitsAvailable \in Nat
    /\ NoRequest \notin Requests
    /\ \A s \in Scenarios : /\ s \in ScenarioType
                            /\ s.preSold <= UnitsAvailable
                            /\ s.shape = "redemption" => s.preSold = 0

VARIABLES
    scenario,   \* which of Scenarios this is
    pc,         \* where each handler is
    observed,   \* what each request's check read
    checks,     \* requests with a "check" entry in toctou_timeline
    outcome,    \* the outcome about to be returned
    reply,      \* the HTTP status sent, 0 before
    lock,       \* who holds the _PROCESS_LOCK of each replica
    value,      \* units_sold or the balance, committed
    rows,       \* requests with a committed row
    rowLock,    \* whose transaction holds the drop's, or the wallet's, row
    inserted,   \* transactions with an uncommitted row
    inDoubt     \* lost connections whose COMMIT the server may still execute

handler == <<pc, observed, outcome, reply, lock>>
database == <<value, rows, rowLock, inserted, inDoubt>>
vars == <<scenario, checks, handler, database>>

Shape == scenario.shape
Limit == IF Shape = "redemption" THEN 1 ELSE UnitsAvailable
Sold0 == scenario.preSold

Outcomes == {"NONE", "CONFIRMED", "REFUSED", "UNKNOWN"}
Inside == {"check", "window", "act", "insert", "commit", "record", "unlock"}
HoldsConnection == Inside \cup {"instrumentation", "lock", "ended"}
\* Broken variant: the first connection is returned first.
ReleasedLast == (HoldsConnection \ {"instrumentation"}) \cup {"finish"}
HoldsInstrumentation == HoldsConnection \ {"instrumentation"}
Places == HoldsConnection \cup {"idle", "pool", "finish", "done"}
Replica == 0 .. Concurrency

TypeOK ==
    /\ scenario \in Scenarios
    /\ pc \in [Requests -> Places]
    /\ observed \in [Requests -> Nat]
    /\ checks \subseteq Requests
    /\ outcome \in [Requests -> Outcomes]
    /\ reply \in [Requests -> {0, 201, 400, 401, 404, 409, 500, 503}]
    /\ lock \in [Replica -> Requests \cup {NoRequest}]
    /\ value \in Nat
    /\ rows \subseteq Requests
    /\ rowLock \in Requests \cup {NoRequest}
    /\ inserted \subseteq Requests
    /\ inDoubt \subseteq Requests

\* Fresh fixtures and an empty timeline; who is where, what it has read, who
\* holds which process lock.
StartsWith(places, read, locks) ==
    /\ scenario \in Scenarios
    /\ pc = places
    /\ observed = read
    /\ checks = {}
    /\ outcome = [r \in Requests |-> "NONE"]
    /\ reply = [r \in Requests |-> 0]
    /\ lock = locks
    /\ value = Sold0
    /\ rows = {}
    /\ rowLock = NoRequest
    /\ inserted = {}
    /\ inDoubt = {}

Init == StartsWith([r \in Requests |-> "idle"], [r \in Requests |-> 0],
                   [p \in Replica |-> NoRequest])

------------------------------------------------------------------------------
(* The client and the handler around the shape. *)

Goto(r, place) == pc[r] # place /\ pc' = [pc EXCEPT ![r] = place]

ReplicaOf(r) == (r - 1) % scenario.replicas

\* Broken variant: an exception inside the lock leaves it held.
KeepLocked(r) == UNCHANGED lock

\* An exception or a return leaves the `async with' of the process lock.
Unlock(r) == lock' = [p \in Replica |-> IF lock[p] = r THEN NoRequest ELSE lock[p]]

Answer(r, status) ==
    /\ Goto(r, "done")
    /\ reply' = [reply EXCEPT ![r] = status]
    /\ outcome' = [outcome EXCEPT ![r] = "NONE"]
    /\ Unlock(r)

\* Broken variant: the client does not wait for the previous wave.
MaySendAnyTime(r) == TRUE

\* concurrent_burst: each wave finishes before the next begins.
MaySend(r) ==
    \A q \in Requests :
        (q - 1) \div scenario.wave < (r - 1) \div scenario.wave => pc[q] = "done"

Send(r) ==
    /\ pc[r] = "idle" /\ MaySend(r)
    /\ Goto(r, "pool")
    /\ UNCHANGED <<scenario, checks, observed, outcome, reply, lock, database>>

RejectEarly(r) ==
    /\ pc[r] = "idle" /\ MaySend(r)
    /\ Answer(r, 400) \/ Answer(r, 401)
    /\ UNCHANGED <<scenario, checks, observed, database>>

OnMyReplica(r, places) == {q \in Requests : ReplicaOf(q) = ReplicaOf(r) /\ pc[q] \in places}

AcquireConnection(r) ==
    /\ pc[r] = "pool"
    /\ Cardinality(OnMyReplica(r, HoldsConnection)) < PoolSize
    /\ Goto(r, "instrumentation")
    /\ UNCHANGED <<scenario, checks, observed, outcome, reply, lock, database>>

\* The first thing the shape does with its two connections.
AcquireInstrumentation(r) ==
    /\ pc[r] = "instrumentation"
    /\ Cardinality(OnMyReplica(r, HoldsInstrumentation)) < PoolSize
    /\ Goto(r, IF Shape = "process_lock" THEN "lock" ELSE "check")
    /\ UNCHANGED <<scenario, checks, observed, outcome, reply, lock, database>>

MayFail == Cardinality({r \in Requests : reply[r] = 503}) < MaxFailures

PoolTimeout(r) ==
    /\ pc[r] \in {"pool", "instrumentation"} /\ MayFail
    /\ Answer(r, 503)
    /\ UNCHANGED <<scenario, checks, observed, database>>

AcquireProcessLock(r) ==
    /\ pc[r] = "lock"
    /\ lock[ReplicaOf(r)] = NoRequest
    /\ lock' = [lock EXCEPT ![ReplicaOf(r)] = r]
    /\ Goto(r, "check")
    /\ UNCHANGED <<scenario, checks, observed, outcome, reply, database>>

ReleaseProcessLock(r) ==
    /\ pc[r] = "unlock"
    /\ Unlock(r)
    /\ Goto(r, "ended")
    /\ UNCHANGED <<scenario, checks, observed, outcome, reply, database>>

ReleaseConnections(r) ==
    /\ pc[r] = "ended"
    /\ Goto(r, "finish")
    /\ UNCHANGED <<scenario, checks, observed, outcome, reply, lock, database>>

\* Broken variant: an act is acknowledged with 200 instead of 201.
StatusOfWrong == [CONFIRMED |-> 200, REFUSED |-> 409, UNKNOWN |-> 404, NONE |-> 503]

StatusOf == [CONFIRMED |-> 201, REFUSED |-> 409, UNKNOWN |-> 404, NONE |-> 503]

Finish(r) ==
    /\ pc[r] = "finish"
    /\ Answer(r, StatusOf[outcome[r]])
    /\ UNCHANGED <<scenario, checks, observed, database>>

------------------------------------------------------------------------------
(* _check_then_act_on_the_counter and redeem_unguarded, step by step. *)

\* Where the shape goes once the check-then-act inside it has returned.
Returned == IF Shape = "process_lock" THEN "unlock"
            ELSE IF Shape = "single_transaction" THEN "commit" ELSE "ended"

CheckUnknown(r) ==
    /\ pc[r] = "check"
    /\ outcome' = [outcome EXCEPT ![r] = "UNKNOWN"]
    /\ Goto(r, Returned)
    /\ UNCHANGED <<scenario, checks, observed, reply, lock, database>>

\* Broken variant: off by one at the last unit.
CheckEarly(r) ==
    /\ pc[r] = "check"
    /\ LET read == IF Shape = "redemption" THEN Cardinality(rows) ELSE value
       IN  /\ observed' = [observed EXCEPT ![r] = read]
           /\ IF read + 1 >= Limit
              THEN outcome' = [outcome EXCEPT ![r] = "REFUSED"] /\ Goto(r, Returned)
              ELSE Goto(r, "window") /\ UNCHANGED outcome
    /\ checks' = checks \cup {r}
    /\ UNCHANGED <<scenario, reply, lock, database>>

\* Broken variant: only refusals reach the timeline.
CheckQuietly(r) ==
    /\ pc[r] = "check"
    /\ LET read == IF Shape = "redemption" THEN Cardinality(rows) ELSE value
       IN  /\ observed' = [observed EXCEPT ![r] = read]
           /\ IF read >= Limit
              THEN outcome' = [outcome EXCEPT ![r] = "REFUSED"] /\ Goto(r, Returned)
              ELSE Goto(r, "window") /\ UNCHANGED outcome
    /\ checks' = IF outcome'[r] = "REFUSED" THEN checks \cup {r} ELSE checks
    /\ UNCHANGED <<scenario, reply, lock, database>>

\* TIME OF CHECK: the read, its timeline entry and the decision.
Check(r) ==
    /\ pc[r] = "check"
    /\ LET read == IF Shape = "redemption" THEN Cardinality(rows) ELSE value
       IN  /\ observed' = [observed EXCEPT ![r] = read]
           /\ IF read >= Limit
              THEN outcome' = [outcome EXCEPT ![r] = "REFUSED"] /\ Goto(r, Returned)
              ELSE Goto(r, "window") /\ UNCHANGED outcome
    /\ checks' = checks \cup {r}
    /\ UNCHANGED <<scenario, reply, lock, database>>

\* Without a gate hold_window_open returns at once.
LeaveWindow(r) ==
    /\ pc[r] = "window"
    /\ Goto(r, "act")
    /\ UNCHANGED <<scenario, checks, observed, outcome, reply, lock, database>>

RowIsFree == rowLock = NoRequest
RowIsMine(r) == rowLock = r

\* Broken variant: the constraint is off by one.
CheckViolatedLate == scenario.backstop /\ Shape # "redemption" /\ value > Limit

\* drops_units_sold_within_availability rejects the row the UPDATE would write.
CheckViolated == scenario.backstop /\ Shape # "redemption" /\ value >= Limit

\* TIME OF USE: units_sold + 1, or balance_cents + amount_cents.
Act(r) ==
    /\ pc[r] = "act" /\ RowIsFree /\ ~CheckViolated
    /\ rowLock' = r
    /\ Goto(r, "insert")
    /\ UNCHANGED <<scenario, checks, observed, outcome, reply, lock, value, rows, inserted, inDoubt>>

\* redemptions_single_use rejects a second row for the code.
UniqueViolated == scenario.backstop /\ Shape = "redemption" /\ rows # {}

\* Broken variant: the row is committed at once, outside the transaction.
InsertRowAutocommit(r) ==
    /\ pc[r] = "insert" /\ ~UniqueViolated
    /\ inserted' = inserted \cup {r}
    /\ rows' = rows \cup {r}
    /\ outcome' = [outcome EXCEPT ![r] = "CONFIRMED"]
    /\ Goto(r, IF Shape = "single_transaction" THEN "record" ELSE "commit")
    /\ UNCHANGED <<scenario, checks, observed, reply, lock, value, rowLock, inDoubt>>

InsertRow(r) ==
    /\ pc[r] = "insert" /\ ~UniqueViolated
    /\ inserted' = inserted \cup {r}
    /\ outcome' = [outcome EXCEPT ![r] = "CONFIRMED"]
    /\ Goto(r, IF Shape = "single_transaction" THEN "record" ELSE "commit")
    /\ UNCHANGED <<scenario, checks, observed, reply, lock, value, rows, rowLock, inDoubt>>

\* The act's timeline entry is written on the instrumentation connection: after
\* COMMIT, but before the COMMIT of a single transaction.
RecordAct(r) ==
    /\ pc[r] = "record"
    /\ Goto(r, Returned)
    /\ UNCHANGED <<scenario, checks, observed, outcome, reply, lock, database>>

------------------------------------------------------------------------------
(* The end of a transaction, seen by the server. *)

EndTransaction(r) ==
    /\ rowLock' = IF RowIsMine(r) THEN NoRequest ELSE rowLock
    /\ inserted' = inserted \ {r}
    /\ inDoubt' = inDoubt \ {r}

ApplyCommit(r) ==
    /\ value' = IF r \in inserted THEN value + 1 ELSE value
    /\ rows' = rows \cup (inserted \cap {r})
    /\ EndTransaction(r)

\* The transaction block ends; only a single transaction has nothing to record.
Commit(r) ==
    /\ pc[r] = "commit"
    /\ ApplyCommit(r)
    /\ Goto(r, IF Shape = "single_transaction" THEN "ended" ELSE "record")
    /\ UNCHANGED <<scenario, checks, observed, outcome, reply, lock>>

\* A violated backstop is not an OperationalError: the transaction rolls back
\* and nobody handles the exception.
BackstopViolation(r) ==
    /\ \/ pc[r] = "act" /\ RowIsFree /\ CheckViolated
       \/ pc[r] = "insert" /\ UniqueViolated
    /\ Answer(r, 500)
    /\ EndTransaction(r)
    /\ UNCHANGED <<scenario, checks, observed, value, rows>>

\* Broken variant: the outcome is trusted although COMMIT was never confirmed.
ConnectionLostUnnoticed(r) ==
    /\ pc[r] \in {"check", "act", "insert", "commit"} /\ MayFail
    /\ Answer(r, StatusOf[outcome[r]])
    /\ inDoubt' = IF pc[r] = "commit" THEN inDoubt \cup {r} ELSE inDoubt
    /\ UNCHANGED <<scenario, checks, observed, value, rows, rowLock, inserted>>

\* The request's own connection is lost during a statement, or during COMMIT.
ConnectionLost(r) ==
    /\ pc[r] \in {"check", "act", "insert", "commit"} /\ MayFail
    /\ Answer(r, 503)
    /\ inDoubt' = IF pc[r] = "commit" THEN inDoubt \cup {r} ELSE inDoubt
    /\ UNCHANGED <<scenario, checks, observed, value, rows, rowLock, inserted>>

\* The instrumentation connection is lost while it records or waits: the request
\* fails, and a transaction around it is rolled back on its own connection.
InstrumentationLost(r) ==
    /\ pc[r] \in {"window", "record"} /\ MayFail
    /\ Answer(r, 503)
    /\ EndTransaction(r)
    /\ UNCHANGED <<scenario, checks, observed, value, rows>>

Abandoned(r) == pc[r] = "done" /\ (RowIsMine(r) \/ r \in inDoubt)

ServerRollback(r) ==
    /\ Abandoned(r)
    /\ EndTransaction(r)
    /\ UNCHANGED <<scenario, checks, handler, value, rows>>

ServerCommit(r) ==
    /\ Abandoned(r) /\ r \in inDoubt
    /\ ApplyCommit(r)
    /\ UNCHANGED <<scenario, checks, handler>>

------------------------------------------------------------------------------
\* Everything a request's own handler does, except leaving the window.
Step(r) ==
    \/ AcquireConnection(r) \/ AcquireInstrumentation(r) \/ AcquireProcessLock(r)
    \/ Check(r) \/ Act(r) \/ InsertRow(r) \/ RecordAct(r)
    \/ Commit(r) \/ BackstopViolation(r)
    \/ ReleaseProcessLock(r) \/ ReleaseConnections(r) \/ Finish(r)

Failure(r) ==
    PoolTimeout(r) \/ ConnectionLost(r) \/ InstrumentationLost(r)

Backend(r) == ServerRollback(r) \/ ServerCommit(r)

Rejection(r) == RejectEarly(r) \/ CheckUnknown(r)

Next ==
    \E r \in Requests :
        \/ Send(r) \/ Rejection(r) \/ Step(r) \/ LeaveWindow(r)
        \/ Failure(r) \/ Backend(r)

Spec == Init /\ [][Next]_vars

\* The harness sends its burst, the event loop and the database run; no pool
\* has to time out and no connection has to break.
Fairness ==
    \A r \in Requests : /\ WF_vars(Send(r) \/ RejectEarly(r))
                        /\ WF_vars(Step(r) \/ LeaveWindow(r))
                        /\ WF_vars(Backend(r))

FairSpec == Spec /\ Fairness

------------------------------------------------------------------------------
(* What the vulnerable shapes break, how far, and what they leave intact. *)

Failed == {r \in Requests : reply[r] = 503}
Quiet == \A r \in Requests : pc[r] = "done" /\ ~Abandoned(r)

\* The counter and its rows are written in one transaction: however far the
\* invariant is overrun, the store's two numbers agree (shapes.py: a transaction
\* "buys atomicity"), for every shape and whatever is lost on the way.
CounterMatchesRows == value = Sold0 + Cardinality(rows)

\* With the backstop in place no shape can oversell or credit twice (schema.py:
\* an unguarded write "fails as a constraint violation").
BackstopHolds == scenario.backstop => value <= Limit

\* The damage is what the window lets in: all requests in flight at once, or one
\* per process behind a process lock, and those whose connection was lost while
\* their transaction was still open.
Width == IF Shape = "process_lock" /\ scenario.replicas < scenario.wave
         THEN scenario.replicas ELSE scenario.wave
OverrunBounded == value <= Limit + Width - 1 + Cardinality(Failed)

\* Run one at a time the same code is exactly right, and however many race, no
\* unit that could have been sold is left over: the race only ever oversells.
ExactWhenSequential ==
    Quiet /\ Failed = {} =>
        LET asked == Sold0 + Cardinality({r \in Requests : reply[r] \in {201, 409, 500}})
            right == IF asked < Limit THEN asked ELSE Limit
        IN  value >= right /\ (scenario.wave = 1 => value = right)

\* Oversold or not, every single answer is true when it is given: 201 has its
\* row, 4xx and 500 have none, and nobody is refused while the limit is not met.
AnswersMatchRows ==
    \A r \in Requests :
        /\ reply[r] = 201 => r \in rows
        /\ reply[r] \in {400, 401, 404, 409, 500} => r \notin rows \cup inserted
        /\ reply[r] = 409 => value >= Limit

\* racing_reads: two checks that observed the same value.
Racing(q, r) == q # r /\ {q, r} \subseteq checks /\ observed[q] = observed[r]

\* No overrun is invisible: if the store oversold, the timeline holds two reads of
\* the same still-available value by requests that both went on to write.
OverrunIsVisible ==
    value > Limit => \E q, r \in rows : Racing(q, r) /\ observed[q] < Limit

\* Who holds a request connection never waits for the instrumentation pool.
InstrumentationConnectionFree ==
    \A r \in Requests :
        pc[r] = "instrumentation" => Cardinality(OnMyReplica(r, HoldsInstrumentation)) < PoolSize

\* The burst always comes to an end: no deadlock between two pools, a process
\* lock, a row lock and a wave that waits for its last answer.
BurstCompletes == <>Quiet

\* instrumentation.py, racing_reads: "each group of two or more *is* the defect".
EachRacingGroupIsTheDefect ==
    Quiet /\ (\E q, r \in Requests : Racing(q, r)) => value > Limit

=============================================================================
