---------------------------- MODULE SecureCounter ----------------------------
(***************************************************************************)
(* POST /drops/{drop_id}/orders on the secure storefront: any number of    *)
(* replicas, each with its own connection pool, run either of the two      *)
(* counter guards of secure/guards.py against one row of `drops`.          *)
(*                                                                         *)
(* PostgreSQL is modelled from the SQL the guards send, at READ COMMITTED: *)
(*   - units_sold and orders are the committed rows; an UPDATE or a        *)
(*     SELECT FOR UPDATE of the drop row holds rowLock to the end of its   *)
(*     transaction, and its effects are invisible until COMMIT;            *)
(*   - a statement that needs a locked row waits, then re-evaluates its    *)
(*     WHERE on the version that was committed meanwhile;                  *)
(*   - a lost connection makes the client raise at once, while the server  *)
(*     notices later: it rolls back, or, if COMMIT was already on its way, *)
(*     it may still commit.                                                *)
(* The CHECK drops_units_sold_within_availability is deliberately absent:  *)
(* the guards must not need it (BackstopNeverReached).                     *)
(***************************************************************************)
EXTENDS Integers, FiniteSets

CONSTANTS
    Requests,        \* the order requests ever sent
    NoRequest,       \* nobody: rowLock is free
    UnitsAvailable,  \* drops.units_available
    Replicas,        \* application processes
    ReplicaOf,       \* the replica each request is sent to
    PoolSize         \* pool_max_size of a replica

ASSUME RequestsAssumption ==
    /\ IsFiniteSet(Requests)
    /\ NoRequest \notin Requests
ASSUME CapacityAssumption ==
    /\ UnitsAvailable \in Nat
    /\ PoolSize \in Nat \ {0}
    /\ ReplicaOf \in [Requests -> Replicas]

VARIABLES
    pc,          \* where each handler is
    known,       \* the requests that name the seeded drop
    guard,       \* the strategy its X-Racejack-Guard header selected
    seen,        \* units_sold as the request's own transaction last saw it
    outcome,     \* the OrderOutcome the guard is about to return
    reply,       \* the HTTP status sent, 0 before
    refusals,    \* invariant_refusal events on standard output
    units_sold,  \* drops.units_sold, committed
    orders,      \* the requests with a committed row in orders
    rowLock,     \* whose transaction holds the drop row
    inserted,    \* transactions with an uncommitted row in orders
    inDoubt      \* lost connections whose COMMIT the server may still execute

handler == <<pc, known, guard, seen, outcome, reply>>
database == <<units_sold, orders, rowLock, inserted, inDoubt>>
vars == <<handler, refusals, database>>

Guards == {"conditional_write", "pessimistic_lock"}
Outcomes == {"NONE", "CONFIRMED", "REFUSED", "UNKNOWN_DROP"}
InTransaction == {"begun", "classify", "decide", "insert", "commit", "committed"}
Places == {"idle", "pool", "finish", "done"} \cup InTransaction

TypeOK ==
    /\ pc \in [Requests -> Places]
    /\ known \subseteq Requests
    /\ guard \in [Requests -> Guards]
    /\ seen \in [Requests -> Nat]
    /\ outcome \in [Requests -> Outcomes]
    /\ reply \in [Requests -> {0, 201, 400, 401, 404, 409, 503}]
    /\ refusals \in Nat
    /\ units_sold \in Nat
    /\ orders \subseteq Requests
    /\ rowLock \in Requests \cup {NoRequest}
    /\ inserted \subseteq Requests
    /\ inDoubt \subseteq Requests

Init ==
    /\ pc = [r \in Requests |-> "idle"]
    /\ known = {}
    /\ guard = [r \in Requests |-> "conditional_write"]
    /\ seen = [r \in Requests |-> 0]
    /\ outcome = [r \in Requests |-> "NONE"]
    /\ reply = [r \in Requests |-> 0]
    /\ refusals = 0
    /\ units_sold = 0
    /\ orders = {}
    /\ rowLock = NoRequest
    /\ inserted = {}
    /\ inDoubt = {}

------------------------------------------------------------------------------
(* The handler, before and around the guard. *)

Goto(r, place) == pc[r] # place /\ pc' = [pc EXCEPT ![r] = place]

\* The handler's locals die with it.
Answer(r, status) ==
    /\ Goto(r, "done")
    /\ reply' = [reply EXCEPT ![r] = status]
    /\ outcome' = [outcome EXCEPT ![r] = "NONE"]
    /\ guard' = [guard EXCEPT ![r] = "conditional_write"]

\* 401 for any bad credential, 400 for an unknown guard: no connection is used.
RejectEarly(r) ==
    /\ pc[r] = "idle"
    /\ Answer(r, 400) \/ Answer(r, 401)
    /\ UNCHANGED <<known, seen, refusals, database>>

Accept(r) ==
    /\ pc[r] = "idle"
    /\ Goto(r, "pool")
    /\ known' \in {known, known \cup {r}}
    /\ \E g \in Guards : guard' = [guard EXCEPT ![r] = g]
    /\ UNCHANGED <<seen, outcome, reply, refusals, database>>

\* Broken variant: a request that fails does not return its connection.
LeakedConnections(p) ==
    {r \in Requests : ReplicaOf[r] = p /\ (pc[r] \in InTransaction \/ reply[r] = 503)}

HeldConnections(p) == {r \in Requests : ReplicaOf[r] = p /\ pc[r] \in InTransaction}

AcquireConnection(r) ==
    /\ pc[r] = "pool"
    /\ Cardinality(HeldConnections(ReplicaOf[r])) < PoolSize
    /\ Goto(r, "begun")
    /\ UNCHANGED <<known, guard, seen, outcome, reply, refusals, database>>

\* PoolTimeout is an OperationalError: the exception handler answers 503.
PoolTimeout(r) ==
    /\ pc[r] = "pool"
    /\ Answer(r, 503)
    /\ UNCHANGED <<known, seen, refusals, database>>

\* The transaction block returned and the connection is back in the pool.
ReleaseConnection(r) ==
    /\ pc[r] = "committed"
    /\ Goto(r, "finish")
    /\ UNCHANGED <<known, guard, seen, outcome, reply, refusals, database>>

\* Broken variant: an order is acknowledged with 200 instead of 201.
StatusOfWrong ==
    [CONFIRMED |-> 200, REFUSED |-> 409, UNKNOWN_DROP |-> 404, NONE |-> 503]

StatusOf == [CONFIRMED |-> 201, REFUSED |-> 409, UNKNOWN_DROP |-> 404, NONE |-> 503]

FinishOrder(r) ==
    /\ pc[r] = "finish"
    /\ Answer(r, StatusOf[outcome[r]])
    /\ refusals' = IF outcome[r] = "REFUSED" THEN refusals + 1 ELSE refusals
    /\ UNCHANGED <<known, seen, database>>

------------------------------------------------------------------------------
(* Strategy A, conditional_write: UPDATE ... WHERE units_sold < available. *)

RowIsFree == rowLock = NoRequest
RowIsMine(r) == rowLock = r

\* The guard leaves the transaction block with outcome o: COMMIT is sent.
LeaveWith(r, o) ==
    /\ Goto(r, "commit")
    /\ outcome' = [outcome EXCEPT ![r] = o]

UpdateRow(r) ==
    /\ rowLock' = r
    /\ seen' = [seen EXCEPT ![r] = units_sold + 1]
    /\ Goto(r, "insert")
    /\ UNCHANGED <<known, guard, outcome, reply, refusals, units_sold, orders, inserted, inDoubt>>

\* Broken variant: the WHERE is not re-evaluated after another claim.
ClaimUnitBlindly(r) ==
    /\ pc[r] = "begun" /\ guard[r] = "conditional_write" /\ r \in known
    /\ units_sold < UnitsAvailable
    /\ UpdateRow(r)

\* A matching row must be free; it is claimed.
ClaimUnit(r) ==
    /\ pc[r] = "begun" /\ guard[r] = "conditional_write" /\ r \in known
    /\ units_sold < UnitsAvailable
    /\ RowIsFree
    /\ UpdateRow(r)

\* Broken variant: the last unit is kept back.
ClaimNothingEarly(r) ==
    /\ pc[r] = "begun" /\ guard[r] = "conditional_write"
    /\ r \in known => units_sold + 1 >= UnitsAvailable
    /\ Goto(r, "classify")
    /\ UNCHANGED <<known, guard, seen, outcome, reply, refusals, database>>

\* No row matches: the statement affects nothing, locked or not.
ClaimNothing(r) ==
    /\ pc[r] = "begun" /\ guard[r] = "conditional_write"
    /\ r \in known => units_sold >= UnitsAvailable
    /\ Goto(r, "classify")
    /\ UNCHANGED <<known, guard, seen, outcome, reply, refusals, database>>

\* SELECT 1 FROM drops only names a refusal that has already happened.
Classify(r) ==
    /\ pc[r] = "classify"
    /\ LeaveWith(r, IF r \in known THEN "REFUSED" ELSE "UNKNOWN_DROP")
    /\ UNCHANGED <<known, guard, seen, reply, refusals, database>>

\* Broken variant: the order is inserted outside the transaction.
InsertOrderAutocommit(r) ==
    /\ pc[r] = "insert"
    /\ inserted' = inserted \cup {r}
    /\ orders' = orders \cup {r}
    /\ LeaveWith(r, "CONFIRMED")
    /\ UNCHANGED <<known, guard, seen, reply, refusals, units_sold, rowLock, inDoubt>>

InsertOrder(r) ==
    /\ pc[r] = "insert"
    /\ inserted' = inserted \cup {r}
    /\ LeaveWith(r, "CONFIRMED")
    /\ UNCHANGED <<known, guard, seen, reply, refusals, units_sold, orders, rowLock, inDoubt>>

------------------------------------------------------------------------------
(* Strategy B, pessimistic_lock: SELECT ... FOR UPDATE, decide, UPDATE. *)

\* Broken variant: the SELECT lost its FOR UPDATE.
ReadDropUnlocked(r) ==
    /\ pc[r] = "begun" /\ guard[r] = "pessimistic_lock" /\ r \in known
    /\ seen' = [seen EXCEPT ![r] = units_sold]
    /\ Goto(r, "decide")
    /\ UNCHANGED <<known, guard, outcome, reply, refusals, database>>

LockDrop(r) ==
    /\ pc[r] = "begun" /\ guard[r] = "pessimistic_lock" /\ r \in known
    /\ RowIsFree
    /\ rowLock' = r
    /\ seen' = [seen EXCEPT ![r] = units_sold]
    /\ Goto(r, "decide")
    /\ UNCHANGED <<known, guard, outcome, reply, refusals, units_sold, orders, inserted, inDoubt>>

LockNothing(r) ==
    /\ pc[r] = "begun" /\ guard[r] = "pessimistic_lock" /\ r \notin known
    /\ LeaveWith(r, "UNKNOWN_DROP")
    /\ UNCHANGED <<known, guard, seen, reply, refusals, database>>

\* Broken variant: off by one at the last unit.
DecideRefusedEarly(r) ==
    /\ pc[r] = "decide"
    /\ seen[r] + 1 >= UnitsAvailable
    /\ LeaveWith(r, "REFUSED")
    /\ UNCHANGED <<known, guard, seen, reply, refusals, database>>

DecideRefused(r) ==
    /\ pc[r] = "decide"
    /\ seen[r] >= UnitsAvailable
    /\ LeaveWith(r, "REFUSED")
    /\ UNCHANGED <<known, guard, seen, reply, refusals, database>>

IncrementUnitsSold(r) ==
    /\ pc[r] = "decide"
    /\ seen[r] < UnitsAvailable
    /\ RowIsFree \/ RowIsMine(r)
    /\ UpdateRow(r)

------------------------------------------------------------------------------
(* The end of a transaction, seen by the server. *)

EndTransaction(r) ==
    /\ seen' = [seen EXCEPT ![r] = 0]
    /\ rowLock' = IF RowIsMine(r) THEN NoRequest ELSE rowLock
    /\ inserted' = inserted \ {r}
    /\ inDoubt' = inDoubt \ {r}

ApplyCommit(r) ==
    /\ units_sold' = IF r \in inserted THEN seen[r] ELSE units_sold
    /\ orders' = orders \cup (inserted \cap {r})
    /\ EndTransaction(r)

Commit(r) ==
    /\ pc[r] = "commit"
    /\ ApplyCommit(r)
    /\ Goto(r, "committed")
    /\ UNCHANGED <<known, guard, outcome, reply, refusals>>

\* Broken variant: the outcome is trusted although COMMIT was never confirmed.
ConnectionLostUnnoticed(r) ==
    /\ pc[r] \in InTransaction \ {"committed"}
    /\ Answer(r, StatusOf[outcome[r]])
    /\ inDoubt' = IF pc[r] = "commit" THEN inDoubt \cup {r} ELSE inDoubt
    /\ UNCHANGED <<known, seen, refusals, units_sold, orders, rowLock, inserted>>

\* The client raises OperationalError wherever it was inside the block: 503.
ConnectionLost(r) ==
    /\ pc[r] \in InTransaction \ {"committed"}
    /\ Answer(r, 503)
    /\ inDoubt' = IF pc[r] = "commit" THEN inDoubt \cup {r} ELSE inDoubt
    /\ UNCHANGED <<known, seen, refusals, units_sold, orders, rowLock, inserted>>

\* A transaction the client has abandoned and the server has not ended yet.
Abandoned(r) == pc[r] = "done" /\ (RowIsMine(r) \/ r \in inDoubt)

ServerRollback(r) ==
    /\ Abandoned(r)
    /\ EndTransaction(r)
    /\ UNCHANGED <<pc, known, guard, outcome, reply, refusals, units_sold, orders>>

ServerCommit(r) ==
    /\ Abandoned(r) /\ r \in inDoubt
    /\ ApplyCommit(r)
    /\ UNCHANGED <<pc, known, guard, outcome, reply, refusals>>

------------------------------------------------------------------------------
Statement(r) ==
    \/ ClaimUnit(r) \/ ClaimNothing(r) \/ Classify(r) \/ InsertOrder(r)
    \/ LockDrop(r) \/ LockNothing(r) \/ DecideRefused(r) \/ IncrementUnitsSold(r)

Progress(r) ==
    \/ AcquireConnection(r) \/ Statement(r) \/ Commit(r)
    \/ ReleaseConnection(r) \/ FinishOrder(r)

Next ==
    \E r \in Requests :
        \/ RejectEarly(r) \/ Accept(r) \/ Progress(r)
        \/ PoolTimeout(r) \/ ConnectionLost(r) \/ ServerRollback(r) \/ ServerCommit(r)

Spec == Init /\ [][Next]_vars

\* A handler and a backend are scheduled again until they are done; nothing
\* obliges a client to send, a pool to time out or a connection to break.
Fairness ==
    \A r \in Requests : WF_vars(Progress(r)) /\ WF_vars(ServerRollback(r) \/ ServerCommit(r))

FairSpec == Spec /\ Fairness

------------------------------------------------------------------------------
(* What makes the two guards correct. *)

\* The drop is never oversold, and no transaction even writes a row version that
\* the CHECK of schema.py would have to reject: the guards never reach their
\* backstop (schema.py: "a correct application never reaches them").
BackstopNeverReached ==
    /\ units_sold <= UnitsAvailable
    /\ \A r \in Requests : RowIsMine(r) => seen[r] <= UnitsAvailable

\* The drop's counter and the orders table agree whenever anybody can read them,
\* whatever was rolled back, abandoned or committed in doubt (store.read_drop).
CounterMatchesOrders == units_sold = Cardinality(orders)

\* Nobody is refused while a unit is left, not even one a concurrent
\* transaction has claimed and may still give back by rolling back.
RefusedOnlyWhenSoldOut ==
    \A r \in Requests : outcome[r] = "REFUSED" \/ reply[r] = 409 => Cardinality(orders) = UnitsAvailable

\* An answer is true for good: 201 owns a unit, 4xx owns none and has none on
\* its way, and a unit whose owner is answered was answered 201 or 503.
AnswersMatchOrders ==
    \A r \in Requests :
        /\ reply[r] = 201 => r \in orders
        /\ reply[r] \in {400, 401, 404, 409} => r \notin orders \cup inserted
        /\ r \in orders /\ pc[r] = "done" => reply[r] \in {201, 503}

\* When the burst is over and nothing failed, exactly as many units are sold as
\* the drop has or the burst asked for, and every other request left one event.
Quiet == \A r \in Requests : pc[r] \in {"idle", "done"} /\ ~Abandoned(r)
NothingFailed == \A r \in Requests : reply[r] # 503
ExactlyAvailableSold ==
    Quiet /\ NothingFailed =>
        LET asked == Cardinality(known)
        IN  /\ units_sold = IF asked < UnitsAvailable THEN asked ELSE UnitsAvailable
            /\ refusals = asked - units_sold

\* Every accepted request is answered: nobody waits for ever for a connection
\* or for the row, even when the connection that held it has been lost.
EveryRequestAnswered == \A r \in Requests : pc[r] = "pool" ~> pc[r] = "done"

\* The handlers implement the abstract ledger of DropLedger.
AnswerOf(status) == IF status = 0 THEN "none"
                    ELSE IF status = 201 THEN "confirmed"
                    ELSE IF status = 409 THEN "refused"
                    ELSE IF status = 503 THEN "unavailable"
                    ELSE "rejected"
Ledger == INSTANCE DropLedger
            WITH remaining <- UnitsAvailable - units_sold, sold <- orders,
                 answer <- [r \in Requests |-> AnswerOf(reply[r])]
ImplementsLedger == Ledger!Spec

=============================================================================
