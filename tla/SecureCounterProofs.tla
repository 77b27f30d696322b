------------------------- MODULE SecureCounterProofs -------------------------
(***************************************************************************)
(* For any number of requests, replicas, units and pooled connections: the *)
(* guards never oversell, the counter equals the orders, a refusal is only *)
(* ever given when the drop is sold out, every answer is true, and the     *)
(* handlers implement DropLedger.                                          *)
(*                                                                         *)
(* None of these is inductive alone.  IInv adds what the row lock          *)
(* protects: whoever has read or written the row in its transaction holds  *)
(* the lock, so what it saw is still the committed value.                  *)
(***************************************************************************)
EXTENDS SecureCounter, FiniteSetTheorems, TLAPS

\* A transaction that has read or written the row holds its lock, and only a
\* transaction that is still open, for its handler or for the server, does.
LockDiscipline ==
    \A r \in Requests :
        /\ pc[r] \in {"decide", "insert"} \/ r \in inserted => rowLock = r
        /\ rowLock = r => pc[r] \in {"decide", "insert", "commit", "done"}

\* What the lock holder saw is current; what it wrote is one more, and its
\* order is new.
HolderIsCurrent ==
    \A r \in Requests :
        /\ pc[r] = "decide" => seen[r] = units_sold
        /\ pc[r] = "insert" \/ r \in inserted =>
               seen[r] = units_sold + 1 /\ r \notin orders

\* How the handler, its answer and its transaction go together.
Stages ==
    \A r \in Requests :
        /\ pc[r] \in {"idle", "pool", "begun", "classify", "decide", "insert", "done"}
               <=> outcome[r] = "NONE"
        /\ pc[r] = "done" <=> reply[r] # 0
        /\ r \in inserted => \/ pc[r] = "commit" /\ outcome[r] = "CONFIRMED"
                             \/ pc[r] = "done" /\ r \in inDoubt
        /\ pc[r] = "commit" /\ outcome[r] = "CONFIRMED" => r \in inserted
        /\ pc[r] = "done" /\ rowLock = r => reply[r] = 503
        /\ r \in inDoubt => pc[r] = "done" /\ reply[r] = 503

\* Where a committed order can be found, and where a promised one must be.
OrderOwners ==
    \A r \in Requests :
        /\ r \in orders => \/ pc[r] \in {"committed", "finish"} /\ outcome[r] = "CONFIRMED"
                           \/ reply[r] \in {201, 503}
        /\ pc[r] \in {"committed", "finish"} /\ outcome[r] = "CONFIRMED" => r \in orders
        /\ reply[r] = 201 => r \in orders

\* A decision to refuse, made or being made, was made on a sold-out drop.
RefusalsAreFinal ==
    \A r \in Requests :
        (pc[r] = "classify" /\ r \in known) \/ outcome[r] = "REFUSED" \/ reply[r] = 409
            => units_sold = UnitsAvailable

IInv ==
    /\ TypeOK
    /\ BackstopNeverReached
    /\ CounterMatchesOrders
    /\ LockDiscipline
    /\ HolderIsCurrent
    /\ Stages
    /\ OrderOwners
    /\ RefusalsAreFinal

------------------------------------------------------------------------------
USE DEF Goto, Answer, LeaveWith, RowIsFree, RowIsMine, InTransaction

LEMMA OrdersAreFinite == TypeOK => IsFiniteSet(orders)
BY RequestsAssumption, FS_Subset DEF TypeOK

\* A new order raises the count of orders by one.
LEMMA OneMoreOrder ==
    ASSUME TypeOK, NEW r \in Requests, r \notin orders
    PROVE  Cardinality(orders \cup {r}) = Cardinality(orders) + 1
BY OrdersAreFinite, FS_AddElement

\* The initial state satisfies the inductive invariant.
LEMMA InitIInv == Init => IInv
BY RequestsAssumption, CapacityAssumption, FS_EmptySet
   DEF Init, IInv, TypeOK, BackstopNeverReached, CounterMatchesOrders, LockDiscipline,
       HolderIsCurrent, Stages, OrderOwners, RefusalsAreFinal, Places, Guards, Outcomes

\* Type correctness, one action at a time.
LEMMA NextTypeOK == TypeOK /\ [Next]_vars => TypeOK'
<1> SUFFICES ASSUME TypeOK, [Next]_vars PROVE TypeOK'
  OBVIOUS
<1> USE RequestsAssumption, CapacityAssumption DEF TypeOK, Places, Guards, Outcomes, database, handler
<1>1. CASE UNCHANGED vars
  BY <1>1 DEF vars
<1>2. ASSUME NEW r \in Requests, RejectEarly(r) PROVE TypeOK'
  BY <1>2 DEF RejectEarly
<1>3. ASSUME NEW r \in Requests, Accept(r) PROVE TypeOK'
  BY <1>3 DEF Accept
<1>4. ASSUME NEW r \in Requests, AcquireConnection(r) PROVE TypeOK'
  BY <1>4 DEF AcquireConnection
<1>5. ASSUME NEW r \in Requests, PoolTimeout(r) PROVE TypeOK'
  BY <1>5 DEF PoolTimeout
<1>6. ASSUME NEW r \in Requests, ReleaseConnection(r) PROVE TypeOK'
  BY <1>6 DEF ReleaseConnection
<1>7. ASSUME NEW r \in Requests, FinishOrder(r) PROVE TypeOK'
  <2>1. StatusOf[outcome[r]] \in {201, 404, 409, 503}
    BY DEF StatusOf
  <2> QED BY <1>7, <2>1 DEF FinishOrder
<1>8. ASSUME NEW r \in Requests, Statement(r) PROVE TypeOK'
  BY <1>8 DEF Statement, ClaimUnit, ClaimNothing, Classify, InsertOrder, LockDrop, LockNothing,
     DecideRefused, IncrementUnitsSold, UpdateRow
<1>9. ASSUME NEW r \in Requests, Commit(r) PROVE TypeOK'
  BY <1>9 DEF Commit, ApplyCommit, EndTransaction
<1>10. ASSUME NEW r \in Requests, ConnectionLost(r) PROVE TypeOK'
  BY <1>10 DEF ConnectionLost
<1>11. ASSUME NEW r \in Requests, ServerRollback(r) PROVE TypeOK'
  BY <1>11 DEF ServerRollback, EndTransaction
<1>12. ASSUME NEW r \in Requests, ServerCommit(r) PROVE TypeOK'
  BY <1>12 DEF ServerCommit, ApplyCommit, EndTransaction
<1> QED
  BY <1>1, <1>2, <1>3, <1>4, <1>5, <1>6, <1>7, <1>8, <1>9, <1>10, <1>11, <1>12
     DEF Next, Progress

\* The program's state always has its type, for every value of the constants.
THEOREM TypeCorrect == Spec => []TypeOK
<1>1. Init => TypeOK
  BY InitIInv DEF IInv
<1> QED BY <1>1, NextTypeOK, PTL DEF Spec

------------------------------------------------------------------------------
\* Executing a COMMIT, in time or in doubt, sells the unit the transaction
\* claimed, or changes nothing that is committed.
Sold(r) ==
    /\ r \in inserted /\ r \notin orders
    /\ units_sold' = units_sold + 1
    /\ orders' = orders \cup {r}
    /\ Cardinality(orders') = Cardinality(orders) + 1
    /\ units_sold < UnitsAvailable
    /\ rowLock = r /\ rowLock' = NoRequest

NothingSold(r) ==
    /\ r \notin inserted
    /\ UNCHANGED <<units_sold, orders, inserted>>
    /\ \A q \in Requests : q # r => (rowLock' = q <=> rowLock = q)

LEMMA CommitEffect ==
    ASSUME IInv, NEW r \in Requests, ApplyCommit(r)
    PROVE  Sold(r) \/ NothingSold(r)
<1> USE DEF Sold, NothingSold
<1>1. CASE r \in inserted
  <2>1. rowLock = r /\ seen[r] = units_sold + 1 /\ r \notin orders /\ seen[r] <= UnitsAvailable
    BY <1>1 DEF IInv, LockDiscipline, HolderIsCurrent, BackstopNeverReached
  <2>2. orders' = orders \cup {r} /\ units_sold' = units_sold + 1 /\ rowLock' = NoRequest
    BY <1>1, <2>1 DEF ApplyCommit, EndTransaction
  <2>3. units_sold < UnitsAvailable
    BY <2>1, CapacityAssumption DEF IInv, TypeOK
  <2> QED BY <1>1, <2>1, <2>2, <2>3, OneMoreOrder DEF IInv
<1>2. CASE r \notin inserted
  BY <1>2, RequestsAssumption DEF ApplyCommit, EndTransaction, IInv, TypeOK
<1> QED BY <1>1, <1>2

\* Every step keeps the inductive invariant.
LEMMA NextIInv == IInv /\ [Next]_vars => IInv'
<1> SUFFICES ASSUME IInv, [Next]_vars PROVE IInv'
  OBVIOUS
<1> USE RequestsAssumption, CapacityAssumption
<1>1. TypeOK'
  BY NextTypeOK DEF IInv
<1> DEFINE Rest == /\ BackstopNeverReached' /\ CounterMatchesOrders' /\ LockDiscipline'
                   /\ HolderIsCurrent' /\ Stages' /\ OrderOwners' /\ RefusalsAreFinal'
<1> USE DEF BackstopNeverReached, CounterMatchesOrders, LockDiscipline, HolderIsCurrent,
            Stages, OrderOwners, RefusalsAreFinal
<1>2. CASE UNCHANGED vars
  BY <1>1, <1>2 DEF IInv, vars, handler, database
<1>3. ASSUME NEW r \in Requests, RejectEarly(r) PROVE Rest
  BY <1>1, <1>3 DEF IInv, RejectEarly, TypeOK, database
<1>4. ASSUME NEW r \in Requests, Accept(r) PROVE Rest
  <2>1. \A q \in Requests : q # r => pc'[q] = pc[q] /\ (q \in known' <=> q \in known)
    BY <1>4 DEF IInv, Accept, TypeOK
  <2>2. pc[r] = "idle" /\ pc'[r] = "pool"
    BY <1>4 DEF IInv, Accept, TypeOK
  <2>3. UNCHANGED <<seen, outcome, reply, database>>
    BY <1>4 DEF Accept
  <2> QED BY <2>1, <2>2, <2>3 DEF IInv, database
<1>5. ASSUME NEW r \in Requests, AcquireConnection(r) PROVE Rest
  BY <1>1, <1>5 DEF IInv, AcquireConnection, TypeOK, database
<1>6. ASSUME NEW r \in Requests, PoolTimeout(r) PROVE Rest
  BY <1>1, <1>6 DEF IInv, PoolTimeout, TypeOK, database
<1>7. ASSUME NEW r \in Requests, ReleaseConnection(r) PROVE Rest
  BY <1>1, <1>7 DEF IInv, ReleaseConnection, TypeOK, database
<1>8. ASSUME NEW r \in Requests, FinishOrder(r) PROVE Rest
  <2>1. outcome[r] \in {"CONFIRMED", "REFUSED", "UNKNOWN_DROP"}
    BY <1>8 DEF IInv, TypeOK, Outcomes, FinishOrder
  <2>2. reply' = [reply EXCEPT ![r] = StatusOf[outcome[r]]]
    BY <1>8 DEF FinishOrder
  <2> QED BY <1>1, <1>8, <2>1, <2>2 DEF IInv, FinishOrder, TypeOK, database, StatusOf
<1>9. ASSUME NEW r \in Requests, ClaimUnit(r) PROVE Rest
  BY <1>1, <1>9 DEF IInv, ClaimUnit, UpdateRow, TypeOK
<1>10. ASSUME NEW r \in Requests, ClaimNothing(r) PROVE Rest
  BY <1>1, <1>10 DEF IInv, ClaimNothing, TypeOK, database
<1>11. ASSUME NEW r \in Requests, Classify(r) PROVE Rest
  BY <1>1, <1>11 DEF IInv, Classify, TypeOK, database
<1>12. ASSUME NEW r \in Requests, InsertOrder(r) PROVE Rest
  BY <1>1, <1>12 DEF IInv, InsertOrder, TypeOK
<1>13. ASSUME NEW r \in Requests, LockDrop(r) PROVE Rest
  BY <1>1, <1>13 DEF IInv, LockDrop, TypeOK
<1>14. ASSUME NEW r \in Requests, LockNothing(r) PROVE Rest
  BY <1>1, <1>14 DEF IInv, LockNothing, TypeOK, database
<1>15. ASSUME NEW r \in Requests, DecideRefused(r) PROVE Rest
  BY <1>1, <1>15 DEF IInv, DecideRefused, TypeOK, database
<1>16. ASSUME NEW r \in Requests, IncrementUnitsSold(r) PROVE Rest
  BY <1>1, <1>16 DEF IInv, IncrementUnitsSold, UpdateRow, TypeOK
<1>17. ASSUME NEW r \in Requests, Commit(r) PROVE Rest
  <2>1. ApplyCommit(r)
    BY <1>17 DEF Commit
  <2>2. Sold(r) \/ NothingSold(r)
    BY <2>1, CommitEffect
  <2>3. ASSUME Sold(r) PROVE Rest
    <3>1. \A q \in Requests : q # r => rowLock # q /\ q \notin inserted /\ pc[q] \notin {"decide", "insert"}
      BY <2>3 DEF IInv, Sold, TypeOK
    <3> QED BY <1>1, <1>17, <2>1, <2>3, <3>1
            DEF IInv, Commit, ApplyCommit, EndTransaction, TypeOK, Sold
  <2>4. ASSUME NothingSold(r) PROVE Rest
    <3>1. UNCHANGED <<units_sold, orders, inserted, outcome, reply, known>> /\ r \notin inserted
      BY <1>17, <2>4 DEF NothingSold, Commit
    <3>2. rowLock' # r /\ seen'[r] = 0 /\ r \notin inDoubt'
      BY <2>1 DEF IInv, TypeOK, ApplyCommit, EndTransaction
    <3>3. pc[r] = "commit" /\ pc'[r] = "committed"
      BY <1>17 DEF IInv, TypeOK, Commit
    <3>5. CounterMatchesOrders'
      BY <3>1 DEF IInv
    <3>4. \A q \in Requests : rowLock' = q => rowLock = q /\ seen'[q] = seen[q]
      BY <1>1, <1>17, <2>1, <3>2 DEF IInv, TypeOK, ApplyCommit, EndTransaction, Commit
    <3>6. BackstopNeverReached'
      BY <3>1, <3>4 DEF IInv
    <3>7. LockDiscipline' /\ RefusalsAreFinal'
      BY <1>1, <1>17, <2>1, <3>1, <3>2, <3>3 DEF IInv, TypeOK, ApplyCommit, EndTransaction, Commit
    <3>8. HolderIsCurrent'
      BY <1>1, <1>17, <2>1, <3>1, <3>2, <3>3 DEF IInv, TypeOK, ApplyCommit, EndTransaction, Commit
    <3>9. Stages'
      BY <1>1, <1>17, <2>1, <3>1, <3>2, <3>3 DEF IInv, TypeOK, ApplyCommit, EndTransaction, Commit
    <3>10. OrderOwners'
      BY <1>1, <1>17, <2>1, <3>1, <3>2, <3>3 DEF IInv, TypeOK, ApplyCommit, EndTransaction, Commit
    <3> QED BY <3>5, <3>6, <3>7, <3>8, <3>9, <3>10
  <2> QED BY <2>2, <2>3, <2>4
<1>18. ASSUME NEW r \in Requests, ConnectionLost(r) PROVE Rest
  BY <1>1, <1>18 DEF IInv, ConnectionLost, TypeOK
<1>19. ASSUME NEW r \in Requests, ServerRollback(r) PROVE Rest
  BY <1>1, <1>19 DEF IInv, ServerRollback, EndTransaction, Abandoned, TypeOK
<1>20. ASSUME NEW r \in Requests, ServerCommit(r) PROVE Rest
  <2>1. ApplyCommit(r)
    BY <1>20 DEF ServerCommit
  <2>2. Sold(r) \/ NothingSold(r)
    BY <2>1, CommitEffect
  <2>3. ASSUME Sold(r) PROVE Rest
    <3>1. \A q \in Requests : q # r => rowLock # q /\ q \notin inserted /\ pc[q] \notin {"decide", "insert"}
      BY <2>3 DEF IInv, Sold, TypeOK
    <3> QED BY <1>1, <1>20, <2>1, <2>3, <3>1
            DEF IInv, ServerCommit, ApplyCommit, EndTransaction, TypeOK, Abandoned, Sold
  <2>4. ASSUME NothingSold(r) PROVE Rest
    <3>1. UNCHANGED <<units_sold, orders, inserted, outcome, reply, known>> /\ r \notin inserted
      BY <1>20, <2>4 DEF NothingSold, ServerCommit
    <3>3. rowLock' # r /\ seen'[r] = 0 /\ r \notin inDoubt'
      BY <2>1 DEF IInv, TypeOK, ApplyCommit, EndTransaction
    <3>4. pc[r] = "done" /\ pc'[r] = "done"
      BY <1>20 DEF IInv, TypeOK, ServerCommit, Abandoned
    <3>5. BackstopNeverReached' /\ CounterMatchesOrders' /\ LockDiscipline' /\ RefusalsAreFinal'
      BY <1>1, <1>20, <2>1, <3>1, <3>3, <3>4 DEF IInv, TypeOK, ApplyCommit, EndTransaction, ServerCommit, Abandoned
    <3>6. HolderIsCurrent'
      BY <1>1, <1>20, <2>1, <3>1, <3>3, <3>4 DEF IInv, TypeOK, ApplyCommit, EndTransaction, ServerCommit, Abandoned
    <3>7. Stages'
      BY <1>1, <1>20, <2>1, <3>1, <3>3, <3>4 DEF IInv, TypeOK, ApplyCommit, EndTransaction, ServerCommit, Abandoned
    <3>8. OrderOwners'
      BY <1>1, <1>20, <2>1, <3>1, <3>3, <3>4 DEF IInv, TypeOK, ApplyCommit, EndTransaction, ServerCommit, Abandoned
    <3> QED BY <3>5, <3>6, <3>7, <3>8
  <2> QED BY <2>2, <2>3, <2>4
<1>21. Rest => IInv'
  BY <1>1 DEF IInv
<1> HIDE DEF Rest
<1> QED
  BY <1>2, <1>3, <1>4, <1>5, <1>6, <1>7, <1>8, <1>9, <1>10, <1>11, <1>12, <1>13,
     <1>14, <1>15, <1>16, <1>17, <1>18, <1>19, <1>20, <1>21
     DEF Next, Progress, Statement

\* The inductive invariant holds in every reachable state.
THEOREM Invariance == Spec => []IInv
BY InitIInv, NextIInv, PTL DEF Spec

\* The drop is never oversold and its CHECK is never needed.
THEOREM NeverOversold == Spec => []BackstopNeverReached
<1>1. IInv => BackstopNeverReached
  BY DEF IInv
<1> QED BY <1>1, Invariance, PTL

\* The counter and the orders agree whatever failed.
THEOREM CounterAgrees == Spec => []CounterMatchesOrders
<1>1. IInv => CounterMatchesOrders
  BY DEF IInv
<1> QED BY <1>1, Invariance, PTL

\* A refusal means that every unit is sold, committed.
THEOREM RefusalMeansSoldOut == Spec => []RefusedOnlyWhenSoldOut
<1>1. IInv => RefusedOnlyWhenSoldOut
  BY DEF IInv, RefusalsAreFinal, CounterMatchesOrders, RefusedOnlyWhenSoldOut
<1> QED BY <1>1, Invariance, PTL

\* What a buyer was told is what the ledger says.
THEOREM AnswersAreTrue == Spec => []AnswersMatchOrders
<1>1. IInv => AnswersMatchOrders
  BY DEF IInv, TypeOK, Stages, OrderOwners, AnswersMatchOrders
<1> QED BY <1>1, Invariance, PTL

------------------------------------------------------------------------------
(* What a quiet burst adds up to: every request for the drop is an order or a  *)
(* refusal, and every refusal is one event.                                    *)

\* Who names the drop is answered 201, 409 or 503, and who does not is not.
KnownAnswers ==
    \A r \in Requests :
        /\ pc[r] \in {"decide", "insert"} \/ outcome[r] \in {"CONFIRMED", "REFUSED"}
               \/ reply[r] \in {201, 409} => r \in known
        /\ pc[r] = "idle" \/ outcome[r] = "UNKNOWN_DROP" \/ reply[r] \in {400, 401, 404}
               => r \notin known

Refused == {r \in Requests : reply[r] = 409}

Audited == TypeOK /\ Stages /\ KnownAnswers /\ refusals = Cardinality(Refused)

LEMMA RefusedIsFinite == IsFiniteSet(Refused) /\ Cardinality(Refused) \in Nat
BY RequestsAssumption, FS_Subset, FS_CardinalityType DEF Refused

\* Who names the drop is settled when the request is accepted.
LEMMA NextKnownAnswers == TypeOK /\ Stages /\ KnownAnswers /\ [Next]_vars => KnownAnswers'
<1> SUFFICES ASSUME TypeOK, Stages, KnownAnswers, [Next]_vars PROVE KnownAnswers'
  OBVIOUS
<1> USE DEF TypeOK, KnownAnswers, database, handler
<1>1. CASE UNCHANGED vars
  BY <1>1 DEF vars
<1>2. ASSUME NEW r \in Requests, RejectEarly(r) PROVE KnownAnswers'
  BY <1>2 DEF RejectEarly
<1>3. ASSUME NEW r \in Requests, Accept(r) PROVE KnownAnswers'
  BY <1>3 DEF Accept, Stages
<1>4. ASSUME NEW r \in Requests, AcquireConnection(r) \/ PoolTimeout(r) PROVE KnownAnswers'
  BY <1>4 DEF AcquireConnection, PoolTimeout
<1>5. ASSUME NEW r \in Requests, ReleaseConnection(r) \/ ConnectionLost(r) PROVE KnownAnswers'
  BY <1>5 DEF ReleaseConnection, ConnectionLost
<1>6. ASSUME NEW r \in Requests, FinishOrder(r) PROVE KnownAnswers'
  <2>1. outcome[r] \in {"CONFIRMED", "REFUSED", "UNKNOWN_DROP"}
    BY <1>6 DEF Outcomes, FinishOrder, Stages
  <2> QED BY <1>6, <2>1 DEF FinishOrder, StatusOf
<1>7. ASSUME NEW r \in Requests, ClaimUnit(r) \/ ClaimNothing(r) PROVE KnownAnswers'
  BY <1>7 DEF ClaimUnit, UpdateRow, ClaimNothing
<1>8. ASSUME NEW r \in Requests, Classify(r) PROVE KnownAnswers'
  BY <1>8 DEF Classify
<1>9. ASSUME NEW r \in Requests, InsertOrder(r) PROVE KnownAnswers'
  BY <1>9 DEF InsertOrder
<1>10. ASSUME NEW r \in Requests, LockDrop(r) \/ LockNothing(r) PROVE KnownAnswers'
  BY <1>10 DEF LockDrop, LockNothing
<1>11. ASSUME NEW r \in Requests, DecideRefused(r) \/ IncrementUnitsSold(r) PROVE KnownAnswers'
  BY <1>11 DEF DecideRefused, IncrementUnitsSold, UpdateRow
<1>12. ASSUME NEW r \in Requests, Commit(r) \/ ServerRollback(r) \/ ServerCommit(r)
       PROVE  KnownAnswers'
  BY <1>12 DEF Commit, ServerRollback, ServerCommit
<1> QED
  BY <1>1, <1>2, <1>3, <1>4, <1>5, <1>6, <1>7, <1>8, <1>9, <1>10, <1>11, <1>12
     DEF Next, Progress, Statement

LEMMA OneMoreRefused ==
    ASSUME NEW r, r \notin Refused
    PROVE  Cardinality(Refused \cup {r}) = Cardinality(Refused) + 1
BY RefusedIsFinite, FS_AddElement

\* The audit log grows with the refusals and with nothing else.
LEMMA NextAudited == IInv /\ Audited /\ [Next]_vars => (refusals = Cardinality(Refused))'
<1> SUFFICES ASSUME IInv, Audited, [Next]_vars PROVE refusals' = Cardinality(Refused')
  BY DEF Refused
<1> USE DEF Audited, TypeOK, database, handler
<1>1. CASE UNCHANGED <<refusals, reply>>
  BY <1>1 DEF Refused
<1>2. ASSUME NEW r \in Requests, NEW status, status # 409, reply[r] = 0,
             reply' = [reply EXCEPT ![r] = status], UNCHANGED refusals
      PROVE  refusals' = Cardinality(Refused')
  <2>1. Refused' = Refused
    BY <1>2 DEF Refused
  <2> QED BY <1>2, <2>1
<1>3. ASSUME NEW r \in Requests, RejectEarly(r) \/ PoolTimeout(r) \/ ConnectionLost(r)
      PROVE  refusals' = Cardinality(Refused')
  BY <1>2, <1>3 DEF RejectEarly, PoolTimeout, ConnectionLost, Stages
<1>4. ASSUME NEW r \in Requests, FinishOrder(r) PROVE refusals' = Cardinality(Refused')
  <2>1. outcome[r] \in {"CONFIRMED", "REFUSED", "UNKNOWN_DROP"} /\ reply[r] = 0
    BY <1>4 DEF Outcomes, FinishOrder, Stages
  <2>2. reply' = [reply EXCEPT ![r] = StatusOf[outcome[r]]]
    BY <1>4 DEF FinishOrder
  <2>3. CASE outcome[r] = "REFUSED"
    <3>1. Refused' = Refused \cup {r} /\ r \notin Refused /\ refusals' = refusals + 1
      BY <1>4, <2>1, <2>2, <2>3 DEF Refused, FinishOrder, StatusOf
    <3>2. Cardinality(Refused \cup {r}) = Cardinality(Refused) + 1
      BY <3>1, OneMoreRefused
    <3> QED BY <3>1, <3>2
  <2>4. CASE outcome[r] # "REFUSED"
    <3>1. StatusOf[outcome[r]] # 409 /\ UNCHANGED refusals
      BY <1>4, <2>1, <2>4 DEF FinishOrder, StatusOf
    <3>2. Refused' = Refused
      BY <2>1, <2>2, <3>1 DEF Refused
    <3> QED BY <3>1, <3>2
  <2> QED BY <2>3, <2>4
<1>5. ASSUME NEW r \in Requests,
             \/ Accept(r) \/ AcquireConnection(r) \/ ReleaseConnection(r) \/ Statement(r)
             \/ Commit(r) \/ ServerRollback(r) \/ ServerCommit(r)
      PROVE  UNCHANGED <<refusals, reply>>
  BY <1>5 DEF Accept, AcquireConnection, ReleaseConnection, Statement, ClaimUnit, ClaimNothing,
     Classify, InsertOrder, LockDrop, LockNothing, DecideRefused, IncrementUnitsSold, UpdateRow,
     Commit, ServerRollback, ServerCommit
<1>6. CASE UNCHANGED vars
  BY <1>1, <1>6 DEF vars
<1> QED BY <1>1, <1>3, <1>4, <1>5, <1>6 DEF Next, Progress

\* In a quiet burst without failures the requests for the drop are the orders
\* and the refusals, and nobody is refused while a unit is left.
LEMMA QuietAddsUp == IInv /\ Audited => ExactlyAvailableSold
<1> SUFFICES ASSUME IInv, Audited, Quiet, NothingFailed
             PROVE  /\ units_sold = IF Cardinality(known) < UnitsAvailable
                                    THEN Cardinality(known) ELSE UnitsAvailable
                    /\ refusals = Cardinality(known) - units_sold
  BY DEF ExactlyAvailableSold
<1> USE DEF IInv, Audited, TypeOK, Quiet, NothingFailed
<1>1. known = orders \cup Refused
  BY DEF Refused, KnownAnswers, Stages, OrderOwners
<1>2. orders \cap Refused = {}
  BY DEF Refused, Stages, OrderOwners
<1>3. IsFiniteSet(orders) /\ Cardinality(orders) = units_sold
  BY OrdersAreFinite DEF CounterMatchesOrders
<1>4. Cardinality(known) = units_sold + refusals
  <2>1. Cardinality(orders \cap Refused) = 0
    BY <1>2, FS_EmptySet
  <2>2. Cardinality(orders \cup Refused)
            = Cardinality(orders) + Cardinality(Refused) - Cardinality(orders \cap Refused)
    BY <1>3, RefusedIsFinite, FS_Union
  <2> QED BY <1>1, <1>3, <2>1, <2>2, RefusedIsFinite
<1>5. units_sold <= UnitsAvailable
  BY DEF BackstopNeverReached
<1>6. refusals # 0 => units_sold = UnitsAvailable
  BY RefusedIsFinite, FS_EmptySet DEF Refused, RefusalsAreFinal
<1> QED BY <1>4, <1>5, <1>6, CapacityAssumption

\* When the burst is over and nothing failed, exactly as many units are sold as
\* there were or as were asked for, and every refusal is one event.
THEOREM ExactlySold == Spec => []ExactlyAvailableSold
<1>1. Init => Audited
  BY InitIInv, FS_EmptySet DEF IInv, Audited, Init, KnownAnswers, Refused
<1>2. IInv /\ Audited /\ [Next]_vars => Audited'
  BY NextIInv, NextKnownAnswers, NextAudited DEF IInv, Audited
<1> QED BY <1>1, <1>2, Invariance, QuietAddsUp, PTL DEF Spec

------------------------------------------------------------------------------
(* Refinement: every step of the handlers is a step of the ledger. *)

\* Request r is told `status', and the ledger agrees.
Tells(r, status) ==
    /\ status \in {201, 400, 401, 404, 409, 503}
    /\ reply[r] = 0
    /\ reply' = [reply EXCEPT ![r] = status]
    /\ UNCHANGED <<orders, units_sold>>
    /\ status = 201 => r \in orders
    /\ status # 201 /\ status # 503 => r \notin orders
    /\ status = 409 => units_sold = UnitsAvailable

\* A function that differs from another in one place.
LEMMA Updated ==
    ASSUME NEW S, NEW f, NEW g, NEW y \in S, NEW v,
           f = [x \in S |-> f[x]], g = [x \in S |-> g[x]],
           \A x \in S : g[x] = IF x = y THEN v ELSE f[x]
    PROVE  g = [f EXCEPT ![y] = v]
OBVIOUS

\* The DropLedger action each answer is.
LEMMA AnswerStep ==
    ASSUME IInv, NEW r \in Requests, NEW status, Tells(r, status)
    PROVE  Ledger!Next
<1> USE DEF Tells
<1> DEFINE answer == [q \in Requests |-> AnswerOf(reply[q])]
<1>1. \A q \in Requests : reply'[q] = IF q = r THEN status ELSE reply[q]
  BY DEF IInv, TypeOK
<1>2. \A q \in Requests : AnswerOf(reply'[q]) = IF q = r THEN AnswerOf(status) ELSE AnswerOf(reply[q])
  BY <1>1
<1>3. answer' = [answer EXCEPT ![r] = AnswerOf(status)]
  <2>1. \A q \in Requests : answer'[q] = IF q = r THEN AnswerOf(status) ELSE answer[q]
    BY <1>2
  <2>2. answer = [q \in Requests |-> answer[q]] /\ answer' = [q \in Requests |-> answer'[q]]
    OBVIOUS
  <2> HIDE DEF answer
  <2> QED BY <2>1, <2>2, Updated
<1>4. answer[r] = "none"
  BY DEF AnswerOf
<1>5. Ledger!Tell(r, AnswerOf(status))
  BY <1>3, <1>4 DEF Ledger!Tell
<1>6. CASE status = 201
  BY <1>5, <1>6 DEF Ledger!Next, Ledger!Confirm, AnswerOf
<1>7. CASE status = 409
  <2>1. UnitsAvailable - units_sold = 0
    BY <1>7, CapacityAssumption
  <2> QED BY <1>5, <1>7, <2>1 DEF Ledger!Next, Ledger!Refuse, AnswerOf
<1>8. CASE status = 503
  BY <1>5, <1>8 DEF Ledger!Next, Ledger!Fail, AnswerOf
<1>9. CASE status \in {400, 401, 404}
  BY <1>5, <1>9 DEF Ledger!Next, Ledger!Reject, AnswerOf
<1> QED BY <1>6, <1>7, <1>8, <1>9

\* A committed claim is a sale of the ledger.
LEMMA SaleStep ==
    ASSUME IInv, NEW r \in Requests, Sold(r), UNCHANGED reply, reply[r] \in {0, 503}
    PROVE  Ledger!Next
<1>1. UnitsAvailable - units_sold > 0
      /\ (UnitsAvailable - units_sold)' = (UnitsAvailable - units_sold) - 1
  BY CapacityAssumption DEF Sold, IInv, TypeOK
<1>2. AnswerOf(reply[r]) \in {"none", "unavailable"}
  BY DEF AnswerOf
<1>3. Ledger!Sell(r)
  BY <1>1, <1>2 DEF Ledger!Sell, Sold
<1> QED BY <1>3 DEF Ledger!Next

\* Every step of the handlers is a step of the ledger or changes nothing in it.
LEMMA StepSimulation == IInv /\ [Next]_vars => [Ledger!Next]_(Ledger!ledger)
<1> SUFFICES ASSUME IInv, [Next]_vars
             PROVE  Ledger!Next \/ UNCHANGED <<orders, units_sold, reply>>
  BY DEF Ledger!ledger
<1>1. CASE UNCHANGED vars
  BY <1>1 DEF vars, handler, database
<1>2. ASSUME NEW r \in Requests, RejectEarly(r) PROVE Ledger!Next
  <2>1. \/ reply' = [reply EXCEPT ![r] = 400]
        \/ reply' = [reply EXCEPT ![r] = 401]
    BY <1>2 DEF RejectEarly
  <2>2. reply[r] = 0 /\ r \notin orders /\ UNCHANGED <<orders, units_sold>>
    BY <1>2 DEF RejectEarly, IInv, Stages, OrderOwners, database
  <2>3. Tells(r, 400) \/ Tells(r, 401)
    BY <2>1, <2>2 DEF Tells
  <2> QED BY <2>3, AnswerStep
<1>3. ASSUME NEW r \in Requests, PoolTimeout(r) PROVE Ledger!Next
  <2>1. Tells(r, 503)
    BY <1>3 DEF PoolTimeout, IInv, Stages, Tells, database
  <2> QED BY <2>1, AnswerStep
<1>4. ASSUME NEW r \in Requests, ConnectionLost(r) PROVE Ledger!Next
  <2>1. Tells(r, 503)
    BY <1>4 DEF ConnectionLost, IInv, Stages, Tells
  <2> QED BY <2>1, AnswerStep
<1>5. ASSUME NEW r \in Requests, FinishOrder(r) PROVE Ledger!Next
  <2>1. outcome[r] \in {"CONFIRMED", "REFUSED", "UNKNOWN_DROP"} /\ reply[r] = 0
    BY <1>5 DEF IInv, TypeOK, Outcomes, FinishOrder, Stages
  <2>2. reply' = [reply EXCEPT ![r] = StatusOf[outcome[r]]] /\ UNCHANGED <<orders, units_sold>>
    BY <1>5 DEF FinishOrder, database
  <2>3. outcome[r] = "CONFIRMED" <=> r \in orders
    BY <1>5, <2>1 DEF IInv, OrderOwners, FinishOrder
  <2>4. outcome[r] = "REFUSED" => units_sold = UnitsAvailable
    BY DEF IInv, RefusalsAreFinal
  <2>5. Tells(r, StatusOf[outcome[r]])
    BY <2>1, <2>2, <2>3, <2>4 DEF StatusOf, Tells
  <2> QED BY <2>5, AnswerStep
<1>6. ASSUME NEW r \in Requests, Commit(r) PROVE Ledger!Next \/ UNCHANGED <<orders, units_sold, reply>>
  <2>1. ApplyCommit(r) /\ UNCHANGED reply /\ reply[r] = 0
    BY <1>6 DEF Commit, IInv, Stages
  <2> QED BY <2>1, CommitEffect, SaleStep DEF NothingSold
<1>7. ASSUME NEW r \in Requests, ServerCommit(r) PROVE Ledger!Next \/ UNCHANGED <<orders, units_sold, reply>>
  <2>1. ApplyCommit(r) /\ UNCHANGED reply /\ reply[r] = 503
    BY <1>7 DEF ServerCommit, IInv, Stages
  <2> QED BY <2>1, CommitEffect, SaleStep DEF NothingSold
<1>8. ASSUME NEW r \in Requests,
             \/ Accept(r) \/ AcquireConnection(r) \/ ReleaseConnection(r)
             \/ Statement(r) \/ ServerRollback(r)
      PROVE  UNCHANGED <<orders, units_sold, reply>>
  BY <1>8 DEF Accept, AcquireConnection, ReleaseConnection, ServerRollback, Statement,
     ClaimUnit, ClaimNothing, Classify, InsertOrder, LockDrop, LockNothing, DecideRefused,
     IncrementUnitsSold, UpdateRow, database
<1> QED
  BY <1>1, <1>2, <1>3, <1>4, <1>5, <1>6, <1>7, <1>8 DEF Next, Progress

\* The two guards, with every failure they can meet, implement the ledger.
THEOREM Refinement == Spec => ImplementsLedger
<1>1. Init => Ledger!Init
  BY CapacityAssumption DEF Init, Ledger!Init, AnswerOf
<1> QED BY <1>1, StepSimulation, Invariance, PTL DEF Spec, ImplementsLedger, Ledger!Spec

=============================================================================
