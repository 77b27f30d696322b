-------------------------- MODULE CheckThenActProofs --------------------------
(***************************************************************************)
(* For any burst, any of the four shapes, any number of replicas and any   *)
(* pool: the store's two numbers agree, the backstop holds where it is in  *)
(* place, every answer is true when it is given, no overrun is invisible   *)
(* on the timeline, the second connection never has to be waited for, and  *)
(* the overrun is no larger than the window is wide.                       *)
(*                                                                         *)
(* What makes these provable is the row lock of the act: whoever has       *)
(* written and not committed holds it, so at most one write is pending.    *)
(* Nothing of the kind protects the check: without the backstop the value  *)
(* is bounded only by how many can be between a check and its act.         *)
(***************************************************************************)
EXTENDS CheckThenAct, FiniteSetTheorems, TLAPS

\* Who has acted and not committed holds the row.
OneWriter ==
    \A r \in Requests :
        /\ pc[r] = "insert" \/ r \in inserted => rowLock = r /\ r \notin rows
        /\ rowLock = r => pc[r] \in {"insert", "record", "commit", "done"}
        /\ rowLock = r /\ pc[r] = "record" => Shape = "single_transaction"

\* How the handler, its outcome, its answer and its transaction go together.
Deciding == {"idle", "pool", "instrumentation", "lock", "check", "window", "act", "insert"}
Stages ==
    \A r \in Requests :
        /\ pc[r] \in Deciding \cup {"done"} <=> outcome[r] = "NONE"
        /\ pc[r] = "done" <=> reply[r] # 0
        /\ r \in inserted => \/ pc[r] \in {"record", "commit"} /\ outcome[r] = "CONFIRMED"
                             \/ pc[r] = "done" /\ reply[r] = 503
        /\ pc[r] = "commit" /\ outcome[r] = "CONFIRMED" => r \in inserted
        /\ pc[r] = "commit" /\ outcome[r] # "CONFIRMED" => Shape = "single_transaction"
        /\ pc[r] = "record" => /\ outcome[r] = "CONFIRMED"
                               /\ r \in inserted <=> Shape = "single_transaction"
        /\ pc[r] = "done" /\ rowLock = r => reply[r] = 503
        /\ r \in inDoubt => pc[r] = "done" /\ reply[r] = 503

\* Where a committed row can be found, and where a promised one must be.
Committed(r) ==
    /\ outcome[r] = "CONFIRMED"
    /\ \/ pc[r] \in {"unlock", "ended", "finish"}
       \/ pc[r] = "record" /\ Shape # "single_transaction"
RowOwners ==
    \A r \in Requests :
        /\ r \in rows => Committed(r) \/ reply[r] \in {201, 503}
        /\ Committed(r) \/ reply[r] = 201 => r \in rows

\* The value never falls, so a refusal stays right.
RefusalsAreFinal ==
    \A r \in Requests : outcome[r] = "REFUSED" \/ reply[r] = 409 => value >= Limit

\* With its constraint in place the pending write fits.
PendingFits ==
    \A r \in Requests :
        scenario.backstop /\ (r \in inserted \/ (pc[r] = "insert" /\ Shape # "redemption"))
            => value < Limit

\* Whoever writes has read a value below the limit, and said so on the timeline.
WritersHaveRead ==
    \A r \in Requests :
        pc[r] \in {"window", "act", "insert"} \/ r \in inserted \/ r \in rows =>
            r \in checks /\ Sold0 <= observed[r] /\ observed[r] < Limit

\* What holds of a burst however it begins.
Core ==
    /\ TypeOK
    /\ CounterMatchesRows
    /\ BackstopHolds
    /\ OneWriter
    /\ Stages
    /\ RowOwners
    /\ RefusalsAreFinal
    /\ PendingFits

IInv == Core /\ WritersHaveRead

\* No replica has handed out more request connections than its pool has.
PoolRespected ==
    \A r \in Requests : Cardinality(OnMyReplica(r, HoldsConnection)) <= PoolSize

------------------------------------------------------------------------------
USE DEF Goto, Answer, Unlock, RowIsFree, RowIsMine

\* The requests are finitely many, and none of them is nobody.
LEMMA RequestsAreFinite == IsFiniteSet(Requests) /\ NoRequest \notin Requests
BY BurstAssumption, FS_Interval DEF Requests

\* What is known of the scenario.
LEMMA ScenarioFacts ==
    ASSUME scenario \in Scenarios
    PROVE  /\ Shape \in Shapes /\ Limit \in Nat /\ Sold0 \in Nat
           /\ Sold0 <= Limit
           /\ Shape = "redemption" => Limit = 1 /\ Sold0 = 0
           /\ scenario.backstop \in BOOLEAN
BY BurstAssumption DEF Shape, Limit, Sold0, ScenarioType, Shapes

LEMMA RowsAreFinite == TypeOK => IsFiniteSet(rows) /\ Cardinality(rows) \in Nat
BY RequestsAreFinite, FS_Subset, FS_CardinalityType DEF TypeOK

\* A new row raises their number by one.
LEMMA OneMoreRow ==
    ASSUME TypeOK, NEW r \in Requests, r \notin rows
    PROVE  Cardinality(rows \cup {r}) = Cardinality(rows) + 1
BY RowsAreFinite, FS_AddElement

LEMMA ReturnedTo ==
    /\ Returned \in {"unlock", "commit", "ended"}
    /\ Returned = "commit" <=> Shape = "single_transaction"
BY DEF Returned

\* The initial state satisfies the inductive invariant.
LEMMA InitIInv == Init => IInv
<1> SUFFICES ASSUME Init PROVE IInv
  OBVIOUS
<1>1. scenario \in Scenarios
  BY DEF Init, StartsWith
<1>2. TypeOK
  BY <1>1, ScenarioFacts, RequestsAreFinite
     DEF Init, StartsWith, TypeOK, Places, HoldsConnection, Inside, Outcomes
<1>3. CounterMatchesRows /\ BackstopHolds
  BY <1>1, ScenarioFacts, FS_EmptySet DEF Init, StartsWith, CounterMatchesRows, BackstopHolds
<1> QED
  BY <1>1, <1>2, <1>3, RequestsAreFinite
     DEF Init, StartsWith, IInv, Core, OneWriter, Stages, RowOwners, RefusalsAreFinal,
         PendingFits, WritersHaveRead, Committed, Deciding

\* Type correctness, one action at a time.
LEMMA NextTypeOK == TypeOK /\ [Next]_vars => TypeOK'
<1> SUFFICES ASSUME TypeOK, [Next]_vars PROVE TypeOK'
  OBVIOUS
<1> USE RequestsAreFinite DEF TypeOK, Places, HoldsConnection, Inside, Outcomes, database, handler
<1>1. CASE UNCHANGED vars
  BY <1>1 DEF vars
<1>2. ASSUME NEW r \in Requests, Send(r) PROVE TypeOK'
  BY <1>2 DEF Send
<1>3. ASSUME NEW r \in Requests, RejectEarly(r) PROVE TypeOK'
  BY <1>3 DEF RejectEarly
<1>4. ASSUME NEW r \in Requests, CheckUnknown(r) PROVE TypeOK'
  BY <1>4, ReturnedTo DEF CheckUnknown
<1>5. ASSUME NEW r \in Requests, AcquireConnection(r) PROVE TypeOK'
  BY <1>5 DEF AcquireConnection
<1>6. ASSUME NEW r \in Requests, AcquireInstrumentation(r) PROVE TypeOK'
  BY <1>6 DEF AcquireInstrumentation
<1>7. ASSUME NEW r \in Requests, AcquireProcessLock(r) PROVE TypeOK'
  BY <1>7 DEF AcquireProcessLock
<1>8. ASSUME NEW r \in Requests, Check(r) PROVE TypeOK'
  BY <1>8, ReturnedTo, RowsAreFinite DEF Check
<1>9. ASSUME NEW r \in Requests, Act(r) PROVE TypeOK'
  BY <1>9 DEF Act
<1>10. ASSUME NEW r \in Requests, InsertRow(r) PROVE TypeOK'
  BY <1>10 DEF InsertRow
<1>11. ASSUME NEW r \in Requests, RecordAct(r) PROVE TypeOK'
  BY <1>11, ReturnedTo DEF RecordAct
<1>12. ASSUME NEW r \in Requests, Commit(r) PROVE TypeOK'
  BY <1>12 DEF Commit, ApplyCommit, EndTransaction
<1>13. ASSUME NEW r \in Requests, BackstopViolation(r) PROVE TypeOK'
  BY <1>13 DEF BackstopViolation, EndTransaction
<1>14. ASSUME NEW r \in Requests, ReleaseProcessLock(r) PROVE TypeOK'
  BY <1>14 DEF ReleaseProcessLock
<1>15. ASSUME NEW r \in Requests, ReleaseConnections(r) PROVE TypeOK'
  BY <1>15 DEF ReleaseConnections
<1>16. ASSUME NEW r \in Requests, Finish(r) PROVE TypeOK'
  <2>1. StatusOf[outcome[r]] \in {201, 404, 409, 503}
    BY DEF StatusOf
  <2> QED BY <1>16, <2>1 DEF Finish
<1>17. ASSUME NEW r \in Requests, LeaveWindow(r) PROVE TypeOK'
  BY <1>17 DEF LeaveWindow
<1>18. ASSUME NEW r \in Requests, PoolTimeout(r) PROVE TypeOK'
  BY <1>18 DEF PoolTimeout
<1>19. ASSUME NEW r \in Requests, ConnectionLost(r) PROVE TypeOK'
  BY <1>19 DEF ConnectionLost
<1>20. ASSUME NEW r \in Requests, InstrumentationLost(r) PROVE TypeOK'
  BY <1>20 DEF InstrumentationLost, EndTransaction
<1>21. ASSUME NEW r \in Requests, ServerRollback(r) PROVE TypeOK'
  BY <1>21 DEF ServerRollback, EndTransaction
<1>22. ASSUME NEW r \in Requests, ServerCommit(r) PROVE TypeOK'
  BY <1>22 DEF ServerCommit, ApplyCommit, EndTransaction
<1> HIDE DEF TypeOK
<1> QED
  BY <1>1, <1>2, <1>3, <1>4, <1>5, <1>6, <1>7, <1>8, <1>9, <1>10, <1>11, <1>12, <1>13, <1>14,
     <1>15, <1>16, <1>17, <1>18, <1>19, <1>20, <1>21, <1>22
     DEF Next, Rejection, Step, Failure, Backend

\* The burst's state always has its type, for every value of the constants.
THEOREM TypeCorrect == Spec => []TypeOK
<1>1. Init => TypeOK
  BY InitIInv DEF IInv, Core
<1> QED BY <1>1, NextTypeOK, PTL DEF Spec

------------------------------------------------------------------------------
\* A burst stays what it was: its shape, its limit, its fixture.
LEMMA ScenarioIsFixed ==
    [Next]_vars => UNCHANGED <<scenario, Shape, Limit, Sold0, scenario.backstop>>
<1>1. [Next]_vars => UNCHANGED scenario
  BY DEF Next, Rejection, Step, Failure, Backend, vars, Send, RejectEarly, CheckUnknown,
     AcquireConnection, AcquireInstrumentation, AcquireProcessLock, Check, Act, InsertRow,
     RecordAct, Commit, BackstopViolation, ReleaseProcessLock, ReleaseConnections, Finish,
     LeaveWindow, PoolTimeout, ConnectionLost, InstrumentationLost, ServerRollback, ServerCommit
<1> QED BY <1>1 DEF Shape, Limit, Sold0

\* Executing a COMMIT, in time or in doubt, adds the row of the transaction and
\* its unit, or changes nothing that is committed.
Sold(r) ==
    /\ r \in inserted /\ r \notin rows
    /\ value' = value + 1
    /\ rows' = rows \cup {r}
    /\ Cardinality(rows') = Cardinality(rows) + 1
    /\ scenario.backstop => value < Limit
    /\ rowLock = r /\ rowLock' = NoRequest

NothingSold(r) ==
    /\ r \notin inserted
    /\ UNCHANGED <<value, rows, inserted>>
    /\ \A q \in Requests : q # r => (rowLock' = q <=> rowLock = q)

LEMMA CommitEffect ==
    ASSUME Core, NEW r \in Requests, ApplyCommit(r)
    PROVE  Sold(r) \/ NothingSold(r)
<1> USE DEF Sold, NothingSold
<1>1. CASE r \in inserted
  <2>1. rowLock = r /\ r \notin rows /\ (scenario.backstop => value < Limit)
    BY <1>1 DEF Core, OneWriter, PendingFits
  <2>2. rows' = rows \cup {r} /\ value' = value + 1 /\ rowLock' = NoRequest
    BY <1>1, <2>1 DEF ApplyCommit, EndTransaction
  <2> QED BY <1>1, <2>1, <2>2, OneMoreRow DEF Core
<1>2. CASE r \notin inserted
  BY <1>2, RequestsAreFinite DEF ApplyCommit, EndTransaction, Core, TypeOK
<1> QED BY <1>1, <1>2

\* Every step keeps the core, and what writers have read.
LEMMA NextCore ==
    Core /\ [Next]_vars => Core' /\ (WritersHaveRead => WritersHaveRead')
<1> DEFINE Goal == Core' /\ (WritersHaveRead => WritersHaveRead')
<1> SUFFICES ASSUME Core, [Next]_vars PROVE Goal
  OBVIOUS
<1> USE RequestsAreFinite
<1>1. TypeOK'
  BY NextTypeOK DEF Core
<1>2. UNCHANGED <<scenario, Shape, Limit, Sold0, scenario.backstop>>
  BY ScenarioIsFixed
<1>3. /\ Shape \in Shapes /\ Limit \in Nat /\ Sold0 \in Nat /\ Sold0 <= Limit
      /\ Shape = "redemption" => Limit = 1 /\ Sold0 = 0
      /\ scenario.backstop \in BOOLEAN
  BY ScenarioFacts DEF Core, TypeOK
<1> DEFINE Rest == /\ CounterMatchesRows' /\ BackstopHolds' /\ OneWriter' /\ Stages'
                   /\ RowOwners' /\ RefusalsAreFinal' /\ PendingFits'
                   /\ WritersHaveRead => WritersHaveRead'
<1> USE DEF CounterMatchesRows, BackstopHolds, OneWriter, Stages, RowOwners, RefusalsAreFinal,
            PendingFits, WritersHaveRead, Committed, Deciding
<1>4. ASSUME UNCHANGED vars PROVE Rest
  BY <1>1, <1>2, <1>4 DEF Core, vars, handler, database
<1>5. ASSUME NEW r \in Requests, Send(r) PROVE Rest
  BY <1>1, <1>2, <1>3, <1>5 DEF Core, Send, TypeOK, database
<1>6. ASSUME NEW r \in Requests, RejectEarly(r) PROVE Rest
  BY <1>1, <1>2, <1>3, <1>6 DEF Core, RejectEarly, TypeOK, database
<1>7. ASSUME NEW r \in Requests, CheckUnknown(r) PROVE Rest
  BY <1>1, <1>2, <1>3, <1>7, ReturnedTo DEF Core, CheckUnknown, TypeOK, database
<1>8. ASSUME NEW r \in Requests, AcquireConnection(r) PROVE Rest
  BY <1>1, <1>2, <1>3, <1>8 DEF Core, AcquireConnection, TypeOK, database
<1>9. ASSUME NEW r \in Requests, AcquireInstrumentation(r) PROVE Rest
  BY <1>1, <1>2, <1>3, <1>9 DEF Core, AcquireInstrumentation, TypeOK, database
<1>10. ASSUME NEW r \in Requests, AcquireProcessLock(r) PROVE Rest
  BY <1>1, <1>2, <1>3, <1>10 DEF Core, AcquireProcessLock, TypeOK, database
<1>11. ASSUME NEW r \in Requests, Check(r) PROVE Rest
  <2>1. Cardinality(rows) \in Nat /\ (Shape = "redemption" => Cardinality(rows) = value) /\ Sold0 <= value
    BY <1>3, RowsAreFinite DEF Core, TypeOK
  <2>2. pc[r] = "check" /\ observed' = [observed EXCEPT ![r] = value] /\ checks' = checks \cup {r}
    BY <1>11, <2>1 DEF Check
  <2>3. UNCHANGED <<reply, value, rows, rowLock, inserted, inDoubt>>
    BY <1>11 DEF Check, database
  <2>4. r \notin rows /\ r \notin inserted /\ rowLock # r /\ outcome[r] = "NONE" /\ reply[r] = 0
    BY <2>2 DEF Core
  <2>5. CASE value >= Limit
    <3>1. outcome' = [outcome EXCEPT ![r] = "REFUSED"] /\ pc' = [pc EXCEPT ![r] = Returned]
      BY <1>11, <2>1, <2>5 DEF Check
    <3> QED BY <1>1, <1>2, <1>3, <2>2, <2>3, <2>4, <2>5, <3>1, ReturnedTo DEF Core, TypeOK
  <2>6. CASE ~(value >= Limit)
    <3>1. outcome' = outcome /\ pc' = [pc EXCEPT ![r] = "window"]
      BY <1>11, <2>1, <2>6 DEF Check
    <3> QED BY <1>1, <1>2, <1>3, <2>1, <2>2, <2>3, <2>4, <2>6, <3>1 DEF Core, TypeOK
  <2> QED BY <2>5, <2>6
<1>12. ASSUME NEW r \in Requests, Act(r) PROVE Rest
  BY <1>1, <1>2, <1>3, <1>12 DEF Core, Act, CheckViolated, TypeOK
<1>13. ASSUME NEW r \in Requests, InsertRow(r) PROVE Rest
  <2>1. Shape = "redemption" /\ scenario.backstop => value < Limit
    <3>1. scenario.backstop /\ Shape = "redemption" => rows = {}
      BY <1>3, <1>13 DEF InsertRow, UniqueViolated
    <3>2. value = Sold0 + Cardinality(rows)
      BY DEF Core
    <3>3. Cardinality({}) = 0
      BY FS_EmptySet
    <3> QED BY <1>3, <3>1, <3>2, <3>3
  <2>2. pc[r] = "insert" /\ rowLock = r /\ r \notin rows /\ outcome[r] = "NONE" /\ reply[r] = 0
    BY <1>13 DEF Core, InsertRow
  <2>3. pc' = [pc EXCEPT ![r] = IF Shape = "single_transaction" THEN "record" ELSE "commit"]
    BY <1>13 DEF InsertRow
  <2>4. inserted' = inserted \cup {r} /\ outcome' = [outcome EXCEPT ![r] = "CONFIRMED"]
        /\ UNCHANGED <<checks, observed, reply, value, rows, rowLock, inDoubt>>
    BY <1>13 DEF InsertRow
  <2> QED BY <1>1, <1>2, <1>3, <2>1, <2>2, <2>3, <2>4 DEF Core, TypeOK
<1>14. ASSUME NEW r \in Requests, RecordAct(r) PROVE Rest
  <2>1. pc[r] = "record" /\ outcome[r] = "CONFIRMED" /\ pc' = [pc EXCEPT ![r] = Returned]
        /\ UNCHANGED <<checks, observed, outcome, reply, value, rows, rowLock, inserted, inDoubt>>
    BY <1>14 DEF Core, RecordAct, database
  <2>2. CounterMatchesRows' /\ BackstopHolds' /\ RefusalsAreFinal'
    BY <1>2, <2>1 DEF Core
  <2>3. OneWriter'
    BY <1>1, <1>2, <2>1, ReturnedTo DEF Core, TypeOK
  <2>4. Stages'
    BY <1>1, <1>2, <2>1, ReturnedTo DEF Core, TypeOK
  <2>5. RowOwners'
    BY <1>1, <1>2, <2>1, ReturnedTo DEF Core, TypeOK
  <2>6. PendingFits' /\ (WritersHaveRead => WritersHaveRead')
    BY <1>1, <1>2, <2>1, ReturnedTo DEF Core, TypeOK
  <2> QED BY <2>2, <2>3, <2>4, <2>5, <2>6
<1>15. ASSUME NEW r \in Requests, Commit(r) PROVE Rest
  <2>1. ApplyCommit(r)
    BY <1>15 DEF Commit
  <2>2. pc[r] = "commit" /\ pc' = [pc EXCEPT ![r] = IF Shape = "single_transaction" THEN "ended" ELSE "record"]
        /\ UNCHANGED <<checks, observed, outcome, reply>>
    BY <1>15 DEF Commit
  <2>3. inserted' = inserted \ {r} /\ inDoubt' = inDoubt \ {r} /\ rowLock' # r
    BY <2>1 DEF Core, TypeOK, ApplyCommit, EndTransaction
  <2>4. ASSUME Sold(r) PROVE Rest
    <3>1. \A q \in Requests : q # r => q \notin inserted /\ pc[q] # "insert" /\ rowLock # q
      BY <2>4 DEF Core, Sold
    <3>2. outcome[r] = "CONFIRMED" /\ reply[r] = 0
      BY <2>2, <2>4 DEF Core, Sold
    <3>3. CounterMatchesRows' /\ BackstopHolds' /\ RefusalsAreFinal'
      <4>1. Cardinality(rows) \in Nat /\ value \in Nat
        BY RowsAreFinite DEF Core, TypeOK
      <4>2. CounterMatchesRows'
        BY <1>2, <1>3, <2>4, <4>1 DEF Core, Sold
      <4>3. BackstopHolds'
        BY <1>2, <1>3, <2>4, <4>1 DEF Core, Sold
      <4>4. RefusalsAreFinal'
        BY <1>2, <1>3, <2>2, <2>4, <4>1 DEF Core, Sold, TypeOK
      <4> QED BY <4>2, <4>3, <4>4
    <3>4. OneWriter'
      BY <1>1, <1>2, <1>3, <2>2, <2>3, <2>4, <3>1, <3>2 DEF Core, TypeOK, Sold
    <3>5. Stages'
      BY <1>1, <1>2, <1>3, <2>2, <2>3, <2>4, <3>1, <3>2 DEF Core, TypeOK, Sold
    <3>6. RowOwners'
      BY <1>1, <1>2, <1>3, <2>2, <2>3, <2>4, <3>1, <3>2 DEF Core, TypeOK, Sold
    <3>7. PendingFits'
      BY <1>1, <1>2, <1>3, <2>2, <2>3, <2>4, <3>1, <3>2 DEF Core, TypeOK, Sold
    <3>8. WritersHaveRead => WritersHaveRead'
      BY <1>1, <1>2, <1>3, <2>2, <2>3, <2>4, <3>1, <3>2 DEF Core, TypeOK, Sold
    <3> QED BY <3>3, <3>4, <3>5, <3>6, <3>7, <3>8
  <2>5. ASSUME NothingSold(r) PROVE Rest
    <3>1. Shape = "single_transaction" /\ outcome[r] # "CONFIRMED" /\ r \notin inserted /\ r \notin rows
      BY <2>2, <2>5 DEF Core, NothingSold
    <3> QED BY <1>1, <1>2, <1>3, <2>2, <2>3, <2>5, <3>1 DEF Core, TypeOK, NothingSold
  <2> QED BY <2>1, <2>4, <2>5, CommitEffect
<1>16. ASSUME NEW r \in Requests, BackstopViolation(r) PROVE Rest
  BY <1>1, <1>2, <1>3, <1>16 DEF Core, BackstopViolation, TypeOK, EndTransaction
<1>17. ASSUME NEW r \in Requests, ReleaseProcessLock(r) PROVE Rest
  BY <1>1, <1>2, <1>3, <1>17 DEF Core, ReleaseProcessLock, TypeOK, database
<1>18. ASSUME NEW r \in Requests, ReleaseConnections(r) PROVE Rest
  BY <1>1, <1>2, <1>3, <1>18 DEF Core, ReleaseConnections, TypeOK, database
<1>19. ASSUME NEW r \in Requests, Finish(r) PROVE Rest
  <2>1. outcome[r] \in {"CONFIRMED", "REFUSED", "UNKNOWN"} /\ pc[r] = "finish" /\ reply[r] = 0
    BY <1>19 DEF Core, TypeOK, Outcomes, Finish
  <2>2. reply' = [reply EXCEPT ![r] = StatusOf[outcome[r]]]
        /\ pc' = [pc EXCEPT ![r] = "done"] /\ outcome' = [outcome EXCEPT ![r] = "NONE"]
        /\ UNCHANGED <<checks, observed, value, rows, rowLock, inserted, inDoubt>>
    BY <1>19 DEF Finish, database
  <2>3. StatusOf[outcome[r]] \in {201, 404, 409}
        /\ (StatusOf[outcome[r]] = 201 <=> outcome[r] = "CONFIRMED")
        /\ (StatusOf[outcome[r]] = 409 <=> outcome[r] = "REFUSED")
    BY <2>1 DEF StatusOf
  <2>4. r \notin inserted /\ rowLock # r /\ r \notin inDoubt
    BY <2>1 DEF Core
  <2>5. r \in rows <=> outcome[r] = "CONFIRMED"
    BY <2>1 DEF Core
  <2> QED BY <1>1, <1>2, <2>1, <2>2, <2>3, <2>4, <2>5 DEF Core, TypeOK
<1>20. ASSUME NEW r \in Requests, LeaveWindow(r) PROVE Rest
  BY <1>1, <1>2, <1>3, <1>20 DEF Core, LeaveWindow, TypeOK, database
<1>21. ASSUME NEW r \in Requests, PoolTimeout(r) PROVE Rest
  BY <1>1, <1>2, <1>3, <1>21 DEF Core, PoolTimeout, TypeOK, database
<1>22. ASSUME NEW r \in Requests, ConnectionLost(r) PROVE Rest
  BY <1>1, <1>2, <1>3, <1>22 DEF Core, ConnectionLost, TypeOK
<1>23. ASSUME NEW r \in Requests, InstrumentationLost(r) PROVE Rest
  BY <1>1, <1>2, <1>3, <1>23 DEF Core, InstrumentationLost, TypeOK, EndTransaction
<1>24. ASSUME NEW r \in Requests, ServerRollback(r) PROVE Rest
  BY <1>1, <1>2, <1>3, <1>24 DEF Core, ServerRollback, TypeOK, handler, EndTransaction, Abandoned
<1>25. ASSUME NEW r \in Requests, ServerCommit(r) PROVE Rest
  <2>1. ApplyCommit(r)
    BY <1>25 DEF ServerCommit
  <2>2. pc[r] = "done" /\ r \in inDoubt /\ reply[r] = 503 /\ UNCHANGED <<pc, checks, observed, outcome, reply>>
    BY <1>25 DEF ServerCommit, Abandoned, handler, Core
  <2>3. inserted' = inserted \ {r} /\ inDoubt' = inDoubt \ {r} /\ rowLock' # r
    BY <2>1 DEF Core, TypeOK, ApplyCommit, EndTransaction
  <2>4. ASSUME Sold(r) PROVE Rest
    <3>1. \A q \in Requests : q # r => q \notin inserted /\ pc[q] # "insert" /\ rowLock # q
      BY <2>4 DEF Core, Sold
    <3>3. CounterMatchesRows' /\ BackstopHolds' /\ RefusalsAreFinal'
      <4>1. Cardinality(rows) \in Nat /\ value \in Nat
        BY RowsAreFinite DEF Core, TypeOK
      <4>2. CounterMatchesRows'
        BY <1>2, <1>3, <2>4, <4>1 DEF Core, Sold
      <4>3. BackstopHolds'
        BY <1>2, <1>3, <2>4, <4>1 DEF Core, Sold
      <4>4. RefusalsAreFinal'
        BY <1>2, <1>3, <2>2, <2>4, <4>1 DEF Core, Sold, TypeOK
      <4> QED BY <4>2, <4>3, <4>4
    <3>4. OneWriter'
      BY <1>1, <1>2, <1>3, <2>2, <2>3, <2>4, <3>1 DEF Core, TypeOK, Sold
    <3>5. Stages'
      BY <1>1, <1>2, <1>3, <2>2, <2>3, <2>4, <3>1 DEF Core, TypeOK, Sold
    <3>6. RowOwners'
      BY <1>1, <1>2, <1>3, <2>2, <2>3, <2>4, <3>1 DEF Core, TypeOK, Sold
    <3>7. PendingFits'
      BY <1>1, <1>2, <1>3, <2>2, <2>3, <2>4, <3>1 DEF Core, TypeOK, Sold
    <3>8. WritersHaveRead => WritersHaveRead'
      BY <1>1, <1>2, <1>3, <2>2, <2>3, <2>4, <3>1 DEF Core, TypeOK, Sold
    <3> QED BY <3>3, <3>4, <3>5, <3>6, <3>7, <3>8
  <2>5. ASSUME NothingSold(r) PROVE Rest
    BY <1>1, <1>2, <1>3, <2>2, <2>3, <2>5 DEF Core, TypeOK, NothingSold
  <2> QED BY <2>1, <2>4, <2>5, CommitEffect
<1>26. Rest => Goal
  BY <1>1 DEF Core
<1> HIDE DEF Rest, Goal
<1> QED
  BY <1>4, <1>5, <1>6, <1>7, <1>8, <1>9, <1>10, <1>11, <1>12, <1>13, <1>14, <1>15, <1>16,
     <1>17, <1>18, <1>19, <1>20, <1>21, <1>22, <1>23, <1>24, <1>25, <1>26
     DEF Next, Rejection, Step, Failure, Backend

LEMMA NextIInv == IInv /\ [Next]_vars => IInv'
BY NextCore DEF IInv

\* The inductive invariant holds in every reachable state.
THEOREM Invariance == Spec => []IInv
BY InitIInv, NextIInv, PTL DEF Spec

LEMMA CoreHolds == Spec => []Core
<1>1. IInv => Core
  BY DEF IInv
<1> QED BY <1>1, Invariance, PTL

\* However far a shape overruns its limit, the counter and the rows agree.
THEOREM CounterAgrees == Spec => []CounterMatchesRows
<1>1. IInv => CounterMatchesRows
  BY DEF IInv, Core
<1> QED BY <1>1, Invariance, PTL

\* With its constraint in place no shape oversells or credits twice.
THEOREM BackstopSuffices == Spec => []BackstopHolds
<1>1. IInv => BackstopHolds
  BY DEF IInv, Core
<1> QED BY <1>1, Invariance, PTL

LEMMA CoreAnswers == Core => AnswersMatchRows
BY DEF Core, TypeOK, Stages, RowOwners, RefusalsAreFinal, Committed, AnswersMatchRows

\* Oversold or not, every answer was true when it was given.
THEOREM AnswersAreTrue == Spec => []AnswersMatchRows
BY CoreAnswers, CoreHolds, PTL

------------------------------------------------------------------------------
(* No overrun is invisible: a pigeonhole.  More than Limit - Sold0 rows were   *)
(* written by requests that each read a value of Sold0 .. Limit - 1.           *)

LEMMA OverrunLeavesARace == IInv => OverrunIsVisible
<1> SUFFICES ASSUME IInv, value > Limit
             PROVE  \E q, r \in rows : Racing(q, r) /\ observed[q] < Limit
  BY DEF OverrunIsVisible
<1>1. Limit \in Nat /\ Sold0 \in Nat /\ Sold0 <= Limit
  BY ScenarioFacts DEF IInv, Core, TypeOK
<1>2. IsFiniteSet(rows) /\ Cardinality(rows) \in Nat /\ rows \subseteq Requests
  BY RowsAreFinite DEF IInv, Core, TypeOK
<1> DEFINE reads == Sold0 .. (Limit - 1)
<1>3. \A r \in rows : r \in checks /\ observed[r] \in reads /\ observed[r] < Limit
  BY <1>1, <1>2 DEF IInv, Core, TypeOK, WritersHaveRead
<1>4. IsFiniteSet(reads) /\ Cardinality(reads) = Limit - Sold0
  <2>1. Sold0 \in Int /\ Limit - 1 \in Int
    BY <1>1
  <2>2. IsFiniteSet(reads)
        /\ Cardinality(reads) = IF Sold0 > Limit - 1 THEN 0 ELSE (Limit - 1) - Sold0 + 1
    BY <2>1, FS_Interval
  <2> HIDE DEF reads
  <2> QED BY <1>1, <2>2
<1>5. Cardinality(reads) < Cardinality(rows)
  BY <1>1, <1>2, <1>4 DEF IInv, Core, TypeOK, CounterMatchesRows
<1> DEFINE read == [r \in rows |-> observed[r]]
<1>6. read \in [rows -> reads]
  BY <1>3
<1>7. \E q, r \in rows : q # r /\ read[q] = read[r]
  <2> HIDE DEF read, reads
  <2> QED BY <1>2, <1>4, <1>5, <1>6, FS_PigeonHole
<1> QED BY <1>3, <1>7 DEF Racing

\* No overrun is invisible: the timeline of an oversold burst holds two reads
\* of the same still-available value by requests that both went on to write.
THEOREM OverrunVisible == Spec => []OverrunIsVisible
BY OverrunLeavesARace, Invariance, PTL

------------------------------------------------------------------------------
(* The two pools. *)

\* Only AcquireConnection takes a connection of the request pool.
LEMMA OnlyAcquiringTakesOne ==
    ASSUME TypeOK, [Next]_vars
    PROVE  \/ \A q \in Requests : pc'[q] \in HoldsConnection => pc[q] \in HoldsConnection
           \/ \E r \in Requests : AcquireConnection(r)
<1> USE DEF TypeOK, HoldsConnection, Inside
<1> DEFINE NoMore == \A q \in Requests : pc'[q] \in HoldsConnection => pc[q] \in HoldsConnection
<1>1. CASE UNCHANGED vars
  BY <1>1 DEF vars, handler
<1>2. ASSUME NEW r \in Requests, Send(r) \/ RejectEarly(r) \/ PoolTimeout(r) PROVE NoMore
  BY <1>2 DEF Send, RejectEarly, PoolTimeout
<1>3. ASSUME NEW r \in Requests, AcquireInstrumentation(r) \/ AcquireProcessLock(r) PROVE NoMore
  BY <1>3 DEF AcquireInstrumentation, AcquireProcessLock
<1>4. ASSUME NEW r \in Requests, Check(r) \/ CheckUnknown(r) \/ LeaveWindow(r) PROVE NoMore
  BY <1>4 DEF Check, CheckUnknown, LeaveWindow
<1>5. ASSUME NEW r \in Requests, Act(r) \/ InsertRow(r) \/ RecordAct(r) \/ Commit(r) PROVE NoMore
  BY <1>5 DEF Act, InsertRow, RecordAct, Commit
<1>6. ASSUME NEW r \in Requests, ReleaseProcessLock(r) \/ ReleaseConnections(r) \/ Finish(r)
      PROVE  NoMore
  BY <1>6 DEF ReleaseProcessLock, ReleaseConnections, Finish
<1>7. ASSUME NEW r \in Requests,
             BackstopViolation(r) \/ ConnectionLost(r) \/ InstrumentationLost(r)
      PROVE  NoMore
  BY <1>7 DEF BackstopViolation, ConnectionLost, InstrumentationLost
<1>8. ASSUME NEW r \in Requests, ServerRollback(r) \/ ServerCommit(r) PROVE NoMore
  BY <1>8 DEF ServerRollback, ServerCommit, handler
<1> QED
  BY <1>1, <1>2, <1>3, <1>4, <1>5, <1>6, <1>7, <1>8 DEF Next, Rejection, Step, Failure, Backend

LEMMA NextPoolRespected == TypeOK /\ PoolRespected /\ [Next]_vars => PoolRespected'
<1> SUFFICES ASSUME TypeOK, PoolRespected, [Next]_vars, NEW q \in Requests
             PROVE  Cardinality(OnMyReplica(q, HoldsConnection)') <= PoolSize
  BY DEF PoolRespected
<1> DEFINE held == OnMyReplica(q, HoldsConnection)
           heldNext == OnMyReplica(q, HoldsConnection)'
<1>1. PoolSize \in Nat
  BY BurstAssumption
<1>2. \A r \in Requests : ReplicaOf(r)' = ReplicaOf(r)
  BY ScenarioIsFixed DEF ReplicaOf
<1>3. IsFiniteSet(held) /\ Cardinality(held) \in Nat /\ Cardinality(held) <= PoolSize
  BY RequestsAreFinite, FS_Subset, FS_CardinalityType DEF OnMyReplica, PoolRespected
<1>4. heldNext = {p \in Requests : ReplicaOf(p) = ReplicaOf(q) /\ pc'[p] \in HoldsConnection}
  BY <1>2 DEF OnMyReplica, HoldsConnection, Inside
<1>5. CASE \A p \in Requests : pc'[p] \in HoldsConnection => pc[p] \in HoldsConnection
  <2>1. heldNext \subseteq held
    BY <1>4, <1>5 DEF OnMyReplica
  <2> QED BY <1>1, <1>3, <2>1, FS_Subset, FS_CardinalityType
<1>6. ASSUME NEW r \in Requests, AcquireConnection(r) PROVE Cardinality(heldNext) <= PoolSize
  <2>1. pc[r] = "pool" /\ pc' = [pc EXCEPT ![r] = "instrumentation"]
        /\ Cardinality(OnMyReplica(r, HoldsConnection)) < PoolSize
    BY <1>6 DEF AcquireConnection
  <2>2. CASE ReplicaOf(r) = ReplicaOf(q)
    <3>1. held = OnMyReplica(r, HoldsConnection)
      BY <2>2 DEF OnMyReplica
    <3>2. heldNext = held \cup {r}
      BY <1>4, <2>1, <2>2 DEF TypeOK, OnMyReplica, HoldsConnection, Inside
    <3>3. Cardinality(heldNext) \in {Cardinality(held), Cardinality(held) + 1}
      BY <1>3, <3>2, FS_AddElement
    <3> QED BY <1>1, <1>3, <2>1, <3>1, <3>3
  <2>3. CASE ReplicaOf(r) # ReplicaOf(q)
    <3>1. heldNext = held
      BY <1>4, <2>1, <2>3 DEF TypeOK, OnMyReplica
    <3> QED BY <1>3, <3>1
  <2> QED BY <2>2, <2>3
<1> QED BY <1>5, <1>6, OnlyAcquiringTakesOne

\* Whoever holds a request connection finds an instrumentation connection free:
\* the two pools have one size, and the second is taken by holders of the first.
THEOREM InstrumentationNeverWaits == Spec => []InstrumentationConnectionFree
<1>1. Init => PoolRespected
  <2> SUFFICES ASSUME Init, NEW q \in Requests
               PROVE  Cardinality(OnMyReplica(q, HoldsConnection)) <= PoolSize
    BY DEF PoolRespected
  <2>1. OnMyReplica(q, HoldsConnection) = {}
    BY DEF Init, StartsWith, OnMyReplica, HoldsConnection, Inside
  <2> QED BY <2>1, FS_EmptySet, BurstAssumption
<1>2. Init => TypeOK
  BY InitIInv DEF IInv, Core
<1>3. TypeOK /\ PoolRespected => InstrumentationConnectionFree
  <2> SUFFICES ASSUME TypeOK, PoolRespected, NEW r \in Requests, pc[r] = "instrumentation"
               PROVE  Cardinality(OnMyReplica(r, HoldsInstrumentation)) < PoolSize
    BY DEF InstrumentationConnectionFree
  <2> DEFINE all == OnMyReplica(r, HoldsConnection)
             others == OnMyReplica(r, HoldsInstrumentation)
  <2>1. IsFiniteSet(all) /\ Cardinality(all) \in Nat /\ Cardinality(all) <= PoolSize
    BY RequestsAreFinite, FS_Subset, FS_CardinalityType DEF OnMyReplica, PoolRespected
  <2>2. r \in all /\ others \subseteq all \ {r}
    BY DEF OnMyReplica, HoldsInstrumentation, HoldsConnection, Inside
  <2>3. IsFiniteSet(all \ {r}) /\ Cardinality(all \ {r}) = Cardinality(all) - 1
    BY <2>1, <2>2, FS_RemoveElement
  <2>4. Cardinality(others) <= Cardinality(all \ {r}) /\ Cardinality(others) \in Nat
    BY <2>2, <2>3, FS_Subset, FS_CardinalityType
  <2> QED BY <2>1, <2>3, <2>4, BurstAssumption
<1> QED BY <1>1, <1>2, <1>3, NextTypeOK, NextPoolRespected, PTL DEF Spec

------------------------------------------------------------------------------
(* How far the shapes can be wrong.  The argument counts the writes that are   *)
(* still to come.  While the limit is not met, they are those of requests in   *)
(* flight, which are one wave, or one request per process behind a process     *)
(* lock, and those of failed requests whose transaction the server has not     *)
(* ended yet.  Once it is met no check lets another one in, and a write that   *)
(* commits is no longer to come, so the sum of the value and the writes to     *)
(* come cannot grow.                                                           *)

\* Who may still raise the value.
Pending == {r \in Requests : pc[r] \in {"window", "act", "insert"} \/ r \in inserted}

\* Whoever has started has every earlier wave behind it.
WaveOf(r) == (r - 1) \div scenario.wave
OneWave ==
    \A q, r \in Requests : pc[r] # "idle" /\ WaveOf(q) < WaveOf(r) => pc[q] = "done"

\* Inside a process lock is who holds it.
LockHeld ==
    Shape = "process_lock" => \A r \in Requests : pc[r] \in Inside => lock[ReplicaOf(r)] = r

\* No more writes are to come than the window is wide.
WindowIsNarrow == Cardinality(Pending) <= Width + Cardinality(Failed)

\* The sum of the value and the writes to come.
SumBounded == value + Cardinality(Pending) <= Limit - 1 + Width + Cardinality(Failed)

------------------------------------------------------------------------------
LEMMA CountsAreNatural ==
    /\ IsFiniteSet(Pending) /\ Cardinality(Pending) \in Nat
    /\ IsFiniteSet(Failed) /\ Cardinality(Failed) \in Nat
BY RequestsAreFinite, FS_Subset, FS_CardinalityType DEF Pending, Failed

LEMMA WidthFacts ==
    ASSUME scenario \in Scenarios
    PROVE  /\ scenario.wave \in Nat \ {0} /\ scenario.replicas \in Nat \ {0}
           /\ Width \in Nat \ {0}
           /\ Width = scenario.wave \/ (Shape = "process_lock" /\ Width = scenario.replicas)
BY BurstAssumption DEF ScenarioType, Width

LEMMA Division ==
    ASSUME NEW a \in Nat, NEW w \in Nat \ {0}
    PROVE  (a \div w) \in Nat /\ (a \div w) * w <= a /\ a < (a \div w) * w + w
OBVIOUS

LEMMA ReplicaOfRange ==
    ASSUME scenario \in Scenarios, NEW r \in Requests
    PROVE  ReplicaOf(r) \in 0 .. (scenario.replicas - 1) /\ ReplicaOf(r) \in Replica
<1>1. r - 1 \in Nat /\ r - 1 <= Concurrency /\ scenario.replicas \in Nat \ {0} /\ Concurrency \in Nat
  BY WidthFacts, BurstAssumption DEF Requests
<1>2. (r - 1) % scenario.replicas \in 0 .. (scenario.replicas - 1)
      /\ (r - 1) % scenario.replicas <= r - 1
  BY <1>1
<1> QED BY <1>1, <1>2 DEF ReplicaOf, Replica

------------------------------------------------------------------------------
(* The waves of the harness. *)

\* Nobody leaves "done", and nobody leaves "idle" before its wave's turn.
LEMMA StartAndEnd ==
    ASSUME TypeOK, [Next]_vars, NEW q \in Requests
    PROVE  /\ pc[q] = "done" => pc'[q] = "done"
           /\ pc'[q] # "idle" => pc[q] # "idle" \/ MaySend(q)
<1> USE DEF TypeOK
<1> DEFINE Goal == /\ pc[q] = "done" => pc'[q] = "done"
                   /\ pc'[q] # "idle" => pc[q] # "idle" \/ MaySend(q)
<1>1. CASE UNCHANGED vars
  BY <1>1 DEF vars, handler
<1>2. ASSUME NEW r \in Requests, Send(r) \/ RejectEarly(r) \/ PoolTimeout(r) PROVE Goal
  BY <1>2 DEF Send, RejectEarly, PoolTimeout
<1>3. ASSUME NEW r \in Requests,
             AcquireConnection(r) \/ AcquireInstrumentation(r) \/ AcquireProcessLock(r)
      PROVE  Goal
  BY <1>3 DEF AcquireConnection, AcquireInstrumentation, AcquireProcessLock
<1>4. ASSUME NEW r \in Requests, Check(r) \/ CheckUnknown(r) \/ LeaveWindow(r) PROVE Goal
  BY <1>4 DEF Check, CheckUnknown, LeaveWindow
<1>5. ASSUME NEW r \in Requests, Act(r) \/ InsertRow(r) \/ RecordAct(r) \/ Commit(r) PROVE Goal
  BY <1>5 DEF Act, InsertRow, RecordAct, Commit
<1>6. ASSUME NEW r \in Requests, ReleaseProcessLock(r) \/ ReleaseConnections(r) \/ Finish(r)
      PROVE  Goal
  BY <1>6 DEF ReleaseProcessLock, ReleaseConnections, Finish
<1>7. ASSUME NEW r \in Requests,
             BackstopViolation(r) \/ ConnectionLost(r) \/ InstrumentationLost(r)
      PROVE  Goal
  BY <1>7 DEF BackstopViolation, ConnectionLost, InstrumentationLost
<1>8. ASSUME NEW r \in Requests, ServerRollback(r) \/ ServerCommit(r) PROVE Goal
  BY <1>8 DEF ServerRollback, ServerCommit, handler
<1> QED
  BY <1>1, <1>2, <1>3, <1>4, <1>5, <1>6, <1>7, <1>8 DEF Next, Rejection, Step, Failure, Backend

LEMMA NextOneWave == TypeOK /\ OneWave /\ [Next]_vars => OneWave'
<1> SUFFICES ASSUME TypeOK, OneWave, [Next]_vars, NEW q \in Requests, NEW r \in Requests,
                    pc'[r] # "idle", WaveOf(q)' < WaveOf(r)'
             PROVE  pc'[q] = "done"
  BY DEF OneWave
<1>1. WaveOf(q) < WaveOf(r)
  BY ScenarioIsFixed DEF WaveOf
<1>2. pc[q] = "done"
  BY <1>1, StartAndEnd DEF OneWave, MaySend, WaveOf
<1> QED BY <1>2, StartAndEnd

\* All that is in flight belongs to one wave, which is no longer than a wave is.
LEMMA InFlightIsOneWave ==
    ASSUME TypeOK, OneWave
    PROVE  Cardinality({r \in Requests : pc[r] \notin {"idle", "done"}}) <= scenario.wave
<1> DEFINE flying == {r \in Requests : pc[r] \notin {"idle", "done"}}
<1>1. scenario.wave \in Nat \ {0}
  BY WidthFacts DEF TypeOK
<1>2. CASE flying = {}
  BY <1>1, <1>2, FS_EmptySet
<1>3. CASE flying # {}
  <2>1. PICK q \in flying : TRUE
    BY <1>3
  <2>2. \A r \in Requests : WaveOf(r) \in Nat /\ WaveOf(r) * scenario.wave <= r - 1
                            /\ r - 1 < WaveOf(r) * scenario.wave + scenario.wave
    <3> TAKE r \in Requests
    <3>1. r - 1 \in Nat
      BY BurstAssumption DEF Requests
    <3> QED BY <1>1, <3>1, Division DEF WaveOf
  <2>3. \A r \in flying : WaveOf(r) = WaveOf(q)
    BY <2>1, <2>2 DEF OneWave
  <2> DEFINE first == WaveOf(q) * scenario.wave + 1
             last == WaveOf(q) * scenario.wave + scenario.wave
  <2>4. first \in Int /\ last \in Int /\ last - first + 1 = scenario.wave /\ first <= last
    BY <1>1, <2>1, <2>2
  <2>5. flying \subseteq first .. last
    <3> SUFFICES ASSUME NEW r \in flying PROVE r \in first .. last
      OBVIOUS
    <3>1. r \in Int /\ WaveOf(r) * scenario.wave <= r - 1
          /\ r - 1 < WaveOf(r) * scenario.wave + scenario.wave
      BY <2>2, BurstAssumption DEF Requests
    <3>2. WaveOf(q) * scenario.wave <= r - 1 /\ r - 1 < WaveOf(q) * scenario.wave + scenario.wave
      BY <2>3, <3>1
    <3> DEFINE base == WaveOf(q) * scenario.wave
    <3>3. base \in Int
      BY <1>1, <2>1, <2>2
    <3> HIDE DEF base
    <3>4. base <= r - 1 /\ r - 1 < base + scenario.wave
      BY <3>2 DEF base
    <3>5. r \in (base + 1) .. (base + scenario.wave)
      BY <1>1, <3>1, <3>3, <3>4
    <3> QED BY <3>5 DEF base
  <2> HIDE DEF first, last, flying
  <2>6. IsFiniteSet(first .. last) /\ Cardinality(first .. last) = scenario.wave
    BY <2>4, FS_Interval
  <2> QED BY <2>5, <2>6, FS_Subset DEF flying
<1> QED BY <1>2, <1>3

------------------------------------------------------------------------------
(* The process lock. *)

LEMMA NextLockHeld == TypeOK /\ LockHeld /\ [Next]_vars => LockHeld'
<1> SUFFICES ASSUME TypeOK, LockHeld, [Next]_vars PROVE LockHeld'
  OBVIOUS
<1>a. Shape' = Shape /\ \A q \in Requests : ReplicaOf(q)' = ReplicaOf(q)
  BY ScenarioIsFixed DEF ReplicaOf
<1> SUFFICES ASSUME Shape = "process_lock"
             PROVE  \A q \in Requests : pc'[q] \in Inside => lock'[ReplicaOf(q)] = q
  BY <1>a DEF LockHeld, Inside
<1>1. \A q \in Requests : ReplicaOf(q) \in Replica
  BY ReplicaOfRange DEF TypeOK
<1>2. \A q \in Requests : pc[q] \in Inside => lock[ReplicaOf(q)] = q
  BY DEF LockHeld
<1> DEFINE Held == \A q \in Requests : pc'[q] \in Inside => lock'[ReplicaOf(q)] = q
<1> USE RequestsAreFinite DEF TypeOK, Inside
<1>3. CASE UNCHANGED <<pc, lock>>
  BY <1>2, <1>3
<1>4. ASSUME NEW r \in Requests, NEW status, Answer(r, status) PROVE Held
  BY <1>1, <1>2, <1>4
<1>5. ASSUME NEW r \in Requests, RejectEarly(r) \/ PoolTimeout(r) \/ Finish(r) PROVE Held
  BY <1>4, <1>5 DEF RejectEarly, PoolTimeout, Finish
<1>6. ASSUME NEW r \in Requests,
             BackstopViolation(r) \/ ConnectionLost(r) \/ InstrumentationLost(r)
      PROVE  Held
  BY <1>4, <1>6 DEF BackstopViolation, ConnectionLost, InstrumentationLost
<1>7. ASSUME NEW r \in Requests, NEW place, Goto(r, place), UNCHANGED lock,
             place \in Inside => pc[r] \in Inside
      PROVE  Held
  BY <1>2, <1>7
<1>8. ASSUME NEW r \in Requests, Send(r) \/ AcquireConnection(r) \/ ReleaseConnections(r) PROVE Held
  BY <1>2, <1>8 DEF Send, AcquireConnection, ReleaseConnections
<1>9. ASSUME NEW r \in Requests, AcquireInstrumentation(r) PROVE Held
  BY <1>2, <1>9 DEF AcquireInstrumentation
<1>10. ASSUME NEW r \in Requests, AcquireProcessLock(r) PROVE Held
  BY <1>1, <1>2, <1>10 DEF AcquireProcessLock
<1>11. ASSUME NEW r \in Requests, ReleaseProcessLock(r) PROVE Held
  BY <1>1, <1>2, <1>11 DEF ReleaseProcessLock
<1>12. ASSUME NEW r \in Requests, Check(r) \/ CheckUnknown(r) \/ LeaveWindow(r) PROVE Held
  BY <1>2, <1>12 DEF Check, CheckUnknown, LeaveWindow
<1>13. ASSUME NEW r \in Requests, Act(r) \/ InsertRow(r) \/ RecordAct(r) \/ Commit(r) PROVE Held
  BY <1>2, <1>13 DEF Act, InsertRow, RecordAct, Commit
<1>14. ASSUME NEW r \in Requests, ServerRollback(r) \/ ServerCommit(r) PROVE Held
  BY <1>3, <1>14 DEF ServerRollback, ServerCommit, handler
<1>15. CASE UNCHANGED vars
  BY <1>3, <1>15 DEF vars, handler
<1> QED
  BY <1>5, <1>6, <1>8, <1>9, <1>10, <1>11, <1>12, <1>13, <1>14, <1>15
     DEF Next, Rejection, Step, Failure, Backend

\* Behind a process lock there is one request per process.
LEMMA InsideIsOnePerProcess ==
    ASSUME TypeOK, LockHeld, Shape = "process_lock"
    PROVE  Cardinality({r \in Requests : pc[r] \in Inside}) <= scenario.replicas
<1> DEFINE inside == {r \in Requests : pc[r] \in Inside}
           processes == 0 .. (scenario.replicas - 1)
           process == [r \in inside |-> ReplicaOf(r)]
<1>1. scenario.replicas \in Nat \ {0}
  BY WidthFacts DEF TypeOK
<1>2. IsFiniteSet(processes) /\ Cardinality(processes) = scenario.replicas
  <2>1. scenario.replicas - 1 \in Int /\ 0 \in Int
    BY <1>1
  <2>2. IsFiniteSet(processes)
        /\ Cardinality(processes) = IF 0 > scenario.replicas - 1 THEN 0
                                    ELSE (scenario.replicas - 1) - 0 + 1
    BY <2>1, FS_Interval
  <2> HIDE DEF processes
  <2> QED BY <1>1, <2>2
<1>3. process \in [inside -> processes]
  BY ReplicaOfRange DEF TypeOK
<1>4. \A q, r \in inside : process[q] = process[r] => q = r
  BY DEF LockHeld
<1> HIDE DEF inside, processes, process
<1>5. process \in Injection(inside, processes)
  BY <1>3, <1>4 DEF Injection, IsInjective
<1> QED BY <1>2, <1>5, FS_Injection DEF inside

------------------------------------------------------------------------------
(* The writes to come. *)

\* Those who did not fail are between check and commit.
LEMMA PendingWithin ==
    ASSUME Core, NEW n \in Nat, Cardinality({r \in Requests : pc[r] \in Inside}) <= n
    PROVE  Cardinality(Pending) <= n + Cardinality(Failed)
<1> DEFINE inside == {r \in Requests : pc[r] \in Inside}
           alive == Pending \ Failed
<1>1. IsFiniteSet(inside) /\ Cardinality(inside) \in Nat
  BY RequestsAreFinite, FS_Subset, FS_CardinalityType
<1>2. alive \subseteq inside
  BY DEF Core, Stages, Pending, Failed, Inside
<1>3. IsFiniteSet(alive) /\ Cardinality(alive) \in Nat /\ Cardinality(alive) <= Cardinality(inside)
  <2> HIDE DEF alive, inside
  <2> QED BY <1>1, <1>2, FS_Subset, FS_CardinalityType
<1>4. Pending \subseteq alive \cup Failed
  OBVIOUS
<1>5. IsFiniteSet(alive \cup Failed)
      /\ Cardinality(alive \cup Failed) <= Cardinality(alive) + Cardinality(Failed)
  <2>1. alive \cap Failed = {}
    OBVIOUS
  <2>2. Cardinality(alive \cap Failed) = 0
    BY <2>1, FS_EmptySet
  <2> HIDE DEF alive
  <2>3. IsFiniteSet(alive \cup Failed)
        /\ Cardinality(alive \cup Failed)
               = Cardinality(alive) + Cardinality(Failed) - Cardinality(alive \cap Failed)
    BY <1>3, CountsAreNatural, FS_Union
  <2> QED BY <1>3, <2>2, <2>3, CountsAreNatural
<1>6. Cardinality(inside) <= n
  OBVIOUS
<1> HIDE DEF alive, inside
<1>7. Cardinality(Pending) <= Cardinality(alive \cup Failed)
      /\ Cardinality(alive \cup Failed) \in Nat
  BY <1>4, <1>5, FS_Subset, FS_CardinalityType
<1> QED BY <1>1, <1>3, <1>5, <1>6, <1>7, CountsAreNatural

LEMMA PendingIsNarrow == Core /\ OneWave /\ LockHeld => WindowIsNarrow
<1> SUFFICES ASSUME Core, OneWave, LockHeld PROVE WindowIsNarrow
  OBVIOUS
<1> DEFINE flying == {r \in Requests : pc[r] \notin {"idle", "done"}}
           inside == {r \in Requests : pc[r] \in Inside}
<1>1. scenario \in Scenarios
  BY DEF Core, TypeOK
<1>2. /\ IsFiniteSet(flying) /\ Cardinality(flying) \in Nat
      /\ IsFiniteSet(inside) /\ Cardinality(inside) \in Nat
  BY RequestsAreFinite, FS_Subset, FS_CardinalityType
<1>3. inside \subseteq flying
  BY DEF Inside
<1>4. Cardinality(inside) <= Cardinality(flying)
  <2> HIDE DEF inside, flying
  <2> QED BY <1>2, <1>3, FS_Subset
<1>5. Cardinality(flying) <= scenario.wave
  BY InFlightIsOneWave DEF Core
<1>6. Shape = "process_lock" => Cardinality(inside) <= scenario.replicas
  BY InsideIsOnePerProcess DEF Core
<1>7. Cardinality(inside) <= Width
  <2> HIDE DEF inside, flying
  <2> QED BY <1>1, <1>2, <1>4, <1>5, <1>6, WidthFacts
<1>8. Width \in Nat
  BY <1>1, WidthFacts
<1> QED BY <1>7, <1>8, PendingWithin DEF WindowIsNarrow

\* Once the limit is met, a step either sells what was to come or adds nothing.
NothingNew ==
    value' = value /\ Pending' \subseteq Pending /\ Failed \subseteq Failed'

Settles(r) ==
    /\ r \in Pending /\ Pending' \subseteq Pending \ {r}
    /\ value' = value + 1 /\ Failed \subseteq Failed'

LEMMA CommitSettles ==
    ASSUME Core, NEW r \in Requests, ApplyCommit(r), UNCHANGED reply,
           \A q \in Requests : pc'[q] \in {"window", "act", "insert"} => pc[q] = pc'[q],
           pc'[r] \notin {"window", "act", "insert"}
    PROVE  NothingNew \/ Settles(r)
<1>1. inserted' = inserted \ {r}
  BY DEF ApplyCommit, EndTransaction
<1>2. Pending' \subseteq Pending \ {r} /\ Failed' = Failed
  BY <1>1 DEF Pending, Failed
<1>3. CASE Sold(r)
  BY <1>2, <1>3 DEF Settles, Sold, Pending
<1>4. CASE NothingSold(r)
  BY <1>2, <1>4 DEF NothingNew, NothingSold
<1> QED BY <1>3, <1>4, CommitEffect

LEMMA NothingNewAtTheLimit ==
    ASSUME Core, [Next]_vars, value' >= Limit
    PROVE  NothingNew \/ \E r \in Requests : Settles(r)
<1> USE DEF Core, TypeOK, Stages, database, handler
<1> DEFINE Goal == NothingNew \/ \E r \in Requests : Settles(r)
<1>1. CASE UNCHANGED vars
  BY <1>1 DEF vars, NothingNew, Pending, Failed
<1>2. ASSUME NEW r \in Requests, Send(r) \/ RejectEarly(r) \/ PoolTimeout(r) PROVE Goal
  BY <1>2 DEF Send, RejectEarly, PoolTimeout, NothingNew, Pending, Failed
<1>3. ASSUME NEW r \in Requests,
             AcquireConnection(r) \/ AcquireInstrumentation(r) \/ AcquireProcessLock(r)
      PROVE  Goal
  BY <1>3 DEF AcquireConnection, AcquireInstrumentation, AcquireProcessLock, NothingNew, Pending, Failed
<1>4. ASSUME NEW r \in Requests, Check(r) PROVE Goal
  <2>1. Cardinality(rows) \in Nat /\ (Shape = "redemption" => Cardinality(rows) = value)
    BY ScenarioFacts, RowsAreFinite DEF CounterMatchesRows
  <2>2. value' = value /\ value >= Limit /\ UNCHANGED <<reply, inserted>>
    BY <1>4 DEF Check
  <2>3. pc' = [pc EXCEPT ![r] = Returned]
    BY <1>4, <2>1, <2>2, ScenarioFacts DEF Check
  <2> QED BY <2>2, <2>3, ReturnedTo DEF NothingNew, Pending, Failed
<1>5. ASSUME NEW r \in Requests, CheckUnknown(r) \/ LeaveWindow(r) PROVE Goal
  BY <1>5, ReturnedTo DEF CheckUnknown, LeaveWindow, NothingNew, Pending, Failed
<1>6. ASSUME NEW r \in Requests, Act(r) PROVE Goal
  BY <1>6 DEF Act, NothingNew, Pending, Failed
<1>7. ASSUME NEW r \in Requests, InsertRow(r) PROVE Goal
  BY <1>7 DEF InsertRow, NothingNew, Pending, Failed
<1>8. ASSUME NEW r \in Requests, RecordAct(r) PROVE Goal
  BY <1>8, ReturnedTo DEF RecordAct, NothingNew, Pending, Failed
<1>9. ASSUME NEW r \in Requests, ReleaseProcessLock(r) \/ ReleaseConnections(r) \/ Finish(r)
      PROVE  Goal
  BY <1>9 DEF ReleaseProcessLock, ReleaseConnections, Finish, NothingNew, Pending, Failed
<1>10. ASSUME NEW r \in Requests, BackstopViolation(r) PROVE Goal
  BY <1>10 DEF BackstopViolation, EndTransaction, NothingNew, Pending, Failed
<1>11. ASSUME NEW r \in Requests, ConnectionLost(r) PROVE Goal
  BY <1>11 DEF ConnectionLost, NothingNew, Pending, Failed
<1>12. ASSUME NEW r \in Requests, InstrumentationLost(r) PROVE Goal
  BY <1>12 DEF InstrumentationLost, EndTransaction, NothingNew, Pending, Failed
<1>13. ASSUME NEW r \in Requests, ServerRollback(r) PROVE Goal
  BY <1>13 DEF ServerRollback, EndTransaction, NothingNew, Pending, Failed
<1>14. ASSUME NEW r \in Requests, Commit(r) PROVE Goal
  <2>1. ApplyCommit(r) /\ UNCHANGED reply
        /\ pc' = [pc EXCEPT ![r] = IF Shape = "single_transaction" THEN "ended" ELSE "record"]
    BY <1>14 DEF Commit
  <2> QED BY <2>1, CommitSettles
<1>15. ASSUME NEW r \in Requests, ServerCommit(r) PROVE Goal
  <2>1. ApplyCommit(r) /\ UNCHANGED <<reply, pc>> /\ pc[r] = "done"
    BY <1>15 DEF ServerCommit, Abandoned
  <2> QED BY <2>1, CommitSettles
<1> QED
  BY <1>1, <1>2, <1>3, <1>4, <1>5, <1>6, <1>7, <1>8, <1>9, <1>10, <1>11, <1>12, <1>13, <1>14, <1>15
     DEF Next, Rejection, Step, Failure, Backend

\* For a window of any width.
LEMMA SumCannotGrow ==
    ASSUME Core, Core', [Next]_vars, NEW width \in Nat \ {0},
           value + Cardinality(Pending) <= Limit - 1 + width + Cardinality(Failed),
           Cardinality(Pending') <= width + Cardinality(Failed')
    PROVE  value' + Cardinality(Pending') <= Limit - 1 + width + Cardinality(Failed')
<1>1. Limit \in Nat /\ value \in Nat /\ value' \in Nat
  BY ScenarioFacts, ScenarioIsFixed DEF Core, TypeOK
<1>2. /\ IsFiniteSet(Pending) /\ Cardinality(Pending) \in Nat
      /\ IsFiniteSet(Failed) /\ Cardinality(Failed) \in Nat
  BY CountsAreNatural
<1>3. /\ IsFiniteSet(Pending') /\ Cardinality(Pending') \in Nat
      /\ IsFiniteSet(Failed') /\ Cardinality(Failed') \in Nat
  BY RequestsAreFinite, FS_Subset, FS_CardinalityType DEF Pending, Failed
<1>4. CASE value' < Limit
  BY <1>1, <1>3, <1>4
<1>5. CASE value' >= Limit
  <2>1. CASE NothingNew
    <3>1. Cardinality(Pending') <= Cardinality(Pending) /\ Cardinality(Failed) <= Cardinality(Failed')
      BY <1>2, <1>3, <2>1, FS_Subset DEF NothingNew
    <3> QED BY <1>1, <1>2, <1>3, <2>1, <3>1 DEF NothingNew
  <2>2. ASSUME NEW r \in Requests, Settles(r)
        PROVE  value' + Cardinality(Pending') <= Limit - 1 + width + Cardinality(Failed')
    <3>1. IsFiniteSet(Pending \ {r}) /\ Cardinality(Pending \ {r}) = Cardinality(Pending) - 1
      BY <1>2, <2>2, FS_RemoveElement DEF Settles
    <3>2. Cardinality(Pending') <= Cardinality(Pending \ {r}) /\ Cardinality(Failed) <= Cardinality(Failed')
      BY <1>3, <2>2, <3>1, FS_Subset DEF Settles
    <3> QED BY <1>1, <1>2, <1>3, <2>2, <3>1, <3>2 DEF Settles
  <2> QED BY <1>5, <2>1, <2>2, NothingNewAtTheLimit
<1> QED BY <1>1, <1>4, <1>5

LEMMA NextSumBounded == Core /\ Core' /\ WindowIsNarrow' /\ SumBounded /\ [Next]_vars => SumBounded'
<1>1. Core => Width \in Nat \ {0}
  BY WidthFacts DEF Core, TypeOK
<1>2. [Next]_vars => Width' = Width /\ Limit' = Limit
  BY ScenarioIsFixed DEF Width
<1> QED BY <1>1, <1>2, SumCannotGrow DEF SumBounded, WindowIsNarrow

\* The overrun is bounded by the width of the window and the requests that failed:
\* all requests in flight, or one per process behind a process lock.
THEOREM OverrunIsBounded == Spec => []OverrunBounded
<1>1. Init => OneWave /\ LockHeld
  BY DEF Init, StartsWith, OneWave, LockHeld, Inside
<1>2. Spec => [](OneWave /\ LockHeld)
  BY <1>1, TypeCorrect, NextOneWave, NextLockHeld, PTL DEF Spec
<1>3. Spec => []WindowIsNarrow
  BY <1>2, CoreHolds, PendingIsNarrow, PTL
<1>4. Init => SumBounded
  <2> SUFFICES ASSUME Init PROVE SumBounded
    OBVIOUS
  <2>1. Pending = {} /\ value = Sold0 /\ scenario \in Scenarios
    BY DEF Init, StartsWith, Pending
  <2> QED BY <2>1, ScenarioFacts, WidthFacts, CountsAreNatural, FS_EmptySet DEF SumBounded
<1>5. IInv /\ SumBounded => OverrunBounded
  <2> SUFFICES ASSUME IInv, SumBounded PROVE OverrunBounded
    OBVIOUS
  <2>1. Limit \in Nat /\ Width \in Nat /\ value \in Nat
    BY ScenarioFacts, WidthFacts DEF IInv, Core, TypeOK
  <2> QED BY <2>1, CountsAreNatural DEF SumBounded, OverrunBounded
<1> QED BY <1>3, <1>4, <1>5, CoreHolds, NextSumBounded, Invariance, PTL DEF Spec

------------------------------------------------------------------------------
(* What a burst without failures adds up to. *)

\* A constraint is violated only where the limit is met, and it stays met.
ViolationsAreFinal == \A r \in Requests : reply[r] = 500 => value >= Limit

LEMMA NextViolationsAreFinal == Core /\ ViolationsAreFinal /\ [Next]_vars => ViolationsAreFinal'
<1> SUFFICES ASSUME Core, ViolationsAreFinal, [Next]_vars,
                    NEW q \in Requests, reply'[q] = 500
             PROVE  value' >= Limit
  BY ScenarioIsFixed DEF ViolationsAreFinal
<1> USE DEF Core, TypeOK, ViolationsAreFinal, database, handler
<1>1. Limit \in Nat /\ (Shape = "redemption" => Limit = 1 /\ Sold0 = 0)
  BY ScenarioFacts
<1>2. CASE UNCHANGED <<value, reply>>
  BY <1>2
<1>3. ASSUME NEW r \in Requests, NEW status, status # 500,
             reply' = [reply EXCEPT ![r] = status], UNCHANGED value
      PROVE  value' >= Limit
  BY <1>3
<1>4. ASSUME NEW r \in Requests, RejectEarly(r) \/ PoolTimeout(r) \/ Finish(r) PROVE value' >= Limit
  <2>1. StatusOf[outcome[r]] # 500
    BY DEF StatusOf, Outcomes
  <2> QED BY <1>3, <1>4, <2>1 DEF RejectEarly, PoolTimeout, Finish
<1>5. ASSUME NEW r \in Requests, ConnectionLost(r) \/ InstrumentationLost(r) PROVE value' >= Limit
  BY <1>3, <1>5 DEF ConnectionLost, InstrumentationLost
<1>6. ASSUME NEW r \in Requests, BackstopViolation(r) PROVE value' >= Limit
  <2>1. reply' = [reply EXCEPT ![r] = 500] /\ value' = value
    BY <1>6 DEF BackstopViolation
  <2>2. value >= Limit
    <3>1. CASE CheckViolated
      BY <3>1 DEF CheckViolated
    <3>2. CASE UniqueViolated
      <4>1. Cardinality(rows) # 0 /\ Cardinality(rows) \in Nat
        BY <3>2, RowsAreFinite, FS_EmptySet DEF UniqueViolated
      <4> QED BY <1>1, <3>2, <4>1 DEF UniqueViolated, CounterMatchesRows
    <3> QED BY <1>6, <3>1, <3>2 DEF BackstopViolation
  <2> QED BY <2>1, <2>2
<1>7. ASSUME NEW r \in Requests, Commit(r) \/ ServerCommit(r) PROVE value' >= Limit
  <2>1. ApplyCommit(r) /\ UNCHANGED reply
    BY <1>7 DEF Commit, ServerCommit
  <2>2. value' \in {value, value + 1}
    BY <2>1 DEF ApplyCommit
  <2> QED BY <1>1, <2>1, <2>2
<1>8. ASSUME NEW r \in Requests,
             \/ Send(r) \/ AcquireConnection(r) \/ AcquireInstrumentation(r)
             \/ AcquireProcessLock(r) \/ Check(r) \/ CheckUnknown(r) \/ LeaveWindow(r) \/ Act(r)
             \/ InsertRow(r) \/ RecordAct(r) \/ ReleaseProcessLock(r) \/ ReleaseConnections(r)
             \/ ServerRollback(r)
      PROVE  UNCHANGED <<value, reply>>
  BY <1>8 DEF Send, AcquireConnection, AcquireInstrumentation, AcquireProcessLock, Check,
     CheckUnknown, LeaveWindow, Act, InsertRow, RecordAct, ReleaseProcessLock,
     ReleaseConnections, ServerRollback
<1>9. CASE UNCHANGED vars
  BY <1>2, <1>9 DEF vars
<1> QED
  BY <1>2, <1>4, <1>5, <1>6, <1>7, <1>8, <1>9 DEF Next, Rejection, Step, Failure, Backend

LEMMA QuietAddsUp == IInv /\ OverrunBounded /\ ViolationsAreFinal => ExactWhenSequential
<1> SUFFICES ASSUME IInv, OverrunBounded, ViolationsAreFinal, Quiet, Failed = {}
             PROVE  LET asked == Sold0 + Cardinality({r \in Requests : reply[r] \in {201, 409, 500}})
                        right == IF asked < Limit THEN asked ELSE Limit
                    IN  value >= right /\ (scenario.wave = 1 => value = right)
  BY DEF ExactWhenSequential
<1> DEFINE served == {r \in Requests : reply[r] \in {201, 409, 500}}
<1> USE DEF IInv, Core, TypeOK
<1>1. Limit \in Nat /\ Sold0 \in Nat /\ value \in Nat /\ Cardinality(rows) \in Nat
      /\ value = Sold0 + Cardinality(rows)
  BY ScenarioFacts, RowsAreFinite DEF CounterMatchesRows
<1>2. IsFiniteSet(served) /\ Cardinality(served) \in Nat
  BY RequestsAreFinite, FS_Subset, FS_CardinalityType
<1>3. rows \subseteq served
  BY DEF Quiet, Failed, RowOwners, Stages, Committed
<1>4. Cardinality(rows) <= Cardinality(served)
  <2> HIDE DEF served
  <2> QED BY <1>2, <1>3, FS_Subset
<1>5. value < Limit => served = rows
  <2> SUFFICES ASSUME value < Limit, NEW r \in served PROVE r \in rows
    BY <1>3
  <2>1. reply[r] = 201
    BY <1>1 DEF RefusalsAreFinal, ViolationsAreFinal
  <2> QED BY <2>1 DEF RowOwners
<1>6. scenario.wave = 1 => value <= Limit
  <2>1. Cardinality(Failed) = 0
    BY FS_EmptySet
  <2>2. scenario.wave = 1 => Width = 1
    BY WidthFacts DEF Width
  <2> QED BY <1>1, <2>1, <2>2 DEF OverrunBounded
<1> HIDE DEF served
<1>7. value < Limit => Cardinality(served) = Cardinality(rows)
  BY <1>5
<1> QED BY <1>1, <1>2, <1>4, <1>6, <1>7 DEF served

\* However many race, no unit that could have been sold is left over; and one at
\* a time the same code sells exactly what it should.
THEOREM ExactOneAtATime == Spec => []ExactWhenSequential
<1>1. Init => ViolationsAreFinal
  BY DEF Init, StartsWith, ViolationsAreFinal
<1> QED
  BY <1>1, Invariance, CoreHolds, OverrunIsBounded, NextViolationsAreFinal, QuietAddsUp, PTL DEF Spec

=============================================================================
