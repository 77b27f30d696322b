--------------------------- MODULE SingleUseProofs ---------------------------
(***************************************************************************)
(* For any number of requests, codes, wallets and pooled connections: no   *)
(* code is credited twice, every credit has its record, a refusal rests on *)
(* a committed redemption, every answer is true, every code asked for has  *)
(* one winner, and for each code the guard implements DropLedger.          *)
(*                                                                         *)
(* IInv ties the two locks of a transaction together: an index entry is    *)
(* only ever held by the transaction that holds its wallet's row, and it   *)
(* is the sole uncommitted or committed record of its code.                *)
(***************************************************************************)
EXTENDS SingleUse, FiniteSetTheorems, TLAPS

\* Who holds a wallet row, and what the statements after the UPDATE rely on.
WalletDiscipline ==
    \A r \in Requests :
        /\ \A w \in Wallets : walletLock[w] = r =>
               w = wallet[r] /\ (pc[r] \in {"insert", "commit", "rollback"} \/ adrift[r] # "no")
        /\ pc[r] = "insert" => walletLock[wallet[r]] = r /\ code[r] \in Codes

\* Who holds an index entry: a transaction that is committing, or may be, and
\* that holds its wallet row as well.
EntryDiscipline ==
    \A r \in Requests :
        /\ \A c \in Codes : entry[c] = r =>
               /\ c = code[r]
               /\ walletLock[wallet[r]] = r
               /\ ~AlreadyRedeemed(c)
               /\ pc[r] = "commit" \/ adrift[r] = "in_doubt"
        /\ pc[r] = "commit" \/ adrift[r] = "in_doubt" =>
               code[r] \in Codes /\ entry[code[r]] = r

\* How the handler, its answer and its abandoned transaction go together.
Stages ==
    \A r \in Requests :
        /\ pc[r] \in {"idle", "pool", "begun", "insert", "done"} <=> outcome[r] = "NONE"
        /\ pc[r] = "done" <=> reply[r] # 0
        /\ pc[r] = "commit" => outcome[r] = "CREDITED"
        /\ pc[r] = "rollback" => outcome[r] \in {"REFUSED", "UNKNOWN_TARGET"}
        /\ adrift[r] # "no" => pc[r] \in {"finish", "done"}
        /\ adrift[r] = "in_doubt" => reply[r] = 503

\* Where a committed redemption can be found, and where a promised one must be.
RedemptionOwners ==
    \A r \in Requests :
        /\ r \in redeemed => /\ code[r] \in Codes
                             /\ \/ pc[r] \in {"ended", "finish"} /\ outcome[r] = "CREDITED"
                                \/ reply[r] \in {201, 503}
        /\ pc[r] \in {"ended", "finish"} /\ outcome[r] = "CREDITED" => r \in redeemed
        /\ reply[r] = 201 => r \in redeemed

\* A code has one committed redemption at most.
OneRecordPerCode == \A q, r \in redeemed : code[q] = code[r] => q = r

IInv ==
    /\ TypeOK
    /\ WalletDiscipline
    /\ EntryDiscipline
    /\ Stages
    /\ RedemptionOwners
    /\ OneRecordPerCode
    /\ RefusedOnlyWhenRedeemed
    /\ WalletsMatchRedemptions

------------------------------------------------------------------------------
USE DEF Goto, Answer, Decide

\* The initial state satisfies the inductive invariant.
LEMMA InitIInv == Init => IInv
BY RedeemersAssumption
   DEF Init, IInv, TypeOK, WalletDiscipline, EntryDiscipline, Stages, RedemptionOwners,
       OneRecordPerCode, RefusedOnlyWhenRedeemed, WalletsMatchRedemptions,
       Places, Connected, Outcomes, Holders

\* Every outcome has its status.
LEMMA StatusIsHttp == \A o \in Outcomes : StatusOf[o] \in {201, 404, 409, 503}
BY DEF StatusOf, Outcomes

\* Type correctness, one action at a time.
LEMMA NextTypeOK == TypeOK /\ [Next]_vars => TypeOK'
<1> SUFFICES ASSUME TypeOK, [Next]_vars PROVE TypeOK'
  OBVIOUS
<1> USE DEF TypeOK, Places, Connected, Outcomes, Holders, database, handler
<1>1. CASE UNCHANGED vars
  BY <1>1 DEF vars
<1>2. ASSUME NEW r \in Requests, RejectEarly(r) PROVE TypeOK'
  BY <1>2 DEF RejectEarly
<1>3. ASSUME NEW r \in Requests, Accept(r) PROVE TypeOK'
  <2>1. PICK t \in Targets : /\ code' = [code EXCEPT ![r] = t[1]]
                             /\ wallet' = [wallet EXCEPT ![r] = t[2]]
    BY <1>3 DEF Accept
  <2>2. t \in (Codes \cup {NoCode}) \X Wallets
    BY RedeemersAssumption
  <2>3. t[1] \in Codes \cup {NoCode} /\ t[2] \in Wallets
    BY <2>2
  <2> QED BY <1>3, <2>1, <2>3 DEF Accept
<1>4. ASSUME NEW r \in Requests, AcquireConnection(r) PROVE TypeOK'
  BY <1>4 DEF AcquireConnection
<1>5. ASSUME NEW r \in Requests, PoolTimeout(r) PROVE TypeOK'
  BY <1>5 DEF PoolTimeout
<1>6. ASSUME NEW r \in Requests, ReleaseConnection(r) PROVE TypeOK'
  BY <1>6 DEF ReleaseConnection
<1>7. ASSUME NEW r \in Requests, FinishRedemption(r) PROVE TypeOK'
  <2>1. StatusOf[outcome[r]] \in {201, 404, 409, 503}
    BY StatusIsHttp
  <2> QED BY <1>7, <2>1 DEF FinishRedemption
<1>8. ASSUME NEW r \in Requests, Statement(r) PROVE TypeOK'
  BY <1>8 DEF Statement, CreditWallet, CreditNothing, InsertRedemption, UniqueViolation
<1>9. ASSUME NEW r \in Requests, Commit(r) PROVE TypeOK'
  BY <1>9 DEF Commit, ApplyCommit, EndTransaction, Release
<1>10. ASSUME NEW r \in Requests, Rollback(r) PROVE TypeOK'
  BY <1>10 DEF Rollback, EndTransaction, Release
<1>11. ASSUME NEW r \in Requests, ConnectionLost(r) PROVE TypeOK'
  BY <1>11 DEF ConnectionLost
<1>12. ASSUME NEW r \in Requests, RollbackLost(r) PROVE TypeOK'
  BY <1>12 DEF RollbackLost
<1>13. ASSUME NEW r \in Requests, ServerRollback(r) PROVE TypeOK'
  BY <1>13 DEF ServerRollback, EndTransaction, Release
<1>14. ASSUME NEW r \in Requests, ServerCommit(r) PROVE TypeOK'
  BY <1>14 DEF ServerCommit, ApplyCommit, EndTransaction, Release
<1> QED
  BY <1>1, <1>2, <1>3, <1>4, <1>5, <1>6, <1>7, <1>8, <1>9, <1>10, <1>11, <1>12, <1>13, <1>14
     DEF Next, Progress

\* The program's state always has its type, for every value of the constants.
THEOREM TypeCorrect == Spec => []TypeOK
<1>1. Init => TypeOK
  BY InitIInv DEF IInv
<1> QED BY <1>1, NextTypeOK, PTL DEF Spec

------------------------------------------------------------------------------
\* Every step keeps the inductive invariant.
LEMMA NextIInv == IInv /\ [Next]_vars => IInv'
<1> SUFFICES ASSUME IInv, [Next]_vars PROVE IInv'
  OBVIOUS
<1> USE RedeemersAssumption DEF Connected
<1>1. TypeOK'
  BY NextTypeOK DEF IInv
<1> DEFINE Rest == /\ WalletDiscipline' /\ EntryDiscipline' /\ Stages' /\ RedemptionOwners'
                   /\ OneRecordPerCode' /\ RefusedOnlyWhenRedeemed' /\ WalletsMatchRedemptions'
<1> USE DEF WalletDiscipline, EntryDiscipline, Stages, RedemptionOwners, OneRecordPerCode,
            RefusedOnlyWhenRedeemed, WalletsMatchRedemptions, AlreadyRedeemed
<1>2. CASE UNCHANGED vars
  BY <1>1, <1>2 DEF IInv, vars, handler, database
<1>3. ASSUME NEW r \in Requests, RejectEarly(r) PROVE Rest
  BY <1>1, <1>3 DEF IInv, RejectEarly, TypeOK, database
<1>4. ASSUME NEW r \in Requests, Accept(r) PROVE Rest
  <2>1. /\ pc[r] = "idle" /\ pc' = [pc EXCEPT ![r] = "pool"]
        /\ \A q \in Requests : q # r => code'[q] = code[q] /\ wallet'[q] = wallet[q]
        /\ UNCHANGED <<outcome, reply, credited, redeemed, walletLock, entry, adrift>>
    BY <1>4 DEF IInv, Accept, TypeOK, database
  <2>2. /\ outcome[r] = "NONE" /\ reply[r] = 0 /\ adrift[r] = "no" /\ r \notin redeemed
        /\ \A w \in Wallets : walletLock[w] # r
        /\ \A c \in Codes : entry[c] # r
    BY <2>1 DEF IInv
  <2>3. \A c \in Codes : AlreadyRedeemed(c)' <=> AlreadyRedeemed(c)
    BY <2>1, <2>2 DEF IInv, TypeOK
  <2>4. WalletDiscipline' /\ EntryDiscipline'
    BY <1>1, <2>1, <2>2, <2>3 DEF IInv, TypeOK
  <2>5. Stages'
    BY <1>1, <2>1, <2>2 DEF IInv, TypeOK
  <2>6. RedemptionOwners' /\ OneRecordPerCode' /\ WalletsMatchRedemptions'
    BY <1>1, <2>1, <2>2 DEF IInv, TypeOK
  <2>7. RefusedOnlyWhenRedeemed'
    BY <1>1, <2>1, <2>2 DEF IInv, TypeOK
  <2> QED BY <2>4, <2>5, <2>6, <2>7
<1>5. ASSUME NEW r \in Requests, AcquireConnection(r) PROVE Rest
  BY <1>1, <1>5 DEF IInv, AcquireConnection, TypeOK, database
<1>6. ASSUME NEW r \in Requests, PoolTimeout(r) PROVE Rest
  BY <1>1, <1>6 DEF IInv, PoolTimeout, TypeOK, database
<1>7. ASSUME NEW r \in Requests, ReleaseConnection(r) PROVE Rest
  BY <1>1, <1>7 DEF IInv, ReleaseConnection, TypeOK, database
<1>8. ASSUME NEW r \in Requests, FinishRedemption(r) PROVE Rest
  <2>1. outcome[r] \in {"CREDITED", "REFUSED", "UNKNOWN_TARGET"}
    BY <1>8 DEF IInv, TypeOK, Outcomes, FinishRedemption
  <2>2. reply' = [reply EXCEPT ![r] = StatusOf[outcome[r]]]
    BY <1>8 DEF FinishRedemption
  <2>3. /\ pc[r] = "finish" /\ pc' = [pc EXCEPT ![r] = "done"]
        /\ outcome' = [outcome EXCEPT ![r] = "NONE"]
        /\ UNCHANGED <<code, wallet, credited, redeemed, walletLock, entry, adrift>>
    BY <1>8 DEF FinishRedemption, database
  <2>4. /\ reply'[r] \in {201, 404, 409} /\ \A q \in Requests : q # r => reply'[q] = reply[q]
        /\ reply'[r] = 201 <=> outcome[r] = "CREDITED"
        /\ reply'[r] = 409 <=> outcome[r] = "REFUSED"
        /\ adrift[r] # "in_doubt"
    BY <2>1, <2>2, <2>3 DEF IInv, TypeOK, StatusOf
  <2>5. WalletDiscipline' /\ EntryDiscipline'
    BY <1>1, <2>3 DEF IInv, TypeOK
  <2>6. Stages'
    BY <1>1, <2>3, <2>4 DEF IInv, TypeOK
  <2>7. RedemptionOwners' /\ OneRecordPerCode' /\ WalletsMatchRedemptions'
    BY <1>1, <2>3, <2>4 DEF IInv, TypeOK
  <2>8. RefusedOnlyWhenRedeemed'
    BY <1>1, <2>3, <2>4 DEF IInv, TypeOK
  <2> QED BY <2>5, <2>6, <2>7, <2>8
<1>9. ASSUME NEW r \in Requests, CreditWallet(r) PROVE Rest
  BY <1>1, <1>9 DEF IInv, CreditWallet, TypeOK
<1>10. ASSUME NEW r \in Requests, CreditNothing(r) PROVE Rest
  BY <1>1, <1>10 DEF IInv, CreditNothing, TypeOK, database
<1>11. ASSUME NEW r \in Requests, InsertRedemption(r) PROVE Rest
  BY <1>1, <1>11 DEF IInv, InsertRedemption, TypeOK
<1>12. ASSUME NEW r \in Requests, UniqueViolation(r) PROVE Rest
  BY <1>1, <1>12 DEF IInv, UniqueViolation, TypeOK, database
<1>13. ASSUME NEW r \in Requests, Commit(r) PROVE Rest
  BY <1>1, <1>13 DEF IInv, Commit, ApplyCommit, EndTransaction, Release, TypeOK
<1>14. ASSUME NEW r \in Requests, Rollback(r) PROVE Rest
  BY <1>1, <1>14 DEF IInv, Rollback, EndTransaction, Release, TypeOK
<1>15. ASSUME NEW r \in Requests, ConnectionLost(r) PROVE Rest
  BY <1>1, <1>15 DEF IInv, ConnectionLost, TypeOK
<1>16. ASSUME NEW r \in Requests, RollbackLost(r) PROVE Rest
  BY <1>1, <1>16 DEF IInv, RollbackLost, TypeOK
<1>17. ASSUME NEW r \in Requests, ServerRollback(r) PROVE Rest
  BY <1>1, <1>17 DEF IInv, ServerRollback, EndTransaction, Release, TypeOK, handler
<1>18. ASSUME NEW r \in Requests, ServerCommit(r) PROVE Rest
  BY <1>1, <1>18 DEF IInv, ServerCommit, ApplyCommit, EndTransaction, Release, TypeOK, handler
<1>19. Rest => IInv'
  BY <1>1 DEF IInv
<1> HIDE DEF Rest
<1> QED
  BY <1>2, <1>3, <1>4, <1>5, <1>6, <1>7, <1>8, <1>9, <1>10, <1>11, <1>12, <1>13,
     <1>14, <1>15, <1>16, <1>17, <1>18, <1>19
     DEF Next, Progress, Statement

\* The inductive invariant holds in every reachable state.
THEOREM Invariance == Spec => []IInv
BY InitIInv, NextIInv, PTL DEF Spec

\* Every committed credit has its committed record, and the other way round.
THEOREM CreditsAreRecorded == Spec => []WalletsMatchRedemptions
<1>1. IInv => WalletsMatchRedemptions
  BY DEF IInv
<1> QED BY <1>1, Invariance, PTL

\* No code is credited twice, whichever wallets are named.
THEOREM SingleCredit == Spec => []CreditedOnce
<1>1. IInv => CreditedOnce
  BY DEF IInv, TypeOK, WalletsMatchRedemptions, OneRecordPerCode, CreditedOnce
<1> QED BY <1>1, Invariance, PTL

\* A refusal rests on somebody's committed redemption of the same code.
THEOREM RefusalMeansRedeemed == Spec => []RefusedOnlyWhenRedeemed
<1>1. IInv => RefusedOnlyWhenRedeemed
  BY DEF IInv
<1> QED BY <1>1, Invariance, PTL

\* What a buyer was told is what the redemptions say, and stays so.
THEOREM AnswersAreTrue == Spec => []AnswersMatchRedemptions
<1>1. IInv => AnswersMatchRedemptions
  BY DEF IInv, TypeOK, Stages, EntryDiscipline, RedemptionOwners, AnswersMatchRedemptions
<1> QED BY <1>1, Invariance, PTL

------------------------------------------------------------------------------
(* What a quiet burst adds up to: one redemption per code that was asked for,  *)
(* and one event for every other request.                                      *)

Refused == {r \in Requests : reply[r] = 409}

Audited == TypeOK /\ Stages /\ refusals = Cardinality(Refused)

LEMMA RefusedIsFinite == IsFiniteSet(Refused) /\ Cardinality(Refused) \in Nat
BY RedeemersAssumption, FS_Subset, FS_CardinalityType DEF Refused

LEMMA OneMoreRefused ==
    ASSUME NEW r, r \notin Refused
    PROVE  Cardinality(Refused \cup {r}) = Cardinality(Refused) + 1
BY RefusedIsFinite, FS_AddElement

\* The audit log grows with the refusals and with nothing else.
LEMMA NextAudited == Audited /\ [Next]_vars => (refusals = Cardinality(Refused))'
<1> SUFFICES ASSUME Audited, [Next]_vars PROVE refusals' = Cardinality(Refused')
  BY DEF Refused
<1> USE DEF Audited, TypeOK, database, handler
<1>1. CASE UNCHANGED <<refusals, reply>>
  BY <1>1 DEF Refused
<1>2. ASSUME NEW r \in Requests, NEW status, status # 409, reply[r] = 0,
             reply' = [reply EXCEPT ![r] = status], UNCHANGED refusals
      PROVE  refusals' = Cardinality(Refused')
  <2>1. Refused' = Refused
    BY <1>2 DEF Refused
  <2> QED BY <1>2, <2>1
<1>3. ASSUME NEW r \in Requests, RejectEarly(r) \/ PoolTimeout(r) \/ ConnectionLost(r)
      PROVE  refusals' = Cardinality(Refused')
  BY <1>2, <1>3 DEF RejectEarly, PoolTimeout, ConnectionLost, Stages
<1>4. ASSUME NEW r \in Requests, FinishRedemption(r) PROVE refusals' = Cardinality(Refused')
  <2>1. outcome[r] \in {"CREDITED", "REFUSED", "UNKNOWN_TARGET"} /\ reply[r] = 0
    BY <1>4 DEF Outcomes, FinishRedemption, Stages
  <2>2. reply' = [reply EXCEPT ![r] = StatusOf[outcome[r]]]
    BY <1>4 DEF FinishRedemption
  <2>3. CASE outcome[r] = "REFUSED"
    <3>1. Refused' = Refused \cup {r} /\ r \notin Refused /\ refusals' = refusals + 1
      BY <1>4, <2>1, <2>2, <2>3 DEF Refused, FinishRedemption, StatusOf
    <3>2. Cardinality(Refused \cup {r}) = Cardinality(Refused) + 1
      BY <3>1, OneMoreRefused
    <3> QED BY <3>1, <3>2
  <2>4. CASE outcome[r] # "REFUSED"
    <3>1. StatusOf[outcome[r]] # 409 /\ UNCHANGED refusals
      BY <1>4, <2>1, <2>4 DEF FinishRedemption, StatusOf
    <3>2. Refused' = Refused
      BY <2>1, <2>2, <3>1 DEF Refused
    <3> QED BY <3>1, <3>2
  <2> QED BY <2>3, <2>4
<1>5. ASSUME NEW r \in Requests,
             \/ Accept(r) \/ AcquireConnection(r) \/ ReleaseConnection(r) \/ Statement(r)
             \/ Commit(r) \/ Rollback(r) \/ RollbackLost(r) \/ ServerRollback(r) \/ ServerCommit(r)
      PROVE  UNCHANGED <<refusals, reply>>
  BY <1>5 DEF Accept, AcquireConnection, ReleaseConnection, Statement, CreditWallet, CreditNothing,
     InsertRedemption, UniqueViolation, Commit, Rollback, RollbackLost, ServerRollback, ServerCommit
<1>6. CASE UNCHANGED vars
  BY <1>1, <1>6 DEF vars
<1> QED BY <1>1, <1>3, <1>4, <1>5, <1>6 DEF Next, Progress

\* In a quiet burst without failures the redeemed requests and the codes that
\* were asked for are in bijection; the others were refused.
LEMMA QuietAddsUp == IInv /\ Audited => OneWinnerPerCode
<1> SUFFICES ASSUME IInv, Audited, Quiet, NothingFailed
             PROVE  LET asked == {r \in Requests : reply[r] \in {201, 409}}
                    IN  /\ \A r \in asked : AlreadyRedeemed(code[r])
                        /\ refusals = Cardinality(asked) - Cardinality({code[r] : r \in asked})
  BY DEF OneWinnerPerCode
<1> DEFINE asked == {r \in Requests : reply[r] \in {201, 409}}
           codes == {code[r] : r \in asked}
           codeOf == [r \in redeemed |-> code[r]]
<1> USE DEF IInv, Audited, TypeOK, Quiet, NothingFailed
<1>1. asked = redeemed \cup Refused /\ redeemed \cap Refused = {}
  BY DEF Refused, Stages, RedemptionOwners
<1>2. \A r \in asked : AlreadyRedeemed(code[r])
  BY DEF AlreadyRedeemed, RedemptionOwners, RefusedOnlyWhenRedeemed
<1>3. IsFiniteSet(redeemed) /\ Cardinality(redeemed) \in Nat
  BY RedeemersAssumption, FS_Subset, FS_CardinalityType
<1>4. Cardinality(asked) = Cardinality(redeemed) + Cardinality(Refused)
  <2>1. Cardinality(redeemed \cap Refused) = 0
    BY <1>1, FS_EmptySet
  <2>2. Cardinality(redeemed \cup Refused)
            = Cardinality(redeemed) + Cardinality(Refused) - Cardinality(redeemed \cap Refused)
    BY <1>3, RefusedIsFinite, FS_Union
  <2> HIDE DEF asked
  <2> QED BY <1>1, <1>3, <2>1, <2>2, RefusedIsFinite
<1>5. Cardinality(codes) = Cardinality(redeemed)
  <2>1. codeOf \in [redeemed -> codes]
    BY <1>1
  <2>2. \A c \in codes : \E r \in redeemed : codeOf[r] = c
    BY <1>2 DEF AlreadyRedeemed
  <2>3. \A q, r \in redeemed : codeOf[q] = codeOf[r] => q = r
    BY DEF OneRecordPerCode
  <2> HIDE DEF codes, codeOf
  <2>4. codeOf \in Surjection(redeemed, codes) /\ codeOf \in Injection(redeemed, codes)
    BY <2>1, <2>2, <2>3 DEF Surjection, Injection, IsInjective
  <2> QED BY <1>3, <2>4, FS_Surjection
<1> QED BY <1>2, <1>3, <1>4, <1>5, RefusedIsFinite

\* When the burst is over and nothing failed, every code that was asked for has
\* one redemption, and every other request for it left one refusal event.
THEOREM OneWinner == Spec => []OneWinnerPerCode
<1>1. Init => Audited
  <2>1. Init => Refused = {} /\ refusals = 0
    BY DEF Init, Refused
  <2> QED BY <2>1, InitIInv, FS_EmptySet DEF IInv, Audited
<1>2. IInv /\ Audited /\ [Next]_vars => Audited'
  BY NextIInv, NextAudited DEF IInv, Audited
<1> QED BY <1>1, <1>2, Invariance, QuietAddsUp, PTL DEF Spec

------------------------------------------------------------------------------
(* Refinement: every step is, for each code, a step of a ledger of one unit. *)

\* Request r is told `status', and the redemptions agree.
Tells(r, status) ==
    /\ status \in {201, 401, 404, 409, 503}
    /\ reply[r] = 0
    /\ reply' = [reply EXCEPT ![r] = status]
    /\ UNCHANGED <<code, redeemed>>
    /\ status = 201 => r \in redeemed
    /\ status # 201 /\ status # 503 => r \notin redeemed
    /\ status = 409 => AlreadyRedeemed(code[r])

\* Executing a COMMIT records the redemption of a code nobody has redeemed.
Records(r) ==
    /\ UNCHANGED <<code, reply>>
    /\ redeemed' = redeemed \cup {r} /\ r \notin redeemed
    /\ ~AlreadyRedeemed(code[r])
    /\ reply[r] \in {0, 503}

\* Nothing that a ledger sees happens.
Hidden ==
    /\ UNCHANGED <<redeemed, reply>>
    /\ \A r \in Requests : code'[r] # code[r] => reply[r] = 0 /\ r \notin redeemed

AnswersFor(c) == [r \in Requests |-> IF code[r] = c THEN AnswerOf(reply[r]) ELSE "none"]

\* A function that differs from another in one place.
LEMMA Updated ==
    ASSUME NEW S, NEW f, NEW g, NEW y \in S, NEW v,
           f = [x \in S |-> f[x]], g = [x \in S |-> g[x]],
           \A x \in S : g[x] = IF x = y THEN v ELSE f[x]
    PROVE  g = [f EXCEPT ![y] = v]
OBVIOUS

LEMMA TellsIsAStep ==
    ASSUME IInv, NEW r \in Requests, NEW status, Tells(r, status), NEW c \in Codes
    PROVE  [Ledger(c)!Next]_(Ledger(c)!ledger)
<1> USE DEF Tells
<1>1. \A q \in Requests : reply'[q] = IF q = r THEN status ELSE reply[q]
  BY DEF IInv, TypeOK
<1>2. Redeemers(c)' = Redeemers(c)
  BY DEF Redeemers
<1>3. CASE code[r] # c
  <2>1. AnswersFor(c)' = AnswersFor(c)
    BY <1>1, <1>3 DEF AnswersFor
  <2> QED BY <1>2, <2>1 DEF Ledger!ledger, AnswersFor
<1>4. CASE code[r] = c
  <2>1. AnswersFor(c)' = [AnswersFor(c) EXCEPT ![r] = AnswerOf(status)]
    <3>1. \A q \in Requests :
              AnswersFor(c)'[q] = IF q = r THEN AnswerOf(status) ELSE AnswersFor(c)[q]
      BY <1>1, <1>4 DEF AnswersFor, AnswerOf
    <3>2. /\ AnswersFor(c) = [q \in Requests |-> AnswersFor(c)[q]]
          /\ AnswersFor(c)' = [q \in Requests |-> AnswersFor(c)'[q]]
      BY DEF AnswersFor
    <3> QED BY <3>1, <3>2, Updated
  <2>2. AnswersFor(c)[r] = "none"
    BY DEF AnswersFor, AnswerOf
  <2>3. Ledger(c)!Tell(r, AnswerOf(status))
    BY <1>2, <2>1, <2>2 DEF Ledger!Tell, AnswersFor
  <2>4. r \in Redeemers(c) <=> r \in redeemed
    BY <1>4 DEF Redeemers
  <2>5. CASE status = 201
    BY <2>3, <2>4, <2>5 DEF Ledger!Next, Ledger!Confirm, AnswerOf
  <2>6. CASE status = 409
    <3>1. Redeemers(c) # {}
      BY <1>4, <2>6 DEF AlreadyRedeemed, Redeemers
    <3> QED BY <2>3, <2>4, <2>6, <3>1 DEF Ledger!Next, Ledger!Refuse, AnswerOf
  <2>7. CASE status = 503
    BY <2>3, <2>7 DEF Ledger!Next, Ledger!Fail, AnswerOf
  <2>8. CASE status \in {401, 404}
    BY <2>3, <2>4, <2>8 DEF Ledger!Next, Ledger!Reject, AnswerOf
  <2> QED BY <2>5, <2>6, <2>7, <2>8
<1> QED BY <1>3, <1>4

LEMMA RecordsIsAStep ==
    ASSUME IInv, NEW r \in Requests, Records(r), NEW c \in Codes
    PROVE  [Ledger(c)!Next]_(Ledger(c)!ledger)
<1> USE DEF Records
<1>1. AnswersFor(c)' = AnswersFor(c)
  BY DEF AnswersFor
<1>2. CASE code[r] # c
  <2>1. Redeemers(c)' = Redeemers(c)
    BY <1>2 DEF Redeemers
  <2> QED BY <1>1, <2>1 DEF Ledger!ledger, AnswersFor
<1>3. CASE code[r] = c
  <2>1. Redeemers(c) = {} /\ Redeemers(c)' = Redeemers(c) \cup {r}
    BY <1>3 DEF Redeemers, AlreadyRedeemed
  <2>2. AnswersFor(c)[r] \in {"none", "unavailable"}
    BY DEF AnswersFor, AnswerOf
  <2>3. Ledger(c)!Sell(r)
    BY <1>1, <2>1, <2>2 DEF Ledger!Sell, AnswersFor
  <2> QED BY <2>3 DEF Ledger!Next
<1> QED BY <1>2, <1>3

LEMMA HiddenIsAStutter ==
    ASSUME TypeOK, TypeOK', Hidden, NEW c \in Codes
    PROVE  UNCHANGED Ledger(c)!ledger
<1>1. Redeemers(c)' = Redeemers(c)
  BY DEF Hidden, Redeemers, TypeOK
<1>2. AnswersFor(c)' = AnswersFor(c)
  BY DEF Hidden, AnswersFor, AnswerOf, TypeOK
<1> QED BY <1>1, <1>2 DEF Ledger!ledger, AnswersFor

\* Every step tells one request, records one redemption, or is hidden.
LEMMA StepSimulation ==
    IInv /\ [Next]_vars => \A c \in Codes : [Ledger(c)!Next]_(Ledger(c)!ledger)
<1> SUFFICES ASSUME IInv, [Next]_vars, NEW c \in Codes
             PROVE  [Ledger(c)!Next]_(Ledger(c)!ledger)
  OBVIOUS
<1> DEFINE Goal == \/ Hidden
                   \/ \E r \in Requests : Records(r)
                   \/ \E r \in Requests, status \in {201, 401, 404, 409, 503} : Tells(r, status)
<1> USE DEF database, handler
<1>1. ASSUME UNCHANGED vars PROVE Hidden
  BY <1>1 DEF vars, Hidden
<1>2. ASSUME NEW r \in Requests, RejectEarly(r) PROVE Tells(r, 401)
  BY <1>2 DEF RejectEarly, Tells, IInv, Stages, RedemptionOwners
<1>3. ASSUME NEW r \in Requests, PoolTimeout(r) PROVE Tells(r, 503)
  BY <1>3 DEF PoolTimeout, Tells, IInv, Stages
<1>4. ASSUME NEW r \in Requests, ConnectionLost(r) PROVE Tells(r, 503)
  BY <1>4 DEF ConnectionLost, Tells, IInv, Stages
<1>5. ASSUME NEW r \in Requests, FinishRedemption(r)
      PROVE  StatusOf[outcome[r]] \in {201, 404, 409} /\ Tells(r, StatusOf[outcome[r]])
  <2>1. outcome[r] \in {"CREDITED", "REFUSED", "UNKNOWN_TARGET"} /\ reply[r] = 0 /\ pc[r] = "finish"
    BY <1>5 DEF IInv, TypeOK, Outcomes, FinishRedemption, Stages
  <2>2. reply' = [reply EXCEPT ![r] = StatusOf[outcome[r]]] /\ UNCHANGED <<code, redeemed>>
    BY <1>5 DEF FinishRedemption
  <2>3. outcome[r] = "CREDITED" <=> r \in redeemed
    BY <2>1 DEF IInv, RedemptionOwners
  <2>4. outcome[r] = "REFUSED" => AlreadyRedeemed(code[r])
    BY DEF IInv, RefusedOnlyWhenRedeemed
  <2> QED BY <2>1, <2>2, <2>3, <2>4 DEF StatusOf, Tells
<1>6. ASSUME NEW r \in Requests, Accept(r) PROVE Hidden
  <2>1. \A q \in Requests : q # r => code'[q] = code[q]
    BY <1>6 DEF Accept, IInv, TypeOK
  <2>2. reply[r] = 0 /\ r \notin redeemed
    BY <1>6 DEF Accept, IInv, Stages, RedemptionOwners
  <2> QED BY <1>6, <2>1, <2>2 DEF Accept, Hidden
<1>7. ASSUME NEW r \in Requests, AcquireConnection(r) \/ ReleaseConnection(r) \/ Statement(r)
      PROVE  Hidden
  BY <1>7 DEF AcquireConnection, ReleaseConnection, Statement, CreditWallet, CreditNothing,
     InsertRedemption, UniqueViolation, Hidden
<1>8. ASSUME NEW r \in Requests, Rollback(r) \/ RollbackLost(r) \/ ServerRollback(r) PROVE Hidden
  BY <1>8 DEF Rollback, RollbackLost, ServerRollback, Hidden
<1>9. ASSUME NEW r \in Requests, Commit(r) \/ ServerCommit(r) PROVE Records(r)
  <2>1. ApplyCommit(r) /\ UNCHANGED <<code, reply>> /\ (pc[r] = "commit" \/ adrift[r] = "in_doubt")
    BY <1>9 DEF Commit, ServerCommit
  <2>2. code[r] \in Codes /\ entry[code[r]] = r
    BY <2>1 DEF IInv, EntryDiscipline
  <2>3. ~AlreadyRedeemed(code[r])
    BY <2>2 DEF IInv, EntryDiscipline
  <2>4. redeemed' = redeemed \cup {r} /\ r \notin redeemed
    BY <2>1, <2>2, <2>3 DEF ApplyCommit, AlreadyRedeemed
  <2>5. reply[r] \in {0, 503}
    BY <2>1 DEF IInv, Stages
  <2> QED BY <2>1, <2>3, <2>4, <2>5 DEF Records
<1>10. Goal
  BY <1>1, <1>2, <1>3, <1>4, <1>5, <1>6, <1>7, <1>8, <1>9 DEF Next, Progress
<1>11. CASE Hidden
  <2>1. TypeOK /\ TypeOK'
    BY NextTypeOK DEF IInv
  <2> QED BY <1>11, <2>1, HiddenIsAStutter
<1> QED BY <1>10, <1>11, TellsIsAStep, RecordsIsAStep

\* The redemption guard implements, for each code, the ledger of a drop of one
\* unit, with every failure it can meet.
THEOREM Refinement == Spec => EachCodeIsALedger
<1>1. Init => \A c \in Codes : Ledger(c)!Init
  <2> SUFFICES ASSUME Init, NEW c \in Codes PROVE Ledger(c)!Init
    OBVIOUS
  <2>1. Redeemers(c) = {}
    BY DEF Init, Redeemers
  <2>2. AnswersFor(c) = [r \in Requests |-> "none"]
    BY DEF Init, AnswersFor, AnswerOf
  <2> QED BY <2>1, <2>2 DEF Ledger!Init, AnswersFor
<1> QED BY <1>1, StepSimulation, Invariance, PTL DEF Spec, EachCodeIsALedger

=============================================================================
