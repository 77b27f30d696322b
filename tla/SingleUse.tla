------------------------------ MODULE SingleUse ------------------------------
(***************************************************************************)
(* POST /credit/redemptions on the secure storefront: redeem_credit_code   *)
(* credits the wallet first and records the redemption second, in one      *)
(* transaction, and lets UNIQUE (code) decide.                             *)
(*                                                                         *)
(* A transaction waits for two things, always in this order: the row of    *)
(* its wallet, which its UPDATE locks, and the unique index entry of its   *)
(* code, while another transaction that inserted the same code is open.    *)
(* A balance is abstracted to the set of requests whose credit it holds:   *)
(* the UPDATE adds one element to the newest committed set, so a lost or a *)
(* duplicated credit shows as a missing or a surplus element.              *)
(***************************************************************************)
EXTENDS Integers, FiniteSets

CONSTANTS
    Requests,   \* the redemption requests ever sent
    NoRequest,  \* nobody
    Codes,      \* credit_codes
    NoCode,     \* a code, or a wallet, that does not exist
    Wallets,    \* wallets
    Targets,    \* the <<code, wallet>> pairs a request may name
    PoolSize    \* pool_max_size of the replica

ASSUME RedeemersAssumption ==
    /\ IsFiniteSet(Requests)
    /\ NoRequest \notin Requests
    /\ NoCode \notin Codes
    /\ Wallets # {}
    /\ Targets \subseteq (Codes \cup {NoCode}) \X Wallets
    /\ PoolSize \in Nat \ {0}

VARIABLES
    pc,          \* where each handler is
    code,        \* the code each request names
    wallet,      \* the wallet each request names
    outcome,     \* the RedemptionOutcome about to be returned
    reply,       \* the HTTP status sent, 0 before
    refusals,    \* invariant_refusal events on standard output
    credited,    \* committed: whose credits each balance holds
    redeemed,    \* committed: the requests with a row in redemptions
    walletLock,  \* whose transaction holds each wallet row
    entry,       \* whose uncommitted row holds each code's index entry
    adrift       \* transactions whose client is gone: "no", "open", "in_doubt"

handler == <<pc, code, wallet, outcome, reply>>
database == <<credited, redeemed, walletLock, entry, adrift>>
vars == <<handler, refusals, database>>

Outcomes == {"NONE", "CREDITED", "REFUSED", "UNKNOWN_TARGET"}
Connected == {"begun", "insert", "commit", "rollback", "ended"}
Places == {"idle", "pool", "finish", "done"} \cup Connected
Holders == Requests \cup {NoRequest}

TypeOK ==
    /\ pc \in [Requests -> Places]
    /\ code \in [Requests -> Codes \cup {NoCode}]
    /\ wallet \in [Requests -> Wallets]
    /\ outcome \in [Requests -> Outcomes]
    /\ reply \in [Requests -> {0, 201, 401, 404, 409, 503}]
    /\ refusals \in Nat
    /\ credited \in [Wallets -> SUBSET Requests]
    /\ redeemed \subseteq Requests
    /\ walletLock \in [Wallets -> Holders]
    /\ entry \in [Codes -> Holders]
    /\ adrift \in [Requests -> {"no", "open", "in_doubt"}]

Init ==
    /\ pc = [r \in Requests |-> "idle"]
    /\ code = [r \in Requests |-> NoCode]
    /\ wallet = [r \in Requests |-> CHOOSE w \in Wallets : TRUE]
    /\ outcome = [r \in Requests |-> "NONE"]
    /\ reply = [r \in Requests |-> 0]
    /\ refusals = 0
    /\ credited = [w \in Wallets |-> {}]
    /\ redeemed = {}
    /\ walletLock = [w \in Wallets |-> NoRequest]
    /\ entry = [c \in Codes |-> NoRequest]
    /\ adrift = [r \in Requests |-> "no"]

------------------------------------------------------------------------------
(* The handler around redeem_credit_code. *)

Goto(r, place) == pc[r] # place /\ pc' = [pc EXCEPT ![r] = place]

\* The handler's locals die with it.
Answer(r, status) ==
    /\ Goto(r, "done")
    /\ reply' = [reply EXCEPT ![r] = status]
    /\ outcome' = [outcome EXCEPT ![r] = "NONE"]

RejectEarly(r) ==
    /\ pc[r] = "idle"
    /\ Answer(r, 401)
    /\ UNCHANGED <<code, wallet, refusals, database>>

Accept(r) ==
    /\ pc[r] = "idle"
    /\ Goto(r, "pool")
    /\ \E t \in Targets : /\ code' = [code EXCEPT ![r] = t[1]]
                           /\ wallet' = [wallet EXCEPT ![r] = t[2]]
    /\ UNCHANGED <<outcome, reply, refusals, database>>

AcquireConnection(r) ==
    /\ pc[r] = "pool"
    /\ Cardinality({q \in Requests : pc[q] \in Connected}) < PoolSize
    /\ Goto(r, "begun")
    /\ UNCHANGED <<code, wallet, outcome, reply, refusals, database>>

PoolTimeout(r) ==
    /\ pc[r] = "pool"
    /\ Answer(r, 503)
    /\ UNCHANGED <<code, wallet, refusals, database>>

ReleaseConnection(r) ==
    /\ pc[r] = "ended"
    /\ Goto(r, "finish")
    /\ UNCHANGED <<code, wallet, outcome, reply, refusals, database>>

\* Broken variant: a redemption is acknowledged with 200 instead of 201.
StatusOfWrong ==
    [CREDITED |-> 200, REFUSED |-> 409, UNKNOWN_TARGET |-> 404, NONE |-> 503]

StatusOf == [CREDITED |-> 201, REFUSED |-> 409, UNKNOWN_TARGET |-> 404, NONE |-> 503]

\* Broken variant: an unknown target is audited as a refusal.
FinishRedemptionNoisy(r) ==
    /\ pc[r] = "finish"
    /\ Answer(r, StatusOf[outcome[r]])
    /\ refusals' = IF outcome[r] # "CREDITED" THEN refusals + 1 ELSE refusals
    /\ UNCHANGED <<code, wallet, database>>

FinishRedemption(r) ==
    /\ pc[r] = "finish"
    /\ Answer(r, StatusOf[outcome[r]])
    /\ refusals' = IF outcome[r] = "REFUSED" THEN refusals + 1 ELSE refusals
    /\ UNCHANGED <<code, wallet, database>>

------------------------------------------------------------------------------
(* redeem_credit_code, statement by statement. *)

Decide(r, o, place) ==
    /\ outcome' = [outcome EXCEPT ![r] = o]
    /\ Goto(r, place)

\* Broken variant: the credit is committed on its own, before the record.
CreditWalletAutocommit(r) ==
    /\ pc[r] = "begun" /\ code[r] # NoCode
    /\ walletLock[wallet[r]] = NoRequest
    /\ credited' = [credited EXCEPT ![wallet[r]] = @ \cup {r}]
    /\ Goto(r, "insert")
    /\ UNCHANGED <<code, wallet, outcome, reply, refusals, redeemed, walletLock, entry, adrift>>

CreditWallet(r) ==
    /\ pc[r] = "begun" /\ code[r] # NoCode
    /\ walletLock[wallet[r]] = NoRequest
    /\ walletLock' = [walletLock EXCEPT ![wallet[r]] = r]
    /\ Goto(r, "insert")
    /\ UNCHANGED <<code, wallet, outcome, reply, refusals, credited, redeemed, entry, adrift>>

\* The UPDATE returned no row: _UnknownTargetError unwinds the transaction.
CreditNothing(r) ==
    /\ pc[r] = "begun" /\ code[r] = NoCode
    /\ Decide(r, "UNKNOWN_TARGET", "rollback")
    /\ UNCHANGED <<code, wallet, reply, refusals, database>>

AlreadyRedeemed(c) == \E q \in redeemed : code[q] = c

\* Broken variant: redemptions_single_use is missing.
InsertRedemptionTwice(r) ==
    /\ pc[r] = "insert"
    /\ entry[code[r]] = NoRequest
    /\ entry' = [entry EXCEPT ![code[r]] = r]
    /\ Decide(r, "CREDITED", "commit")
    /\ UNCHANGED <<code, wallet, reply, refusals, credited, redeemed, walletLock, adrift>>

\* Another transaction's uncommitted row for the same code makes this one wait.
InsertRedemption(r) ==
    /\ pc[r] = "insert"
    /\ entry[code[r]] = NoRequest
    /\ ~AlreadyRedeemed(code[r])
    /\ entry' = [entry EXCEPT ![code[r]] = r]
    /\ Decide(r, "CREDITED", "commit")
    /\ UNCHANGED <<code, wallet, reply, refusals, credited, redeemed, walletLock, adrift>>

\* Broken variant: an uncommitted record of somebody else is enough to refuse.
UniqueViolationNoWait(r) ==
    /\ pc[r] = "insert"
    /\ AlreadyRedeemed(code[r]) \/ entry[code[r]] # NoRequest
    /\ Decide(r, "REFUSED", "rollback")
    /\ UNCHANGED <<code, wallet, reply, refusals, database>>

\* UniqueViolation: the transaction block rolls the credit back.
UniqueViolation(r) ==
    /\ pc[r] = "insert"
    /\ AlreadyRedeemed(code[r])
    /\ Decide(r, "REFUSED", "rollback")
    /\ UNCHANGED <<code, wallet, reply, refusals, database>>

------------------------------------------------------------------------------
(* The end of a transaction, seen by the server. *)

Release(lock, r) == [x \in DOMAIN lock |-> IF lock[x] = r THEN NoRequest ELSE lock[x]]

EndTransaction(r) ==
    /\ walletLock' = Release(walletLock, r)
    /\ entry' = Release(entry, r)
    /\ adrift' = [adrift EXCEPT ![r] = "no"]

\* What r's transaction wrote becomes what everybody reads.
ApplyCommit(r) ==
    /\ credited' = [w \in Wallets |-> IF walletLock[w] = r THEN credited[w] \cup {r}
                                                           ELSE credited[w]]
    /\ redeemed' = IF \E c \in Codes : entry[c] = r THEN redeemed \cup {r} ELSE redeemed
    /\ EndTransaction(r)

Commit(r) ==
    /\ pc[r] = "commit"
    /\ ApplyCommit(r)
    /\ Goto(r, "ended")
    /\ UNCHANGED <<code, wallet, outcome, reply, refusals>>

\* Broken variant: the exception is swallowed before it reaches the transaction.
RollbackForgotten(r) ==
    /\ pc[r] = "rollback"
    /\ Goto(r, "ended")
    /\ UNCHANGED <<code, wallet, outcome, reply, refusals, database>>

Rollback(r) ==
    /\ pc[r] = "rollback"
    /\ EndTransaction(r)
    /\ Goto(r, "ended")
    /\ UNCHANGED <<code, wallet, outcome, reply, refusals, credited, redeemed>>

\* Broken variant: the outcome is trusted although COMMIT was never confirmed.
ConnectionLostUnnoticed(r) ==
    /\ pc[r] = "commit"
    /\ Answer(r, StatusOf[outcome[r]])
    /\ adrift' = [adrift EXCEPT ![r] = "in_doubt"]
    /\ UNCHANGED <<code, wallet, refusals, credited, redeemed, walletLock, entry>>

\* The client raises OperationalError: 503.  The server still has to notice.
ConnectionLost(r) ==
    /\ pc[r] \in {"begun", "insert", "commit"}
    /\ Answer(r, 503)
    /\ adrift' = [adrift EXCEPT ![r] = IF pc[r] = "commit" THEN "in_doubt" ELSE "open"]
    /\ UNCHANGED <<code, wallet, refusals, credited, redeemed, walletLock, entry>>

\* A ROLLBACK that fails is ignored: the exception that caused it decides.
RollbackLost(r) ==
    /\ pc[r] = "rollback"
    /\ Goto(r, "finish")
    /\ adrift' = [adrift EXCEPT ![r] = "open"]
    /\ UNCHANGED <<code, wallet, outcome, reply, refusals, credited, redeemed, walletLock, entry>>

ServerRollback(r) ==
    /\ adrift[r] # "no"
    /\ EndTransaction(r)
    /\ UNCHANGED <<handler, refusals, credited, redeemed>>

ServerCommit(r) ==
    /\ adrift[r] = "in_doubt"
    /\ ApplyCommit(r)
    /\ UNCHANGED <<handler, refusals>>

------------------------------------------------------------------------------
Statement(r) ==
    CreditWallet(r) \/ CreditNothing(r) \/ InsertRedemption(r) \/ UniqueViolation(r)

Progress(r) ==
    \/ AcquireConnection(r) \/ Statement(r) \/ Commit(r) \/ Rollback(r)
    \/ ReleaseConnection(r) \/ FinishRedemption(r)

Next ==
    \E r \in Requests :
        \/ RejectEarly(r) \/ Accept(r) \/ Progress(r) \/ PoolTimeout(r)
        \/ ConnectionLost(r) \/ RollbackLost(r) \/ ServerRollback(r) \/ ServerCommit(r)

Spec == Init /\ [][Next]_vars

\* Handlers and backends are scheduled again until they are done; nothing
\* obliges a client to send, a pool to time out or a connection to break.
Fairness ==
    \A r \in Requests : WF_vars(Progress(r)) /\ WF_vars(ServerRollback(r) \/ ServerCommit(r))

FairSpec == Spec /\ Fairness

------------------------------------------------------------------------------
(* What makes the redemption correct. *)

\* Every committed credit has its redemption record and every record its
\* credit, in the wallet it names: "a credit without its redemption record
\* cannot survive" (guards.py), and nobody's credit is lost.
WalletsMatchRedemptions ==
    \A w \in Wallets : credited[w] = {r \in redeemed : wallet[r] = w}

\* No code is ever credited twice, not even to two different wallets.
CreditedOnce ==
    \A v, w \in Wallets : \A q \in credited[v], r \in credited[w] :
        code[q] = code[r] => q = r

\* A refusal rests on a redemption that is committed, not on one that may
\* still be rolled back: a code is never refused to everybody.
RefusedOnlyWhenRedeemed ==
    \A r \in Requests :
        outcome[r] = "REFUSED" \/ reply[r] = 409 =>
            r \notin redeemed /\ AlreadyRedeemed(code[r])

\* 201 is a committed redemption; 4xx is none, now or later.
AnswersMatchRedemptions ==
    \A r \in Requests :
        /\ reply[r] = 201 => r \in redeemed
        /\ reply[r] \in {401, 404, 409} =>
               r \notin redeemed /\ \A c \in Codes : entry[c] # r
        /\ r \in redeemed /\ pc[r] = "done" => reply[r] \in {201, 503}

\* When the burst is over and nothing failed, every code somebody asked for has
\* been redeemed and every other request left exactly one refusal event.
Quiet == \A r \in Requests : pc[r] \in {"idle", "done"} /\ adrift[r] = "no"
NothingFailed == \A r \in Requests : reply[r] # 503
OneWinnerPerCode ==
    Quiet /\ NothingFailed =>
        LET asked == {r \in Requests : reply[r] \in {201, 409}}
        IN  /\ \A r \in asked : AlreadyRedeemed(code[r])
            /\ refusals = Cardinality(asked) - Cardinality({code[r] : r \in asked})

\* Nobody waits for ever: not for a wallet, not for an index entry, and not
\* behind a transaction whose connection was lost.
EveryRedemptionAnswered == \A r \in Requests : pc[r] = "pool" ~> pc[r] = "done"

\* Each code is a drop of one unit: the handlers implement DropLedger for it.
AnswerOf(status) == IF status = 0 THEN "none"
                    ELSE IF status = 201 THEN "confirmed"
                    ELSE IF status = 409 THEN "refused"
                    ELSE IF status = 503 THEN "unavailable"
                    ELSE "rejected"
Redeemers(c) == {r \in redeemed : code[r] = c}
Ledger(c) == INSTANCE DropLedger
               WITH UnitsAvailable <- 1,
                    remaining <- IF Redeemers(c) = {} THEN 1 ELSE 0,
                    sold <- Redeemers(c),
                    answer <- [r \in Requests |->
                                 IF code[r] = c THEN AnswerOf(reply[r]) ELSE "none"]
EachCodeIsALedger ==
    /\ \A c \in Codes : Ledger(c)!Init
    /\ [][\A c \in Codes : [Ledger(c)!Next]_(Ledger(c)!ledger)]_vars

\* schema.py: the uniqueness constraint is a backstop, and "a correct
\* application never reaches" it.
UniquenessNeverReached ==
    [][\A r \in Requests : ~UniqueViolation(r)]_vars

=============================================================================
