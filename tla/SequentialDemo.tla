---------------------------- MODULE SequentialDemo ----------------------------
(***************************************************************************)
(* The sequential demonstration, demo/sequential.py, and the audit gate of *)
(* scripts/verify.sh behind it: one request at a time through the secure   *)
(* application, on the store that earlier programs have left.              *)
(*                                                                         *)
(* A handler's transaction is one step, as SecureCounter and SingleUse     *)
(* show; its audit line and its answer are steps of their own.  A client   *)
(* that gives up ends its run, and the request it waited for goes on in    *)
(* the application.                                                        *)
(***************************************************************************)
EXTENDS Integers, FiniteSets, Sequences

CONSTANTS
    UnitsAvailable,  \* fixtures.DROP_UNITS_AVAILABLE
    BadCredentials,  \* how many credential failure modes are probed
    NoRequest,       \* the client waits for nothing
    MaxRuns,         \* bound: demonstrations
    MaxFaults        \* bound: requests answered 503

ASSUME DemoAssumption ==
    /\ UnitsAvailable \in Nat \ {0} /\ BadCredentials \in Nat \ {0}
    /\ MaxRuns \in Nat /\ MaxFaults \in Nat
    /\ NoRequest \notin Nat \X Nat

VARIABLES
    runs,       \* demonstrations started
    phase,      \* the last of them: running, over, or dead of an exception
    at,         \* the statement of its script it is at
    waiting,    \* the request it waits for
    answers,    \* what this scenario's requests were answered
    view,       \* the store's own view, as read at the end of the scenario
    failed,     \* its failed checks
    refusals,   \* Report.refusals, printed in the summary
    refusal_responses,  \* the last response remembered under each label
    disturbed,  \* a request of it failed, or it did not have the store alone
    faults,     \* requests answered 503 so far
    inFlight,   \* requests the applications are at
    store,      \* units_sold, and who the rows of orders and redemptions are of
    backstop,   \* the backstop constraints in place
    events,     \* refusal events in the logs: of the last run, of anybody else
    gate        \* the verdict of the audit gate on the last run

report == <<failed, refusals, refusal_responses>>
client == <<runs, phase, at, waiting, answers, view, report>>
application == <<faults, inFlight, store, events>>
vars == <<client, disturbed, application, backstop, gate>>

Constraints == {"drops_units_sold_within_availability", "redemptions_single_use"}
Empty == [sold |-> 0, orders |-> {}, redemptions |-> {}]
Unread == [sold |-> -1, orders |-> {}, redemptions |-> {}]

------------------------------------------------------------------------------
(* The script. *)

Does(scenario, what) == [scenario |-> scenario, does |-> what]
Times(n, statement) == [i \in 1 .. n |-> statement]

CounterScenario(guard) ==
    <<Does(guard, "seed")>>
    \o Times(UnitsAvailable + 1, Does(guard, "order"))
    \o <<Does(guard, "read_drop"), Does(guard, "judge")>>

RedemptionScenario ==
    <<Does("single-use", "seed")>>
    \o Times(2, Does("single-use", "redeem"))
    \o <<Does("single-use", "read_wallet"), Does("single-use", "judge")>>

CredentialScenario ==
    <<Does("credentials", "seed")>>
    \o Times(BadCredentials, Does("credentials", "probe"))
    \o <<Does("credentials", "read_drop"), Does("credentials", "judge")>>

Script ==
    CounterScenario("conditional_write") \o CounterScenario("pessimistic_lock")
    \o RedemptionScenario \o CredentialScenario
    \o <<Does("no oracle", "judge")>>

Now == Script[at]
Writing == {"order", "redeem"}

Statuses == {201, 401, 409, 503}
Ids == Nat \X Nat
RequestType == [id : Ids, does : Writing \cup {"probe"},
                stage : {"received", "refusing", "answered"},
                status : {0} \cup Statuses, balance : Nat]
AnswerType == [id : Ids, status : Statuses, balance : Nat]
StoreType == [sold : Int, orders : SUBSET Ids, redemptions : SUBSET Ids]

TypeOK ==
    /\ runs \in 0 .. MaxRuns /\ faults \in 0 .. MaxFaults
    /\ phase \in {"idle", "running", "over", "dead"}
    /\ at \in DOMAIN Script
    /\ waiting \in Ids \cup {NoRequest}
    /\ answers \in Seq(AnswerType)
    /\ failed \subseteq {Script[i].scenario : i \in DOMAIN Script} \X
           {"confirmed", "refused", "store", "identical"}
    /\ refusals \in 0 .. 3
    /\ refusal_responses \in [{"sold out", "already redeemed"} -> {0} \cup Statuses]
    /\ disturbed \in BOOLEAN
    /\ inFlight \subseteq RequestType
    /\ store \in StoreType /\ view \in StoreType
    /\ backstop \subseteq Constraints
    /\ events \in [own : Nat, others : Nat]
    /\ gate \in {"none", "passed", "failed"}

Init ==
    /\ runs = 0 /\ phase = "idle" /\ at = 1 /\ waiting = NoRequest
    /\ answers = <<>> /\ view = Empty
    /\ failed = {} /\ refusals = 0
    /\ refusal_responses = [label \in {"sold out", "already redeemed"} |-> 0]
    /\ disturbed = FALSE /\ faults = 0 /\ inFlight = {}
    /\ store = Empty /\ backstop = Constraints
    /\ events = [own |-> 0, others |-> 0] /\ gate = "none"

------------------------------------------------------------------------------
(* The client. *)

\* Broken variant: the report of the last run is continued.
SameReport == UNCHANGED report

NewReport ==
    /\ failed' = {} /\ refusals' = 0
    /\ refusal_responses' = [label \in {"sold out", "already redeemed"} |-> 0]

StartRun ==
    /\ phase # "running" /\ runs < MaxRuns
    /\ runs' = runs + 1 /\ phase' = "running" /\ at' = 1
    /\ answers' = <<>> /\ view' = Empty
    /\ NewReport
    /\ disturbed' = (inFlight # {})
    /\ events' = [own |-> 0, others |-> events.own + events.others]
    /\ gate' = "none"
    /\ UNCHANGED <<waiting, faults, inFlight, store, backstop>>

Runs(statements) ==
    phase = "running" /\ waiting = NoRequest /\ Now.does \in statements

GoOn == at' = at + 1

\* seed(create=False): the fixtures, and nothing but the fixtures.
Seed ==
    /\ Runs({"seed"})
    /\ GoOn
    /\ store' = Empty
    /\ answers' = <<>>
    /\ UNCHANGED <<runs, phase, waiting, view, report, disturbed, faults, inFlight, backstop,
                   events, gate>>

Send ==
    /\ Runs(Writing \cup {"probe"})
    /\ waiting' = <<runs, at>>
    /\ inFlight' = inFlight \cup {[id |-> <<runs, at>>, does |-> Now.does, stage |-> "received",
                                   status |-> 0, balance |-> 0]}
    /\ UNCHANGED <<runs, phase, at, answers, view, report, disturbed, faults, store, backstop,
                   events, gate>>

Receive ==
    \E r \in inFlight :
        /\ r.id = waiting /\ r.stage = "answered"
        /\ inFlight' = inFlight \ {r}
        /\ answers' = Append(answers, [id |-> r.id, status |-> r.status, balance |-> r.balance])
        /\ waiting' = NoRequest
        /\ GoOn
        /\ UNCHANGED <<runs, phase, view, report, disturbed, faults, store, backstop, events, gate>>

\* The store's own view; body_of copes with an answer that is not one.
ReadBack ==
    /\ Runs({"read_drop", "read_wallet"})
    /\ GoOn
    /\ \/ view' = store /\ UNCHANGED <<disturbed, faults>>
       \/ /\ faults < MaxFaults /\ faults' = faults + 1
          /\ view' = Unread /\ disturbed' = TRUE
    /\ UNCHANGED <<runs, phase, waiting, answers, report, inFlight, store, backstop, events, gate>>

\* Nobody handles an exception: httpx gives up, or the run is interrupted.  What
\* it was waiting for goes on, unless its answer is already on the way.
Dead ==
    /\ phase' = "dead" /\ waiting' = NoRequest
    /\ inFlight' = {r \in inFlight : r.stage # "answered"}
    /\ UNCHANGED <<runs, at, answers, view, report, disturbed, faults, store, backstop, events, gate>>

\* Broken variant: a client without a timeout.
WaitForever == FALSE /\ Dead

TimeOut == phase = "running" /\ waiting # NoRequest /\ Dead

Die == phase = "running" /\ waiting = NoRequest /\ Dead

------------------------------------------------------------------------------
(* The application. *)

\* The answer reaches whoever still waits for it.
Answer(r, status, balance) ==
    inFlight' = IF r.id = waiting
                THEN (inFlight \ {r})
                     \cup {[r EXCEPT !.stage = "answered", !.status = status, !.balance = balance]}
                ELSE inFlight \ {r}

Refuse(r) == inFlight' = (inFlight \ {r}) \cup {[r EXCEPT !.stage = "refusing"]}

\* Broken variant: a spent code is credited again.
MayRedeemAgain == TRUE

\* Uniqueness decides, so without its constraint every redemption is credited.
MayRedeem == store.redemptions = {} \/ "redemptions_single_use" \notin backstop

MayWrite(r) == IF r.does = "order" THEN store.sold < UnitsAvailable ELSE MayRedeem

Written(r) ==
    IF r.does = "order"
    THEN [store EXCEPT !.sold = @ + 1, !.orders = @ \cup {r.id}]
    ELSE [store EXCEPT !.redemptions = @ \cup {r.id}]

Handle(r) ==
    /\ r.stage = "received"
    /\ IF r.does = "probe" THEN Answer(r, 401, 0) /\ UNCHANGED store
       ELSE IF MayWrite(r)
       THEN /\ store' = Written(r)
            /\ Answer(r, 201, Cardinality(store'.redemptions))
       ELSE Refuse(r) /\ UNCHANGED store
    /\ UNCHANGED <<client, disturbed, faults, backstop, events, gate>>

\* Broken variant: the event is written at the decision and at the answer.
EmitTwice(r) ==
    /\ r.stage = "refusing"
    /\ events' = IF r.id[1] = runs THEN [events EXCEPT !.own = @ + 2]
                 ELSE [events EXCEPT !.others = @ + 2]
    /\ Answer(r, 409, 0)
    /\ UNCHANGED <<client, disturbed, faults, store, backstop, gate>>

\* emit_refusal, then the generic 409.
EmitRefusal(r) ==
    /\ r.stage = "refusing"
    /\ events' = IF r.id[1] = runs THEN [events EXCEPT !.own = @ + 1]
                 ELSE [events EXCEPT !.others = @ + 1]
    /\ Answer(r, 409, 0)
    /\ UNCHANGED <<client, disturbed, faults, store, backstop, gate>>

\* The database fails the request; what it wrote may be committed all the same.
Fail(r) ==
    /\ r.stage = "received" /\ r.does \in Writing /\ faults < MaxFaults
    /\ faults' = faults + 1 /\ disturbed' = (disturbed \/ r.id = waiting)
    /\ UNCHANGED store \/ (MayWrite(r) /\ store' = Written(r))
    /\ Answer(r, 503, 0)
    /\ UNCHANGED <<client, backstop, events, gate>>

------------------------------------------------------------------------------
(* The verdict. *)

Failing(checks) == {<<Now.scenario, c>> : c \in {d \in DOMAIN checks : checks[d]}}

Answered(i, status) == answers[i].status = status

CounterChecks ==
    [confirmed |-> \E i \in 1 .. UnitsAvailable : ~Answered(i, 201),
     refused   |-> ~Answered(UnitsAvailable + 1, 409),
     store     |-> view.sold # UnitsAvailable \/ Cardinality(view.orders) # UnitsAvailable]

\* Broken variant: only the wallet is looked at.
RedemptionChecksWalletOnly == [store |-> Cardinality(view.redemptions) # 1]

RedemptionChecks ==
    [confirmed |-> ~(Answered(1, 201) /\ answers[1].balance = 1),
     refused   |-> ~Answered(2, 409),
     store     |-> Cardinality(view.redemptions) # 1]

CredentialChecks ==
    [refused   |-> \E i \in 1 .. BadCredentials : ~Answered(i, 401),
     identical |-> \E i, j \in 1 .. BadCredentials : answers[i].status # answers[j].status,
     store     |-> view.sold # 0 \/ view.orders # {}]

\* _check_no_oracle: one response is remembered under each label.
OracleChecks ==
    [identical |-> refusal_responses["sold out"] # refusal_responses["already redeemed"]]

\* remember_refusal counts the request that should have been refused.
RememberRefusal(label, i) ==
    /\ refusals' = refusals + 1
    /\ refusal_responses' = [refusal_responses EXCEPT ![label] = answers[i].status]

Judge ==
    /\ Runs({"judge"})
    /\ \/ /\ Now.scenario \in {"conditional_write", "pessimistic_lock"}
          /\ failed' = failed \cup Failing(CounterChecks)
          /\ RememberRefusal("sold out", UnitsAvailable + 1)
       \/ /\ Now.scenario = "single-use"
          /\ failed' = failed \cup Failing(RedemptionChecks)
          /\ RememberRefusal("already redeemed", 2)
       \/ /\ Now.scenario = "credentials"
          /\ failed' = failed \cup Failing(CredentialChecks)
          /\ UNCHANGED <<refusals, refusal_responses>>
       \/ /\ Now.scenario = "no oracle"
          /\ failed' = failed \cup Failing(OracleChecks)
          /\ UNCHANGED <<refusals, refusal_responses>>
    /\ IF at = Len(Script) THEN phase' = "over" /\ UNCHANGED at
       ELSE GoOn /\ UNCHANGED phase
    /\ UNCHANGED <<runs, waiting, answers, view, disturbed, application, backstop, gate>>

\* Exit status 0.
Passed == phase = "over" /\ failed = {}

\* auditcheck --expected <refusals of the summary>, on the logs of the secure
\* replicas; verify.sh gets this far only if the demonstration passed.
AuditGate ==
    /\ Passed /\ gate = "none"
    /\ gate' = IF events.own + events.others = refusals THEN "passed" ELSE "failed"
    /\ UNCHANGED <<client, disturbed, application, backstop>>

------------------------------------------------------------------------------
(* What else is run on the same store; HarnessRun has the details. *)

Elsewhere(i) == <<0, i>>

\* The vulnerable application, whose logs are not the gate's, oversells on a
\* store without its constraints and leaves it like that.
VulnerableRun ==
    /\ phase # "running"
    /\ backstop' = {}
    /\ store' = [sold |-> UnitsAvailable + 1, orders |-> {Elsewhere(i) : i \in 0 .. UnitsAvailable},
                 redemptions |-> {Elsewhere(1), Elsewhere(2)}]
    /\ UNCHANGED <<client, disturbed, faults, inFlight, events, gate>>

\* The harness on the secure application: some refusals, one stands for them.
SecureRun ==
    /\ phase # "running" /\ events.others = 0
    /\ backstop' = Constraints
    /\ store' = [sold |-> UnitsAvailable, orders |-> {Elsewhere(i) : i \in 1 .. UnitsAvailable},
                 redemptions |-> {Elsewhere(1)}]
    /\ events' = [events EXCEPT !.others = @ + 1]
    /\ UNCHANGED <<client, disturbed, faults, inFlight, gate>>

\* seed --secure
RestoreBaseline ==
    /\ phase # "running"
    /\ backstop' = Constraints /\ store' = Empty
    /\ UNCHANGED <<client, disturbed, faults, inFlight, events, gate>>

------------------------------------------------------------------------------
Client == Seed \/ Send \/ Receive \/ ReadBack \/ Judge
Application == \E r \in inFlight : Handle(r) \/ EmitRefusal(r) \/ Fail(r)
Others == VulnerableRun \/ SecureRun \/ RestoreBaseline

Next == StartRun \/ Client \/ TimeOut \/ Die \/ Application \/ AuditGate \/ Others

Spec == Init /\ [][Next]_vars

\* The client runs and its timer expires.  Nothing is asked of the application:
\* it may sit on a request for good.
Fairness == WF_vars(Client) /\ WF_vars(TimeOut)

FairSpec == Spec /\ Fairness

------------------------------------------------------------------------------
(* What a demonstration is good for. *)

Ends == phase = "running" /\ phase' = "over"

\* A demonstration that has the store to itself and meets no failure is decided by
\* the backstop alone: it passes with the unique constraint that the redemption
\* guard rests on, and fails, whatever came before, where a vulnerable run has left
\* the store without it.  There is no other false alarm and no false pass.
VerdictTellsTheBackstop ==
    [][Ends /\ ~disturbed => (failed' = {} <=> "redemptions_single_use" \in backstop)]_vars

\* No request of somebody else stands in for one of this run: when every check of
\* a scenario passes, the rows counted are those of exactly the requests this run
\* was told were confirmed, although it only compares numbers, and although
\* requests of a run that gave up may write in between.
ConfirmedAreItsOwn ==
    Runs({"judge"}) =>
        LET confirmed == {answers[i].id : i \in {j \in DOMAIN answers : Answered(j, 201)}}
        IN  /\ Now.scenario \in {"conditional_write", "pessimistic_lock"} =>
                   (Failing(CounterChecks) = {} => view.orders = confirmed)
            /\ Now.scenario = "single-use" =>
                   (Failing(RedemptionChecks) = {} => view.redemptions = confirmed)

\* auditcheck.py: "exactly one event per refusal - no more, no fewer".  The gate on
\* a passed demonstration fails if and only if the logs hold an event of somebody
\* else: another run, or a request this client's predecessor gave up on.
AuditGateIsExact ==
    [][AuditGate => (gate' = "passed" <=> events.others = 0)]_vars

\* The client's timeout ends every run, also when the application never answers.
DemoEnds == phase = "running" ~> phase # "running"

\* WALKTHROUGH.md: a vulnerable run drops both constraints by name "and never
\* touches the secure schema": a demonstration of the secure application passes
\* before such a run and after it.
SecureSchemaIsUntouched == [][Ends /\ ~disturbed => failed' = {}]_vars

=============================================================================
