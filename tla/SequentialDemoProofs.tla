------------------------- MODULE SequentialDemoProofs -------------------------
(***************************************************************************)
(* The sequential demonstration, for every number of units, of credential  *)
(* failure modes, of runs and of failures: its types, that the rows it     *)
(* counts are those of its own requests, that its audit gate is exact, and *)
(* that its verdict is the one of the unique constraint behind the         *)
(* redemption guard.                                                       *)
(*                                                                         *)
(* The script is a concatenation, so the first part says what its i-th     *)
(* statement is; the invariants and the steps are stated in those terms.   *)
(***************************************************************************)
EXTENDS SequentialDemo, FiniteSetTheorems, SequenceTheorems, TLAPS

\* Where the script is: the length of a counter scenario and of all of it, and of
\* each statement the scenario it is of, the seed that scenario begins with, how many
\* requests it sends and how many of the earlier ones should have been refused.
Counter == UnitsAvailable + 4
Last == 2 * Counter + BadCredentials + 9

Base(i) == IF i <= Counter THEN 1 ELSE IF i <= 2 * Counter THEN Counter + 1
           ELSE IF i <= 2 * Counter + 5 THEN 2 * Counter + 1
           ELSE IF i < Last THEN 2 * Counter + 6 ELSE Last
Name(i) == IF i <= Counter THEN "conditional_write"
           ELSE IF i <= 2 * Counter THEN "pessimistic_lock"
           ELSE IF i <= 2 * Counter + 5 THEN "single-use"
           ELSE IF i < Last THEN "credentials" ELSE "no oracle"
Sends(i) == IF i <= 2 * Counter THEN UnitsAvailable + 1
            ELSE IF i <= 2 * Counter + 5 THEN 2
            ELSE IF i < Last THEN BadCredentials ELSE 0
Judged(i) == IF i <= Counter THEN 0 ELSE IF i <= 2 * Counter THEN 1
             ELSE IF i <= 2 * Counter + 5 THEN 2 ELSE 3
Request(i) == IF i <= 2 * Counter THEN "order"
              ELSE IF i <= 2 * Counter + 5 THEN "redeem" ELSE "probe"
Read(i) == IF i > 2 * Counter /\ i <= 2 * Counter + 5 THEN "read_wallet" ELSE "read_drop"

Statement(i) ==
    Does(Name(i), IF i = Last THEN "judge" ELSE IF i = Base(i) THEN "seed"
                  ELSE IF i <= Base(i) + Sends(i) THEN Request(i)
                  ELSE IF i = Base(i) + Sends(i) + 1 THEN Read(i) ELSE "judge")

------------------------------------------------------------------------------
(* The script, statement by statement. *)

Scenarios == {"conditional_write", "pessimistic_lock", "single-use", "credentials", "no oracle"}
Verbs == {"seed", "order", "redeem", "probe", "read_drop", "read_wallet", "judge"}
Statements == [scenario : Scenarios, does : Verbs]

LEMMA TimesFacts ==
    ASSUME NEW n \in Nat, NEW s \in Statements
    PROVE  /\ Times(n, s) \in Seq(Statements) /\ Len(Times(n, s)) = n
           /\ \A i \in 1 .. n : Times(n, s)[i] = s
BY DEF Times

\* A scenario: the seed, n requests, the view, the judge.
Sequence(g, n, q, v) ==
    <<Does(g, "seed")>> \o Times(n, Does(g, q)) \o <<Does(g, v), Does(g, "judge")>>

Verb(n, q, v, i) ==
    IF i = 1 THEN "seed" ELSE IF i <= n + 1 THEN q ELSE IF i = n + 2 THEN v ELSE "judge"

LEMMA ScenarioFacts ==
    ASSUME NEW g \in Scenarios, NEW n \in Nat, NEW q \in Verbs, NEW v \in Verbs
    PROVE  /\ Sequence(g, n, q, v) \in Seq(Statements)
           /\ Len(Sequence(g, n, q, v)) = n + 3
           /\ \A i \in 1 .. (n + 3) :
                  Sequence(g, n, q, v)[i] = Does(g, Verb(n, q, v, i))
<1> DEFINE a == Does(g, "seed")
           b == Does(g, q)
           c == Does(g, v)
           d == Does(g, "judge")
<1>0. a \in Statements /\ b \in Statements /\ c \in Statements /\ d \in Statements
  BY DEF Does, Statements, Verbs
<1> HIDE DEF a, b, c, d
<1> DEFINE head == <<a>> \o Times(n, b)
           tail == <<c, d>>
           s == Sequence(g, n, q, v)
<1>1. <<a>> \in Seq(Statements) /\ Len(<<a>>) = 1 /\ <<a>>[1] = a
  BY <1>0
<1>2. tail \in Seq(Statements) /\ Len(tail) = 2 /\ tail[1] = c /\ tail[2] = d
  BY <1>0
<1>3. /\ Times(n, b) \in Seq(Statements) /\ Len(Times(n, b)) = n
      /\ \A i \in 1 .. n : Times(n, b)[i] = b
  BY <1>0, TimesFacts
<1>4. /\ head \in Seq(Statements) /\ Len(head) = 1 + n
      /\ \A i \in 1 .. (1 + n) : head[i] = IF i <= 1 THEN <<a>>[i] ELSE Times(n, b)[i - 1]
  <2> DEFINE one == <<a>>
             many == Times(n, b)
  <2> HIDE DEF one, many
  <2>1. /\ one \o many \in Seq(Statements) /\ Len(one \o many) = Len(one) + Len(many)
        /\ \A i \in 1 .. Len(one) + Len(many) :
               (one \o many)[i] = IF i <= Len(one) THEN one[i] ELSE many[i - Len(one)]
    BY <1>1, <1>3, ConcatProperties DEF one, many
  <2>2. Len(one) = 1 /\ Len(many) = n
    BY <1>1, <1>3 DEF one, many
  <2>3. /\ one \o many \in Seq(Statements) /\ Len(one \o many) = 1 + n
        /\ \A i \in 1 .. (1 + n) : (one \o many)[i] = IF i <= 1 THEN one[i] ELSE many[i - 1]
    BY <2>1, <2>2
  <2> QED BY <2>3 DEF one, many
<1>5. \A i \in 1 .. (1 + n) : head[i] = IF i = 1 THEN a ELSE b
  <2> SUFFICES ASSUME NEW i \in 1 .. (1 + n) PROVE head[i] = IF i = 1 THEN a ELSE b
    OBVIOUS
  <2> HIDE DEF head
  <2>1. CASE i = 1 BY <2>1, <1>4, <1>1
  <2>2. CASE i # 1
    <3>1. i - 1 \in 1 .. n /\ ~(i <= 1) BY <2>2
    <3> QED BY <2>2, <3>1, <1>4, <1>3
  <2> QED BY <2>1, <2>2
<1>6. s = head \o tail
  BY DEF Sequence, a, b, c, d
<1> HIDE DEF head, tail, s
<1>7. /\ s \in Seq(Statements) /\ Len(s) = (1 + n) + 2
      /\ \A i \in 1 .. ((1 + n) + 2) : s[i] = IF i <= 1 + n THEN head[i] ELSE tail[i - (1 + n)]
  <2>1. /\ head \o tail \in Seq(Statements) /\ Len(head \o tail) = Len(head) + Len(tail)
        /\ \A i \in 1 .. Len(head) + Len(tail) :
               (head \o tail)[i] = IF i <= Len(head) THEN head[i] ELSE tail[i - Len(head)]
    BY <1>2, <1>4, ConcatProperties
  <2>2. Len(head) = 1 + n /\ Len(tail) = 2
    BY <1>2, <1>4
  <2> QED BY <2>1, <2>2, <1>6
<1>8. ASSUME NEW i \in 1 .. (n + 3)
      PROVE  s[i] = IF i = 1 THEN a ELSE IF i <= n + 1 THEN b
                    ELSE IF i = n + 2 THEN c ELSE d
  <2>1. CASE i <= n + 1 BY <2>1, <1>7, <1>5
  <2>2. CASE i = n + 2
    <3>1. i \in 1 .. ((1 + n) + 2) /\ ~(i <= 1 + n) /\ i - (1 + n) = 1 BY <2>2
    <3> QED BY <2>2, <3>1, <1>7, <1>2
  <2>3. CASE i = n + 3
    <3>1. i \in 1 .. ((1 + n) + 2) /\ ~(i <= 1 + n) /\ i - (1 + n) = 2 BY <2>3
    <3> QED BY <2>3, <3>1, <1>7, <1>2
  <2> QED BY <2>1, <2>2, <2>3
<1>9. s \in Seq(Statements) /\ Len(s) = n + 3
  BY <1>7
<1>10. ASSUME NEW i \in 1 .. (n + 3) PROVE s[i] = Does(g, Verb(n, q, v, i))
  BY <1>8 DEF Verb, a, b, c, d
<1> QED BY <1>9, <1>10 DEF s

LEMMA CounterFacts ==
    ASSUME NEW g \in {"conditional_write", "pessimistic_lock"}
    PROVE  /\ CounterScenario(g) \in Seq(Statements) /\ Len(CounterScenario(g)) = Counter
           /\ \A i \in 1 .. Counter :
                  CounterScenario(g)[i] = Does(g, Verb(UnitsAvailable + 1, "order", "read_drop", i))
<1>1. UnitsAvailable + 1 \in Nat /\ (UnitsAvailable + 1) + 3 = Counter
  BY DemoAssumption DEF Counter
<1>2. CounterScenario(g) = Sequence(g, UnitsAvailable + 1, "order", "read_drop")
  BY DEF CounterScenario, Sequence
<1>3. g \in Scenarios /\ "order" \in Verbs /\ "read_drop" \in Verbs
  BY DEF Scenarios, Verbs
<1>4. /\ Sequence(g, UnitsAvailable + 1, "order", "read_drop") \in Seq(Statements)
      /\ Len(Sequence(g, UnitsAvailable + 1, "order", "read_drop")) = (UnitsAvailable + 1) + 3
      /\ \A i \in 1 .. ((UnitsAvailable + 1) + 3) :
             Sequence(g, UnitsAvailable + 1, "order", "read_drop")[i]
                 = Does(g, Verb(UnitsAvailable + 1, "order", "read_drop", i))
  BY ONLY <1>1, <1>3, ScenarioFacts
<1> QED BY ONLY <1>1, <1>2, <1>4

LEMMA RedemptionFacts ==
    /\ RedemptionScenario \in Seq(Statements) /\ Len(RedemptionScenario) = 5
    /\ \A i \in 1 .. 5 :
           RedemptionScenario[i] = Does("single-use", Verb(2, "redeem", "read_wallet", i))
<1>1. 2 \in Nat /\ 2 + 3 = 5
  OBVIOUS
<1>2. RedemptionScenario = Sequence("single-use", 2, "redeem", "read_wallet")
  BY DEF RedemptionScenario, Sequence
<1>3. "single-use" \in Scenarios /\ "redeem" \in Verbs /\ "read_wallet" \in Verbs
  BY DEF Scenarios, Verbs
<1>4. /\ Sequence("single-use", 2, "redeem", "read_wallet") \in Seq(Statements)
      /\ Len(Sequence("single-use", 2, "redeem", "read_wallet")) = 2 + 3
      /\ \A i \in 1 .. (2 + 3) : Sequence("single-use", 2, "redeem", "read_wallet")[i]
                                     = Does("single-use", Verb(2, "redeem", "read_wallet", i))
  BY ONLY <1>1, <1>3, ScenarioFacts
<1> QED BY ONLY <1>1, <1>2, <1>4

LEMMA CredentialFacts ==
    /\ CredentialScenario \in Seq(Statements) /\ Len(CredentialScenario) = BadCredentials + 3
    /\ \A i \in 1 .. (BadCredentials + 3) :
           CredentialScenario[i] = Does("credentials", Verb(BadCredentials, "probe", "read_drop", i))
<1>1. BadCredentials \in Nat
  BY DemoAssumption
<1>2. CredentialScenario = Sequence("credentials", BadCredentials, "probe", "read_drop")
  BY DEF CredentialScenario, Sequence
<1>3. "credentials" \in Scenarios /\ "probe" \in Verbs /\ "read_drop" \in Verbs
  BY DEF Scenarios, Verbs
<1> QED BY ONLY <1>1, <1>2, <1>3, ScenarioFacts

\* Every statement of the script, in terms of its scenario.
LEMMA ScriptFacts ==
    /\ Last \in Nat /\ DOMAIN Script = 1 .. Last /\ Len(Script) = Last
    /\ \A i \in 1 .. Last : Script[i] = Statement(i)
<1> DEFINE s1 == CounterScenario("conditional_write")
           s2 == CounterScenario("pessimistic_lock")
           s12 == s1 \o s2
           s13 == s12 \o RedemptionScenario
           s14 == s13 \o CredentialScenario
           s5 == <<Does("no oracle", "judge")>>
<1>0. UnitsAvailable \in Nat \ {0} /\ BadCredentials \in Nat \ {0} /\ Counter \in Nat
  BY DemoAssumption DEF Counter
<1>1. s1 \in Seq(Statements) /\ Len(s1) = Counter /\ s2 \in Seq(Statements) /\ Len(s2) = Counter
  BY CounterFacts
<1>2. s5 \in Seq(Statements) /\ Len(s5) = 1 /\ s5[1] = Does("no oracle", "judge")
  BY DEF Does, Statements, Scenarios, Verbs
<1>3. /\ s12 \in Seq(Statements) /\ Len(s12) = Counter + Counter
      /\ \A i \in 1 .. (Counter + Counter) : s12[i] = IF i <= Counter THEN s1[i] ELSE s2[i - Counter]
  <2> HIDE DEF s1, s2
  <2>1. /\ s1 \o s2 \in Seq(Statements) /\ Len(s1 \o s2) = Len(s1) + Len(s2)
        /\ \A i \in 1 .. Len(s1) + Len(s2) :
               (s1 \o s2)[i] = IF i <= Len(s1) THEN s1[i] ELSE s2[i - Len(s1)]
    BY <1>0, <1>1, ConcatProperties
  <2> QED BY <2>1, <1>0, <1>1
<1>4. /\ s13 \in Seq(Statements) /\ Len(s13) = (Counter + Counter) + 5
      /\ \A i \in 1 .. ((Counter + Counter) + 5) :
             s13[i] = IF i <= Counter + Counter THEN s12[i] ELSE RedemptionScenario[i - (Counter + Counter)]
  <2> HIDE DEF s12
  <2>1. /\ s12 \o RedemptionScenario \in Seq(Statements) /\ Len(s12 \o RedemptionScenario) = Len(s12) + Len(RedemptionScenario)
        /\ \A i \in 1 .. Len(s12) + Len(RedemptionScenario) :
               (s12 \o RedemptionScenario)[i] = IF i <= Len(s12) THEN s12[i] ELSE RedemptionScenario[i - Len(s12)]
    BY <1>0, <1>3, RedemptionFacts, ConcatProperties
  <2> QED BY <2>1, <1>0, <1>3, RedemptionFacts
<1>5. /\ s14 \in Seq(Statements) /\ Len(s14) = (Counter + Counter + 5) + (BadCredentials + 3)
      /\ \A i \in 1 .. ((Counter + Counter + 5) + (BadCredentials + 3)) :
             s14[i] = IF i <= Counter + Counter + 5 THEN s13[i]
                      ELSE CredentialScenario[i - (Counter + Counter + 5)]
  <2> HIDE DEF s13
  <2>1. /\ s13 \o CredentialScenario \in Seq(Statements) /\ Len(s13 \o CredentialScenario) = Len(s13) + Len(CredentialScenario)
        /\ \A i \in 1 .. Len(s13) + Len(CredentialScenario) :
               (s13 \o CredentialScenario)[i] = IF i <= Len(s13) THEN s13[i] ELSE CredentialScenario[i - Len(s13)]
    BY <1>0, <1>4, CredentialFacts, ConcatProperties
  <2> QED BY <2>1, <1>0, <1>4, CredentialFacts
<1>6. Script = s14 \o s5
  BY DEF Script
<1>7. /\ Script \in Seq(Statements)
      /\ Len(Script) = ((Counter + Counter + 5) + (BadCredentials + 3)) + 1
      /\ \A i \in 1 .. (((Counter + Counter + 5) + (BadCredentials + 3)) + 1) :
             Script[i] = IF i <= (Counter + Counter + 5) + (BadCredentials + 3) THEN s14[i]
                         ELSE s5[i - ((Counter + Counter + 5) + (BadCredentials + 3))]
  <2> HIDE DEF s14, s5
  <2>1. /\ s14 \o s5 \in Seq(Statements) /\ Len(s14 \o s5) = Len(s14) + Len(s5)
        /\ \A i \in 1 .. Len(s14) + Len(s5) :
               (s14 \o s5)[i] = IF i <= Len(s14) THEN s14[i] ELSE s5[i - Len(s14)]
    BY <1>0, <1>2, <1>5, ConcatProperties
  <2> QED BY <2>1, <1>0, <1>2, <1>5, <1>6
<1>8. Last = ((Counter + Counter + 5) + (BadCredentials + 3)) + 1 /\ Last \in Nat
  BY <1>0 DEF Last
<1> HIDE DEF s12, s13, s14, s5
<1>9. ASSUME NEW i \in 1 .. Last PROVE Script[i] = Statement(i)
  <2>1. CASE i <= Counter
    <3>1. Script[i] = CounterScenario("conditional_write")[i]
      BY <2>1, <1>0, <1>8, <1>7, <1>5, <1>4, <1>3
    <3>2. i \in 1 .. Counter BY <2>1, <1>0
    <3>3. Base(i) = 1 /\ Name(i) = "conditional_write" /\ Sends(i) = UnitsAvailable + 1
          /\ Request(i) = "order" /\ Read(i) = "read_drop" /\ i # Last
      BY <2>1, <1>0, <1>8 DEF Base, Name, Sends, Request, Read
    <3>4. Script[i] = Does("conditional_write", Verb(UnitsAvailable + 1, "order", "read_drop", i))
      BY <3>1, <3>2, CounterFacts
    <3> QED BY <3>4, <3>3, <1>0 DEF Statement, Verb
  <2>2. CASE Counter < i /\ i <= 2 * Counter
    <3>1. Script[i] = CounterScenario("pessimistic_lock")[i - Counter]
      BY <2>2, <1>0, <1>8, <1>7, <1>5, <1>4, <1>3
    <3>2. i - Counter \in 1 .. Counter BY <2>2, <1>0
    <3>3. Base(i) = Counter + 1 /\ Name(i) = "pessimistic_lock" /\ Sends(i) = UnitsAvailable + 1
          /\ Request(i) = "order" /\ Read(i) = "read_drop" /\ i # Last
      BY <2>2, <1>0, <1>8 DEF Base, Name, Sends, Request, Read
    <3>4. Script[i] = Does("pessimistic_lock",
                           Verb(UnitsAvailable + 1, "order", "read_drop", i - Counter))
      BY <3>1, <3>2, CounterFacts
    <3> QED BY <3>4, <3>3, <1>0 DEF Statement, Verb
  <2>3. CASE 2 * Counter < i /\ i <= 2 * Counter + 5
    <3>1. Script[i] = RedemptionScenario[i - (Counter + Counter)]
      BY <2>3, <1>0, <1>8, <1>7, <1>5, <1>4
    <3>2. i - (Counter + Counter) \in 1 .. 5 BY <2>3, <1>0
    <3>3. Base(i) = 2 * Counter + 1 /\ Name(i) = "single-use" /\ Sends(i) = 2
          /\ Request(i) = "redeem" /\ Read(i) = "read_wallet" /\ i # Last
      BY <2>3, <1>0, <1>8 DEF Base, Name, Sends, Request, Read
    <3>4. Script[i] = Does("single-use", Verb(2, "redeem", "read_wallet", i - (Counter + Counter)))
      BY <3>1, <3>2, RedemptionFacts
    <3> QED BY <3>4, <3>3, <1>0 DEF Statement, Verb
  <2>4. CASE 2 * Counter + 5 < i /\ i < Last
    <3>1. Script[i] = CredentialScenario[i - (Counter + Counter + 5)]
      BY <2>4, <1>0, <1>8, <1>7, <1>5
    <3>2. i - (Counter + Counter + 5) \in 1 .. (BadCredentials + 3) BY <2>4, <1>0, <1>8
    <3>3. Base(i) = 2 * Counter + 6 /\ Name(i) = "credentials" /\ Sends(i) = BadCredentials
          /\ Request(i) = "probe" /\ Read(i) = "read_drop" /\ i # Last
      BY <2>4, <1>0, <1>8 DEF Base, Name, Sends, Request, Read
    <3>4. Script[i] = Does("credentials", Verb(BadCredentials, "probe", "read_drop",
                                               i - (Counter + Counter + 5)))
      BY <3>1, <3>2, CredentialFacts
    <3> QED BY <3>4, <3>3, <1>0 DEF Statement, Verb
  <2>5. CASE i = Last
    <3>1. Script[i] = Does("no oracle", "judge")
      <4>1. /\ i \in 1 .. (((Counter + Counter + 5) + (BadCredentials + 3)) + 1)
            /\ ~(i <= (Counter + Counter + 5) + (BadCredentials + 3))
            /\ i - ((Counter + Counter + 5) + (BadCredentials + 3)) = 1
        BY <2>5, <1>0, <1>8
      <4> QED BY <4>1, <1>7, <1>2
    <3>2. Name(i) = "no oracle" BY <2>5, <1>0, <1>8 DEF Name
    <3> QED BY <3>1, <3>2, <2>5 DEF Statement
  <2> QED BY <2>1, <2>2, <2>3, <2>4, <2>5, <1>0, <1>8
<1> QED BY <1>7, <1>8, <1>9

\* What the statement at a place is, and how far its scenario has come.
LEMMA Positions ==
    ASSUME NEW i \in 1 .. Last
    PROVE  /\ i \in Nat /\ Base(i) \in Nat /\ Base(i) <= i
           /\ Sends(i) \in Nat /\ i <= Base(i) + Sends(i) + 2
           /\ i = Last => Base(i) = i /\ Sends(i) = 0
           /\ i # Last => Sends(i) > 0
           /\ Script[i].scenario = Name(i) /\ Script[i].does \in Verbs
           /\ Script[i].does = "seed" <=> i = Base(i) /\ i # Last
           /\ Script[i].does \in Writing \cup {"probe"} <=> Base(i) < i /\ i <= Base(i) + Sends(i)
           /\ Script[i].does \in {"read_drop", "read_wallet"} <=> i = Base(i) + Sends(i) + 1
           /\ Script[i].does = "judge" <=> i = Last \/ i = Base(i) + Sends(i) + 2
<1>1. /\ UnitsAvailable \in Nat \ {0} /\ BadCredentials \in Nat \ {0}
      /\ Counter \in Nat /\ Counter = UnitsAvailable + 4
      /\ Last \in Nat /\ Last = 2 * Counter + BadCredentials + 9
  BY DemoAssumption DEF Counter, Last
<1> HIDE DEF Counter, Last
<1>2. /\ i \in Nat /\ Base(i) \in Nat /\ Base(i) <= i
      /\ Sends(i) \in Nat /\ i <= Base(i) + Sends(i) + 2
      /\ i = Last => Base(i) = i /\ Sends(i) = 0
      /\ i # Last => Sends(i) > 0
  BY <1>1 DEF Base, Sends
<1>3. Script[i] = Statement(i)
  BY ScriptFacts
<1>4. /\ Script[i].scenario = Name(i)
      /\ Script[i].does = IF i = Last THEN "judge" ELSE IF i = Base(i) THEN "seed"
                          ELSE IF i <= Base(i) + Sends(i) THEN Request(i)
                          ELSE IF i = Base(i) + Sends(i) + 1 THEN Read(i) ELSE "judge"
  BY <1>3 DEF Statement, Does
<1>5. Request(i) \in Writing \cup {"probe"} /\ Read(i) \in {"read_drop", "read_wallet"}
  BY DEF Request, Read, Writing
<1>6. "judge" \notin Writing \cup {"probe", "read_drop", "read_wallet"}
      /\ "seed" \notin Writing \cup {"probe", "read_drop", "read_wallet"}
      /\ \A v \in Writing \cup {"probe"} : v \notin {"read_drop", "read_wallet"}
  BY DEF Writing
<1> DEFINE d == Script[i].does
           m == Base(i)
           n == Sends(i)
<1> HIDE DEF m, n
<1>7. m \in Nat /\ n \in Nat /\ m <= i /\ i <= m + n + 2
      /\ (i = Last => m = i /\ n = 0) /\ (i # Last => n > 0) /\ i \in Nat
  BY <1>2 DEF m, n
<1>8. d = IF i = Last THEN "judge" ELSE IF i = m THEN "seed"
          ELSE IF i <= m + n THEN Request(i) ELSE IF i = m + n + 1 THEN Read(i) ELSE "judge"
  BY <1>4 DEF m, n
<1>9. /\ d = "seed" <=> i = m /\ i # Last
      /\ d \in Writing \cup {"probe"} <=> m < i /\ i <= m + n
      /\ d \in {"read_drop", "read_wallet"} <=> i = m + n + 1
      /\ d = "judge" <=> i = Last \/ i = m + n + 2
  <2> HIDE DEF d
  <2>1. CASE i = Last
    BY <2>1, <1>5, <1>6, <1>7, <1>8
  <2>2. CASE i # Last /\ i = m
    BY <2>2, <1>5, <1>6, <1>7, <1>8
  <2>3. CASE i # Last /\ m < i /\ i <= m + n
    BY <2>3, <1>5, <1>6, <1>7, <1>8
  <2>4. CASE i # Last /\ i = m + n + 1
    BY <2>4, <1>5, <1>6, <1>7, <1>8
  <2>5. CASE i # Last /\ i = m + n + 2
    BY <2>5, <1>5, <1>6, <1>7, <1>8
  <2> QED BY <2>1, <2>2, <2>3, <2>4, <2>5, <1>7
<1>10. d \in Verbs
  BY <1>4 DEF Request, Read, Verbs
<1> QED BY <1>2, <1>4, <1>9, <1>10 DEF m, n

\* Which scenario it is of, and which statements that has.
LEMMA Chapters ==
    ASSUME NEW i \in 1 .. Last
    PROVE  /\ Name(i) \in Scenarios /\ Judged(i) \in 0 .. 3
           /\ Judged(i) = 0 <=> Name(i) = "conditional_write"
           /\ Judged(i) = 1 <=> Name(i) = "pessimistic_lock"
           /\ Judged(i) = 2 <=> Name(i) = "single-use"
           /\ Judged(i) = 3 <=> Name(i) \in {"credentials", "no oracle"}
           /\ Name(i) \notin {"credentials", "no oracle"} => Judged(i) + 1 \in 0 .. 3
           /\ Name(i) = "no oracle" <=> i = Last
           /\ Name(i) \in {"conditional_write", "pessimistic_lock"} => Sends(i) = UnitsAvailable + 1
           /\ Name(i) = "single-use" => Sends(i) = 2
           /\ Name(i) = "credentials" => Sends(i) = BadCredentials
           /\ Script[i].does = "order" => Name(i) \in {"conditional_write", "pessimistic_lock"}
           /\ Script[i].does = "redeem" => Name(i) = "single-use"
           /\ Script[i].does = "probe" => Name(i) = "credentials"
<1>1. /\ UnitsAvailable \in Nat \ {0} /\ BadCredentials \in Nat \ {0}
      /\ Counter \in Nat /\ Last \in Nat /\ Last = 2 * Counter + BadCredentials + 9
  BY DemoAssumption DEF Counter, Last
<1> HIDE DEF Counter, Last
<1>2. /\ Name(i) \in Scenarios /\ Judged(i) \in 0 .. 3
      /\ Judged(i) = 0 <=> Name(i) = "conditional_write"
      /\ Judged(i) = 1 <=> Name(i) = "pessimistic_lock"
      /\ Judged(i) = 2 <=> Name(i) = "single-use"
      /\ Judged(i) = 3 <=> Name(i) \in {"credentials", "no oracle"}
      /\ Name(i) \notin {"credentials", "no oracle"} => Judged(i) + 1 \in 0 .. 3
  BY <1>1 DEF Judged, Name, Scenarios
<1>3. /\ Name(i) = "no oracle" <=> i = Last
      /\ Name(i) \in {"conditional_write", "pessimistic_lock"} => Sends(i) = UnitsAvailable + 1
      /\ Name(i) = "single-use" => Sends(i) = 2
      /\ Name(i) = "credentials" => Sends(i) = BadCredentials
  BY <1>1 DEF Sends, Name
<1>4. /\ Request(i) = "order" => i <= 2 * Counter
      /\ Request(i) = "redeem" => i > 2 * Counter /\ i <= 2 * Counter + 5
      /\ Request(i) = "probe" => i > 2 * Counter + 5
      /\ Request(i) \in {"order", "redeem", "probe"}
  BY <1>1 DEF Request
<1>5. /\ i <= 2 * Counter => Name(i) \in {"conditional_write", "pessimistic_lock"}
      /\ i > 2 * Counter /\ i <= 2 * Counter + 5 => Name(i) = "single-use"
      /\ i > 2 * Counter + 5 /\ i # Last => Name(i) = "credentials"
  BY <1>1 DEF Name
<1>6. Script[i].does \in {"order", "redeem", "probe"} => Script[i].does = Request(i) /\ i # Last
  <2>1. Script[i] = Statement(i)
    BY ScriptFacts
  <2>2. Read(i) \in {"read_drop", "read_wallet"}
    BY DEF Read
  <2> QED BY <2>1, <2>2 DEF Statement, Does
<1> QED BY <1>2, <1>3, <1>4, <1>5, <1>6

\* The script goes on.
LEMMA NextPosition ==
    ASSUME NEW i \in 1 .. Last, i # Last
    PROVE  /\ i + 1 \in 1 .. Last
           /\ Script[i].does # "judge" =>
                  /\ Base(i + 1) = Base(i) /\ Name(i + 1) = Name(i)
                  /\ Sends(i + 1) = Sends(i) /\ Judged(i + 1) = Judged(i)
           /\ Script[i].does = "judge" =>
                  /\ Base(i + 1) = i + 1
                  /\ Judged(i + 1) = IF Name(i) = "credentials" THEN Judged(i) ELSE Judged(i) + 1
<1>1. /\ UnitsAvailable \in Nat \ {0} /\ BadCredentials \in Nat \ {0}
      /\ Counter \in Nat /\ Counter = UnitsAvailable + 4
      /\ Last \in Nat /\ Last = 2 * Counter + BadCredentials + 9
  BY DemoAssumption DEF Counter, Last
<1> HIDE DEF Counter, Last
<1>2. Script[i].does = "judge" <=> i = Base(i) + Sends(i) + 2
  BY Positions
<1>3. CASE i <= Counter
  <2>1. /\ Base(i) = 1 /\ Sends(i) = UnitsAvailable + 1
        /\ Name(i) = "conditional_write" /\ Judged(i) = 0
    BY <1>1, <1>3 DEF Base, Name, Sends, Judged
  <2>2. Script[i].does = "judge" <=> i = Counter
    BY <1>1, <1>2, <2>1
  <2>3. CASE i = Counter
    <3>1. i + 1 \in 1 .. Last /\ Base(i + 1) = i + 1
      BY <1>1, <2>3 DEF Base
    <3>2. Judged(i + 1) = IF "conditional_write" = "credentials" THEN 0 ELSE 0 + 1
      BY <1>1, <2>3 DEF Judged
    <3> QED BY <2>1, <2>2, <2>3, <3>1, <3>2
  <2>4. CASE i # Counter
    <3>1. /\ i + 1 \in 1 .. Last
          /\ Base(i + 1) = 1 /\ Sends(i + 1) = UnitsAvailable + 1
          /\ Name(i + 1) = "conditional_write" /\ Judged(i + 1) = 0
      BY <1>1, <1>3, <2>4 DEF Base, Name, Sends, Judged
    <3> QED BY <2>1, <2>2, <2>4, <3>1
  <2> QED BY <2>3, <2>4
<1>4. CASE Counter < i /\ i <= 2 * Counter
  <2>1. /\ Base(i) = Counter + 1 /\ Sends(i) = UnitsAvailable + 1
        /\ Name(i) = "pessimistic_lock" /\ Judged(i) = 1
    BY <1>1, <1>4 DEF Base, Name, Sends, Judged
  <2>2. Script[i].does = "judge" <=> i = 2 * Counter
    BY <1>1, <1>2, <2>1
  <2>3. CASE i = 2 * Counter
    <3>1. i + 1 \in 1 .. Last /\ Base(i + 1) = i + 1
      BY <1>1, <2>3 DEF Base
    <3>2. Judged(i + 1) = IF "pessimistic_lock" = "credentials" THEN 1 ELSE 1 + 1
      BY <1>1, <2>3 DEF Judged
    <3> QED BY <2>1, <2>2, <2>3, <3>1, <3>2
  <2>4. CASE i # 2 * Counter
    <3>1. /\ i + 1 \in 1 .. Last
          /\ Base(i + 1) = Counter + 1 /\ Sends(i + 1) = UnitsAvailable + 1
          /\ Name(i + 1) = "pessimistic_lock" /\ Judged(i + 1) = 1
      BY <1>1, <1>4, <2>4 DEF Base, Name, Sends, Judged
    <3> QED BY <2>1, <2>2, <2>4, <3>1
  <2> QED BY <2>3, <2>4
<1>5. CASE 2 * Counter < i /\ i <= 2 * Counter + 5
  <2>1. /\ Base(i) = 2 * Counter + 1 /\ Sends(i) = 2
        /\ Name(i) = "single-use" /\ Judged(i) = 2
    BY <1>1, <1>5 DEF Base, Name, Sends, Judged
  <2>2. Script[i].does = "judge" <=> i = 2 * Counter + 5
    BY <1>1, <1>2, <2>1
  <2>3. CASE i = 2 * Counter + 5
    <3>1. i + 1 \in 1 .. Last /\ Base(i + 1) = i + 1
      BY <1>1, <2>3 DEF Base
    <3>2. Judged(i + 1) = IF "single-use" = "credentials" THEN 2 ELSE 2 + 1
      BY <1>1, <2>3 DEF Judged
    <3> QED BY <2>1, <2>2, <2>3, <3>1, <3>2
  <2>4. CASE i # 2 * Counter + 5
    <3>1. /\ i + 1 \in 1 .. Last
          /\ Base(i + 1) = 2 * Counter + 1 /\ Sends(i + 1) = 2
          /\ Name(i + 1) = "single-use" /\ Judged(i + 1) = 2
      BY <1>1, <1>5, <2>4 DEF Base, Name, Sends, Judged
    <3> QED BY <2>1, <2>2, <2>4, <3>1
  <2> QED BY <2>3, <2>4
<1>6. CASE 2 * Counter + 5 < i
  <2>1. /\ Base(i) = 2 * Counter + 6 /\ Sends(i) = BadCredentials
        /\ Name(i) = "credentials" /\ Judged(i) = 3
    BY <1>1, <1>6 DEF Base, Name, Sends, Judged
  <2>2. Script[i].does = "judge" <=> i = Last - 1
    BY <1>1, <1>2, <2>1
  <2>3. CASE i = Last - 1
    <3>1. i + 1 \in 1 .. Last /\ Base(i + 1) = i + 1
      BY <1>1, <2>3 DEF Base
    <3>2. Judged(i + 1) = IF "credentials" = "credentials" THEN 3 ELSE 3 + 1
      BY <1>1, <2>3 DEF Judged
    <3> QED BY <2>1, <2>2, <2>3, <3>1, <3>2
  <2>4. CASE i # Last - 1
    <3>1. /\ i + 1 \in 1 .. Last
          /\ Base(i + 1) = 2 * Counter + 6 /\ Sends(i + 1) = BadCredentials
          /\ Name(i + 1) = "credentials" /\ Judged(i + 1) = 3
      BY <1>1, <1>6, <2>4 DEF Base, Name, Sends, Judged
    <3> QED BY <2>1, <2>2, <2>4, <3>1
  <2> QED BY <2>3, <2>4
<1> QED BY <1>1, <1>3, <1>4, <1>5, <1>6

------------------------------------------------------------------------------
(* The invariant. *)

\* Only a run waits, for a request of the statement it is at.
WaitsForItsOwn ==
    waiting # NoRequest => /\ phase = "running" /\ waiting = <<runs, at>>
                           /\ Now.does \in Writing \cup {"probe"}

\* Of the requests in flight one at most is of this run, unless it has died.
RequestsAreKnown ==
    /\ \A r \in inFlight :
           /\ r.id[1] <= runs
           /\ r.id[1] = runs /\ phase # "dead" => r.id = waiting
           /\ r.stage = "answered" => r.id = waiting /\ r.status \in Statuses
           /\ r.id = waiting => r.does = Now.does
    /\ \A q, r \in inFlight : q.id = waiting /\ r.id = waiting => q = r

\* The summary has a refusal for each judge that is past.
RefusalsAreExpected == refusals = Judged(at) /\ (phase = "over" => at = Last)

Midway == phase = "running" /\ at # Base(at)

\* The answers are those of this scenario's requests, in the order of the script.
AnswersInOrder ==
    Midway => /\ Len(answers) = IF at - Base(at) - 1 < Sends(at) THEN at - Base(at) - 1
                                ELSE Sends(at)
              /\ \A i \in DOMAIN answers : answers[i].id = <<runs, Base(at) + i>>

\* The rows this scenario is about.
Owners(s) == IF Name(at) = "single-use" THEN s.redemptions ELSE s.orders

\* What this scenario was told was written is in the store, and in its view.
ConfirmedAreStored ==
    Midway /\ Name(at) # "credentials" =>
        /\ \A i \in DOMAIN answers : answers[i].status = 201 => answers[i].id \in Owners(store)
        /\ \A r \in inFlight : r.stage = "answered" /\ r.status = 201 => r.id \in Owners(store)
        /\ Now.does = "judge" /\ view # Unread =>
               \A i \in DOMAIN answers : answers[i].status = 201 => answers[i].id \in Owners(view)

RowsAreFinite ==
    \A s \in {store, view} : IsFiniteSet(s.orders) /\ IsFiniteSet(s.redemptions)

Refused == {i \in DOMAIN answers : answers[i].status = 409}
OnItsWay == {r \in inFlight : r.stage = "answered" /\ r.status = 409}

\* As long as no check has failed the run's audit lines are its refusals: one for
\* each judge that is past, and those of this scenario.
EventsAreCounted ==
    phase \in {"running", "over"} /\ failed = {} =>
        events.own = Judged(at) + IF at = Base(at) THEN 0
                                  ELSE Cardinality(Refused) + Cardinality(OnItsWay)

IInv ==
    /\ TypeOK /\ RowsAreFinite
    /\ WaitsForItsOwn /\ RequestsAreKnown /\ RefusalsAreExpected
    /\ AnswersInOrder /\ ConfirmedAreStored /\ EventsAreCounted

\* A run that has the store to itself: which requests of a scenario must be granted,
\* with which constraints in place, what each is answered, and the rows of the first h.
Granted(name, constraints, i) ==
    IF name = "single-use" THEN i = 1 \/ "redemptions_single_use" \notin constraints
    ELSE name # "credentials" /\ i <= UnitsAvailable
Expected(name, constraints, i) ==
    IF Granted(name, constraints, i) THEN 201 ELSE IF name = "credentials" THEN 401 ELSE 409
RowsOf(run, base, name, constraints, h) ==
    {<<run, base + i>> : i \in {j \in 1 .. h : Granted(name, constraints, j)}}

\* The requests of this scenario that the application has decided on.
Handled == Len(answers) + IF \E r \in inFlight : r.stage # "received" THEN 1 ELSE 0
Rows == RowsOf(runs, Base(at), Name(at), backstop, Handled)

\* Midway through a scenario: answered as expected, and exactly those rows.
Proper ==
    /\ \A i \in DOMAIN answers : answers[i].status = Expected(Name(at), backstop, i)
    /\ Name(at) = "single-use" /\ 1 \in DOMAIN answers => answers[1].balance = 1
    /\ \A r \in inFlight :
           /\ r.stage = "refusing" => /\ Name(at) # "credentials"
                                     /\ ~Granted(Name(at), backstop, Handled)
           /\ r.stage = "answered" =>
                  /\ r.status = Expected(Name(at), backstop, Handled)
                  /\ Name(at) = "single-use" /\ Handled = 1 => r.balance = 1
    /\ Owners(store) = Rows
    /\ Name(at) # "single-use" => store.sold = Cardinality(Rows)
    /\ Now.does = "judge" => view = store

\* The failed checks, and the two refusals that the last scenario compares.
VerdictsOf(fails, responses, constraints, judged) ==
    /\ fails = {} <=> (judged = 3 => "redemptions_single_use" \in constraints)
    /\ judged > 0 => responses["sold out"] = 409
    /\ judged = 3 => responses["already redeemed"]
                         = IF "redemptions_single_use" \in constraints THEN 409 ELSE 201

Verdicts == VerdictsOf(failed, refusal_responses, backstop, Judged(at))

Undisturbed == phase = "running" /\ ~disturbed

UInv ==
    Undisturbed => /\ \A r \in inFlight : r.id = waiting
                   /\ Verdicts
                   /\ at # Base(at) => Proper

------------------------------------------------------------------------------
(* Types. *)

\* A request when its answer is on its way.
Told(r, status, balance) ==
    [r EXCEPT !.stage = "answered", !.status = status, !.balance = balance]

LEMMA ToldFields ==
    ASSUME NEW r \in RequestType, NEW status \in Statuses, NEW balance \in Nat
    PROVE  /\ Told(r, status, balance) \in RequestType
           /\ Told(r, status, balance).id = r.id
           /\ Told(r, status, balance).does = r.does
           /\ Told(r, status, balance).stage = "answered"
           /\ Told(r, status, balance).status = status
           /\ Told(r, status, balance).balance = balance
BY DEF Told, RequestType

LEMMA RefusingFields ==
    ASSUME NEW r \in RequestType
    PROVE  /\ [r EXCEPT !.stage = "refusing"] \in RequestType
           /\ [r EXCEPT !.stage = "refusing"].id = r.id
           /\ [r EXCEPT !.stage = "refusing"].does = r.does
           /\ [r EXCEPT !.stage = "refusing"].stage = "refusing"
           /\ [r EXCEPT !.stage = "refusing"].status = r.status
BY DEF RequestType

\* What is written is a row of this request's, and nothing else.
LEMMA WrittenFields ==
    ASSUME NEW r \in RequestType, store \in StoreType,
           IsFiniteSet(store.orders), IsFiniteSet(store.redemptions)
    PROVE  /\ Written(r) \in StoreType
           /\ IsFiniteSet(Written(r).orders) /\ IsFiniteSet(Written(r).redemptions)
           /\ r.does = "order" =>
                  /\ Written(r).orders = store.orders \cup {r.id}
                  /\ Written(r).sold = store.sold + 1
                  /\ Written(r).redemptions = store.redemptions
           /\ r.does # "order" =>
                  /\ Written(r).redemptions = store.redemptions \cup {r.id}
                  /\ Written(r).orders = store.orders /\ Written(r).sold = store.sold
<1>1. CASE r.does = "order"
  <2>1. Written(r) = [store EXCEPT !.sold = @ + 1, !.orders = @ \cup {r.id}]
    BY <1>1 DEF Written
  <2>2. /\ Written(r).orders = store.orders \cup {r.id} /\ Written(r).sold = store.sold + 1
        /\ Written(r).redemptions = store.redemptions
    BY <2>1 DEF StoreType
  <2>3. Written(r) \in StoreType
    <3>1. r.id \in Ids /\ store.sold \in Int /\ store.orders \subseteq Ids
          /\ store.redemptions \subseteq Ids
      BY DEF StoreType, RequestType
    <3>2. Written(r) = [sold |-> store.sold + 1, orders |-> store.orders \cup {r.id},
                        redemptions |-> store.redemptions]
      BY <2>1 DEF StoreType
    <3>3. store.sold + 1 \in Int /\ store.orders \cup {r.id} \subseteq Ids
      BY <3>1
    <3> QED BY ONLY <3>1, <3>2, <3>3 DEF StoreType
  <2>4. IsFiniteSet(store.orders \cup {r.id})
    BY FS_AddElement
  <2> QED BY <1>1, <2>2, <2>3, <2>4
<1>2. CASE r.does # "order"
  <2>0. r.id \in Ids
    BY DEF RequestType
  <2>1. Written(r) = [store EXCEPT !.redemptions = @ \cup {r.id}]
    BY <1>2 DEF Written
  <2>2. /\ Written(r).redemptions = store.redemptions \cup {r.id}
        /\ Written(r).orders = store.orders /\ Written(r).sold = store.sold
    BY <2>1 DEF StoreType
  <2>3. Written(r) \in StoreType
    BY <2>0, <2>1 DEF StoreType
  <2>4. IsFiniteSet(store.redemptions \cup {r.id})
    BY FS_AddElement
  <2> QED BY <1>2, <2>2, <2>3, <2>4
<1> QED BY <1>1, <1>2

------------------------------------------------------------------------------
(* The initial state, and what one step can do to the types. *)

LEMMA Somewhere == TypeOK => at \in 1 .. Last /\ Now = Script[at]
BY ScriptFacts DEF TypeOK, Now

LEMMA InitIInv == Init => IInv
<1> SUFFICES ASSUME Init PROVE IInv
  OBVIOUS
<1>1. /\ runs = 0 /\ phase = "idle" /\ at = 1 /\ waiting = NoRequest
      /\ answers = <<>> /\ view = Empty /\ failed = {} /\ refusals = 0
      /\ refusal_responses = [label \in {"sold out", "already redeemed"} |-> 0]
      /\ disturbed = FALSE /\ faults = 0 /\ inFlight = {}
      /\ store = Empty /\ backstop = Constraints
      /\ events = [own |-> 0, others |-> 0] /\ gate = "none"
  BY DEF Init
<1>2. 1 \in 1 .. Last /\ DOMAIN Script = 1 .. Last /\ 1 <= Counter
  BY ScriptFacts, DemoAssumption DEF Counter, Last
<1>3. Empty \in StoreType /\ IsFiniteSet(Empty.orders) /\ IsFiniteSet(Empty.redemptions)
  BY FS_EmptySet DEF Empty, StoreType
<1>4. TypeOK
  <2>1. runs \in 0 .. MaxRuns /\ faults \in 0 .. MaxFaults /\ refusals \in 0 .. 3
    <3>1. MaxRuns \in Nat /\ MaxFaults \in Nat
      BY DemoAssumption
    <3>2. runs = 0 /\ faults = 0 /\ refusals = 0
      BY <1>1
    <3> QED BY ONLY <3>1, <3>2
  <2>2. answers \in Seq(AnswerType) /\ at \in DOMAIN Script
    <3>1. answers = <<>> /\ at = 1
      BY <1>1
    <3> QED BY ONLY <3>1, <1>2
  <2>3. /\ refusal_responses \in [{"sold out", "already redeemed"} -> {0} \cup Statuses]
        /\ events \in [own : Nat, others : Nat]
    BY <1>1
  <2>4. store \in StoreType /\ view \in StoreType
    BY <1>1, <1>3
  <2> QED BY <1>1, <2>1, <2>2, <2>3, <2>4 DEF TypeOK
<1>5. RowsAreFinite /\ WaitsForItsOwn /\ RequestsAreKnown
  BY <1>1, <1>3 DEF RowsAreFinite, WaitsForItsOwn, RequestsAreKnown
<1>6. RefusalsAreExpected
  BY <1>1, <1>2 DEF RefusalsAreExpected, Judged
<1>7. AnswersInOrder /\ ConfirmedAreStored /\ EventsAreCounted
  BY <1>1 DEF AnswersInOrder, ConfirmedAreStored, EventsAreCounted, Midway
<1> QED BY <1>4, <1>5, <1>6, <1>7 DEF IInv

\* An answer, and a refusal, replace the request they are about.
LEMMA AnswerEffect ==
    ASSUME TypeOK, NEW r \in inFlight, NEW status \in Statuses, NEW balance \in Nat,
           Answer(r, status, balance)
    PROVE  /\ inFlight' \subseteq RequestType
           /\ r.id = waiting => inFlight' = (inFlight \ {r}) \cup {Told(r, status, balance)}
           /\ r.id # waiting => inFlight' = inFlight \ {r}
<1>1. r \in RequestType
  BY DEF TypeOK
<1>2. Told(r, status, balance) \in RequestType
  BY <1>1, ToldFields
<1> QED BY <1>2 DEF Answer, Told, TypeOK

\* A judge of a scenario has the answers of all its requests.
LEMMA AtJudge ==
    ASSUME IInv, phase = "running", Now.does = "judge", at # Last
    PROVE  /\ Midway /\ Len(answers) = Sends(at) /\ DOMAIN answers = 1 .. Sends(at)
           /\ Sends(at) \in 1 .. Sends(at)
           /\ \A i \in 1 .. Sends(at) :
                  /\ answers[i] \in AnswerType
                  /\ answers[i].id = <<runs, Base(at) + i>>
<1>1. /\ at \in 1 .. Last /\ Now = Script[at] /\ answers \in Seq(AnswerType) /\ AnswersInOrder
  BY Somewhere DEF IInv, TypeOK
<1>2. /\ at = Base(at) + Sends(at) + 2 /\ Base(at) \in Nat /\ Sends(at) \in Nat
  BY <1>1, Positions
<1>3. Sends(at) > 0
  BY <1>1, Positions
<1>4. Midway /\ ~(at - Base(at) - 1 < Sends(at))
  BY <1>2 DEF Midway
<1>5. Len(answers) = Sends(at)
  BY <1>1, <1>4 DEF AnswersInOrder
<1>6. DOMAIN answers = 1 .. Sends(at)
  BY <1>1, <1>5
<1> QED BY <1>1, <1>2, <1>3, <1>4, <1>5, <1>6 DEF AnswersInOrder

LEMMA FailingType ==
    ASSUME TypeOK, NEW checks, DOMAIN checks \subseteq {"confirmed", "refused", "store", "identical"}
    PROVE  Failing(checks) \subseteq {Script[i].scenario : i \in DOMAIN Script} \X
                                          {"confirmed", "refused", "store", "identical"}
<1>1. Now.scenario \in {Script[i].scenario : i \in DOMAIN Script}
  BY DEF Now, TypeOK
<1>2. ASSUME NEW c \in DOMAIN checks
      PROVE  <<Now.scenario, c>> \in {Script[i].scenario : i \in DOMAIN Script} \X
                                        {"confirmed", "refused", "store", "identical"}
  BY <1>1
<1> QED BY <1>2 DEF Failing

\* Requests of one run, by the statements they are of.
Numbered(run, base, m, n) == {<<run, base + i>> : i \in m .. n}

LEMMA NumberedFacts ==
    ASSUME NEW run \in Nat, NEW base \in Nat, NEW m \in Nat, NEW n \in Nat
    PROVE  /\ IsFiniteSet(Numbered(run, base, m, n))
           /\ Cardinality(Numbered(run, base, m, n)) = Cardinality(m .. n)
<1> DEFINE T == Numbered(run, base, m, n)
           f == [i \in m .. n |-> <<run, base + i>>]
<1>1. IsFiniteSet(m .. n)
  BY FS_Interval
<1>2. f \in Surjection(m .. n, T)
  BY DEF Surjection, Numbered
<1>3. f \in Injection(m .. n, T)
  <2>1. ASSUME NEW i \in m .. n, NEW j \in m .. n, f[i] = f[j] PROVE i = j
    <3>1. base + i = base + j
      BY <2>1
    <3> QED BY <3>1
  <2>2. f \in [m .. n -> T]
    BY DEF Numbered
  <2> HIDE DEF f, T
  <2> QED BY <2>1, <2>2 DEF Injection, IsInjective
<1> HIDE DEF f, T
<1>4. IsFiniteSet(T) /\ Cardinality(T) = Cardinality(m .. n)
  BY <1>1, <1>2, <1>3, FS_Surjection
<1> QED BY <1>4 DEF T

LEMMA ElsewhereRows ==
    /\ UnitsAvailable \in Int /\ UnitsAvailable + 1 \in Int
    /\ \A m \in {0, 1} : /\ {Elsewhere(i) : i \in m .. UnitsAvailable} \subseteq Ids
                        /\ IsFiniteSet({Elsewhere(i) : i \in m .. UnitsAvailable})
    /\ {Elsewhere(1), Elsewhere(2)} \subseteq Ids /\ IsFiniteSet({Elsewhere(1), Elsewhere(2)})
    /\ {Elsewhere(1)} \subseteq Ids /\ IsFiniteSet({Elsewhere(1)})
<1>1. UnitsAvailable \in Nat
  BY DemoAssumption
<1>2. ASSUME NEW m \in {0, 1}
      PROVE  /\ {Elsewhere(i) : i \in m .. UnitsAvailable} \subseteq Ids
             /\ IsFiniteSet({Elsewhere(i) : i \in m .. UnitsAvailable})
  <2>1. {Elsewhere(i) : i \in m .. UnitsAvailable} = Numbered(0, 0, m, UnitsAvailable)
    BY <1>1 DEF Elsewhere, Numbered
  <2>2. m \in Nat /\ 0 \in Nat
    OBVIOUS
  <2>3. IsFiniteSet(Numbered(0, 0, m, UnitsAvailable))
    BY ONLY <1>1, <2>2, NumberedFacts
  <2>4. {Elsewhere(i) : i \in m .. UnitsAvailable} \subseteq Ids
    BY <1>1 DEF Elsewhere, Ids
  <2> QED BY ONLY <2>1, <2>3, <2>4
<1>3. {Elsewhere(1), Elsewhere(2)} \subseteq Ids
  BY DEF Elsewhere, Ids
<1>4. IsFiniteSet({Elsewhere(1)})
  BY FS_Singleton
<1>5. IsFiniteSet({Elsewhere(1), Elsewhere(2)})
  <2>1. IsFiniteSet({Elsewhere(1)} \cup {Elsewhere(2)})
    BY <1>4, FS_AddElement
  <2>2. {Elsewhere(1), Elsewhere(2)} = {Elsewhere(1)} \cup {Elsewhere(2)}
    OBVIOUS
  <2> QED BY ONLY <2>1, <2>2
<1> QED BY <1>1, <1>2, <1>3, <1>4, <1>5

LEMMA NextType == IInv /\ [Next]_vars => TypeOK' /\ RowsAreFinite'
<1> SUFFICES ASSUME IInv, [Next]_vars PROVE TypeOK' /\ RowsAreFinite'
  OBVIOUS
<1>0. TypeOK /\ RowsAreFinite /\ at \in 1 .. Last /\ Now = Script[at] /\ DOMAIN Script = 1 .. Last
  BY Somewhere, ScriptFacts DEF IInv
<1>e. /\ Empty \in StoreType /\ IsFiniteSet(Empty.orders) /\ IsFiniteSet(Empty.redemptions)
      /\ Unread \in StoreType /\ IsFiniteSet(Unread.orders) /\ IsFiniteSet(Unread.redemptions)
  BY FS_EmptySet DEF Empty, Unread, StoreType
<1>n. runs \in Nat /\ 1 \in 1 .. Last /\ MaxRuns \in Nat /\ MaxFaults \in Nat
  <2>1. MaxRuns \in Nat /\ MaxFaults \in Nat
    BY DemoAssumption
  <2>2. runs \in 0 .. MaxRuns
    BY <1>0 DEF TypeOK
  <2>3. Last \in Nat /\ at \in 1 .. Last
    BY <1>0, ScriptFacts
  <2> QED BY ONLY <2>1, <2>2, <2>3
<1>r. inFlight \subseteq RequestType /\ store \in StoreType
      /\ IsFiniteSet(store.orders) /\ IsFiniteSet(store.redemptions)
  BY <1>0 DEF TypeOK, RowsAreFinite
<1>s. 401 \in Statuses /\ 409 \in Statuses /\ 503 \in Statuses /\ 201 \in Statuses /\ 0 \in Nat
  BY DEF Statuses
<1>1. CASE StartRun
  <2>1. /\ phase' = "running" /\ at' = 1 /\ answers' = <<>> /\ view' = Empty /\ gate' = "none"
        /\ failed' = {} /\ refusals' = 0
        /\ refusal_responses' = [label \in {"sold out", "already redeemed"} |-> 0]
        /\ UNCHANGED <<waiting, faults, inFlight, store, backstop>>
    BY <1>1 DEF StartRun, NewReport
  <2>2. runs' \in 0 .. MaxRuns
    BY <1>1, <1>n DEF StartRun
  <2>3. events \in [own : Nat, others : Nat]
    BY <1>0 DEF TypeOK
  <2>4. events' = [own |-> 0, others |-> events.own + events.others]
        /\ disturbed' \in BOOLEAN
    BY <1>1 DEF StartRun
  <2>5. events' \in [own : Nat, others : Nat]
    BY <2>3, <2>4
  <2>6. refusal_responses' \in [{"sold out", "already redeemed"} -> {0} \cup Statuses]
        /\ answers' \in Seq(AnswerType) /\ at' \in DOMAIN Script
    <3>1. answers' = <<>> /\ at' = 1
      BY <2>1
    <3>2. answers' \in Seq(AnswerType)
      BY ONLY <3>1
    <3>3. at' \in DOMAIN Script
      BY ONLY <3>1, <1>0, <1>n
    <3> QED BY ONLY <2>1, <3>2, <3>3
  <2>7. refusals' \in 0 .. 3 /\ disturbed' \in BOOLEAN
    <3>1. refusals' = 0 /\ disturbed' \in BOOLEAN
      BY <2>1, <2>4
    <3> QED BY ONLY <3>1
  <2> QED BY ONLY <1>0, <1>e, <2>1, <2>2, <2>5, <2>6, <2>7 DEF TypeOK, RowsAreFinite
<1>2. CASE Seed
  <2>1. at' \in 1 .. Last
    <3>1. Now.does = "seed"
      BY <1>2 DEF Seed, Runs
    <3>2. at # Last
      BY <3>1, <1>0, Positions
    <3> QED BY <1>0, <1>2, <3>2, NextPosition DEF Seed, GoOn
  <2>2. /\ store' = Empty /\ answers' = <<>>
        /\ UNCHANGED <<runs, phase, waiting, view, failed, refusals, refusal_responses, disturbed,
                       faults, inFlight, backstop, events, gate>>
    BY <1>2 DEF Seed, report
  <2>3. answers' \in Seq(AnswerType)
    BY <2>2
  <2> QED BY ONLY <1>0, <1>e, <2>1, <2>2, <2>3 DEF TypeOK, RowsAreFinite
<1>3. CASE Send
  <2>1. <<runs, at>> \in Ids /\ Now.does \in Writing \cup {"probe"}
    <3>1. at \in Nat
      BY <1>0, Positions
    <3> QED BY <3>1, <1>n, <1>3 DEF Ids, Send, Runs
  <2> DEFINE new == [id |-> <<runs, at>>, does |-> Now.does, stage |-> "received",
                     status |-> 0, balance |-> 0]
  <2>2. new \in RequestType
    BY <2>1 DEF RequestType
  <2>3. /\ waiting' = <<runs, at>> /\ inFlight' = inFlight \cup {new}
        /\ UNCHANGED <<runs, phase, at, answers, view, failed, refusals, refusal_responses,
                       disturbed, faults, store, backstop, events, gate>>
    BY <1>3 DEF Send, report
  <2> HIDE DEF new
  <2> QED BY ONLY <1>0, <2>1, <2>2, <2>3 DEF TypeOK, RowsAreFinite
<1>4. CASE Receive
  <2>1. PICK r \in inFlight :
            /\ r.id = waiting /\ r.stage = "answered"
            /\ inFlight' = inFlight \ {r}
            /\ answers' = Append(answers, [id |-> r.id, status |-> r.status, balance |-> r.balance])
            /\ waiting' = NoRequest /\ GoOn
            /\ UNCHANGED <<runs, phase, view, failed, refusals, refusal_responses, disturbed,
                           faults, store, backstop, events, gate>>
    BY <1>4 DEF Receive, report
  <2>2. r \in RequestType /\ r.status \in Statuses /\ waiting # NoRequest
    BY <1>r, <2>1, DemoAssumption DEF IInv, RequestsAreKnown, RequestType, Ids
  <2> DEFINE new == [id |-> r.id, status |-> r.status, balance |-> r.balance]
  <2>3. new \in AnswerType
    BY <2>2 DEF RequestType, AnswerType
  <2> HIDE DEF new
  <2>4. answers' \in Seq(AnswerType)
    <3>1. answers \in Seq(AnswerType) /\ answers' = Append(answers, new)
      BY <1>0, <2>1 DEF TypeOK, new
    <3> QED BY ONLY <3>1, <2>3
  <2>5. at' \in 1 .. Last
    <3>1. Now.does \in Writing \cup {"probe"}
      BY <2>2 DEF IInv, WaitsForItsOwn
    <3>2. at # Last
      BY <3>1, <1>0, Positions DEF Writing
    <3> QED BY <3>2, <1>0, <2>1, NextPosition DEF GoOn
  <2>6. inFlight' \subseteq inFlight
    BY <2>1
  <2> QED BY ONLY <1>0, <2>1, <2>4, <2>5, <2>6 DEF TypeOK, RowsAreFinite
<1>5. CASE ReadBack
  <2>1. at' \in 1 .. Last
    <3>1. Now.does \in {"read_drop", "read_wallet"}
      BY <1>5 DEF ReadBack, Runs
    <3>2. at # Last
      BY <3>1, <1>0, Positions
    <3> QED BY <1>0, <1>5, <3>2, NextPosition DEF ReadBack, GoOn
  <2>2. /\ view' = store \/ view' = Unread
        /\ disturbed' \in BOOLEAN
    BY <1>0, <1>5 DEF ReadBack, TypeOK
  <2>3. faults' \in 0 .. MaxFaults
    <3>1. faults \in 0 .. MaxFaults
      BY <1>0 DEF TypeOK
    <3>2. faults' = faults \/ (faults < MaxFaults /\ faults' = faults + 1)
      BY <1>5 DEF ReadBack
    <3> QED BY <3>1, <3>2, <1>n
  <2>4. UNCHANGED <<runs, phase, waiting, answers, failed, refusals, refusal_responses, inFlight,
                    store, backstop, events, gate>>
    BY <1>5 DEF ReadBack, report
  <2> QED BY ONLY <1>0, <1>e, <2>1, <2>2, <2>3, <2>4 DEF TypeOK, RowsAreFinite
<1>6. CASE Judge
  <2>1. /\ phase = "running" /\ Now.does = "judge" /\ phase' \in {"running", "over"}
        /\ UNCHANGED <<runs, waiting, answers, view, disturbed, faults, inFlight, store, backstop,
                       events, gate>>
    BY <1>6 DEF Judge, Runs, application
  <2>2. at' \in 1 .. Last
    <3>1. at' = at \/ (at # Last /\ at' = at + 1)
      BY <1>6, ScriptFacts DEF Judge, GoOn
    <3> QED BY <1>0, <3>1, NextPosition
  <2>3. failed' \subseteq {Script[i].scenario : i \in DOMAIN Script} \X
                               {"confirmed", "refused", "store", "identical"}
    <3>1. PICK checks : /\ checks \in {CounterChecks, RedemptionChecks, CredentialChecks, OracleChecks}
                        /\ failed' = failed \cup Failing(checks)
      BY <1>6 DEF Judge
    <3>2. DOMAIN checks \subseteq {"confirmed", "refused", "store", "identical"}
      <4>1. /\ DOMAIN CounterChecks \subseteq {"confirmed", "refused", "store", "identical"}
            /\ DOMAIN RedemptionChecks \subseteq {"confirmed", "refused", "store", "identical"}
        BY DEF CounterChecks, RedemptionChecks
      <4>2. /\ DOMAIN CredentialChecks \subseteq {"confirmed", "refused", "store", "identical"}
            /\ DOMAIN OracleChecks \subseteq {"confirmed", "refused", "store", "identical"}
        BY DEF CredentialChecks, OracleChecks
      <4> QED BY <3>1, <4>1, <4>2
    <3> QED BY <1>0, <3>1, <3>2, FailingType DEF TypeOK
  <2>4. /\ refusals' \in 0 .. 3
        /\ refusal_responses' \in [{"sold out", "already redeemed"} -> {0} \cup Statuses]
    <3>0. refusals = Judged(at) /\ refusals \in 0 .. 3
          /\ refusal_responses \in [{"sold out", "already redeemed"} -> {0} \cup Statuses]
      BY <1>0 DEF IInv, RefusalsAreExpected, TypeOK
    <3>1. CASE UNCHANGED <<refusals, refusal_responses>>
      BY <3>0, <3>1
    <3>2. CASE ~UNCHANGED <<refusals, refusal_responses>>
      <4>1. PICK label \in {"sold out", "already redeemed"} :
                RememberRefusal(label, Sends(at)) /\ Name(at) \notin {"credentials", "no oracle"}
        <5>1. Now.scenario = Name(at)
          BY <1>0, Positions
        <5>2. CASE Name(at) \in {"conditional_write", "pessimistic_lock"}
          <6>1. RememberRefusal("sold out", UnitsAvailable + 1)
            BY <1>6, <5>1, <5>2 DEF Judge
          <6>2. Sends(at) = UnitsAvailable + 1
            BY <1>0, <5>2, Chapters
          <6> QED BY <5>2, <6>1, <6>2
        <5>3. CASE Name(at) = "single-use"
          <6>1. RememberRefusal("already redeemed", 2)
            BY <1>6, <5>1, <5>3 DEF Judge
          <6>2. Sends(at) = 2
            BY <1>0, <5>3, Chapters
          <6> QED BY <5>3, <6>1, <6>2
        <5>4. Name(at) \in {"conditional_write", "pessimistic_lock", "single-use"}
          BY <1>6, <3>2, <5>1 DEF Judge
        <5> QED BY <5>2, <5>3, <5>4
      <4>2. Judged(at) + 1 \in 0 .. 3
        BY <1>0, <4>1, Chapters
      <4>3. answers[Sends(at)].status \in Statuses
        <5>1. at # Last
          BY <1>0, <4>1, Chapters
        <5>2. /\ Len(answers) = Sends(at) /\ \A i \in 1 .. Sends(at) : answers[i] \in AnswerType
              /\ Sends(at) \in 1 .. Sends(at)
          BY <2>1, <5>1, AtJudge
        <5> QED BY <5>2 DEF AnswerType
      <4>4. refusals' = Judged(at) + 1
            /\ refusal_responses' = [refusal_responses EXCEPT ![label] = answers[Sends(at)].status]
        BY <3>0, <4>1 DEF RememberRefusal
      <4>5. refusals' \in 0 .. 3
        BY ONLY <4>2, <4>4
      <4>6. refusal_responses' \in [{"sold out", "already redeemed"} -> {0} \cup Statuses]
        BY ONLY <3>0, <4>3, <4>4
      <4> QED BY <4>5, <4>6
    <3> QED BY <3>1, <3>2
  <2> QED BY ONLY <1>0, <2>1, <2>2, <2>3, <2>4 DEF TypeOK, RowsAreFinite
<1>7. CASE TimeOut \/ Die
  <2>1. /\ phase' = "dead" /\ waiting' = NoRequest
        /\ inFlight' \subseteq inFlight
        /\ UNCHANGED <<runs, at, answers, view, failed, refusals, refusal_responses, disturbed,
                       faults, store, backstop, events, gate>>
    BY <1>7 DEF TimeOut, Die, Dead, report
  <2> QED BY ONLY <1>0, <2>1 DEF TypeOK, RowsAreFinite
<1>8. ASSUME NEW r \in inFlight, Handle(r) PROVE TypeOK' /\ RowsAreFinite'
  <2>0. r \in RequestType
    BY <1>r
  <2>1. UNCHANGED <<runs, phase, at, waiting, answers, view, failed, refusals, refusal_responses,
                    disturbed, faults, backstop, events, gate>>
    BY <1>8 DEF Handle, client, report
  <2>5. /\ inFlight' \subseteq RequestType
        /\ store' \in StoreType /\ IsFiniteSet(store'.orders) /\ IsFiniteSet(store'.redemptions)
    <3>1. CASE r.does = "probe"
      <4>1. Answer(r, 401, 0) /\ UNCHANGED store
        BY <1>8, <3>1 DEF Handle
      <4> QED BY <1>0, <1>r, <1>s, <4>1, AnswerEffect
    <3>2. CASE r.does # "probe" /\ MayWrite(r)
      <4>1. store' = Written(r) /\ Answer(r, 201, Cardinality(store'.redemptions))
        BY <1>8, <3>2 DEF Handle
      <4>2. store' \in StoreType /\ IsFiniteSet(store'.orders) /\ IsFiniteSet(store'.redemptions)
        BY <1>r, <2>0, <4>1, WrittenFields
      <4>3. Cardinality(store'.redemptions) \in Nat
        BY <4>2, FS_CardinalityType
      <4> QED BY <1>0, <1>s, <4>1, <4>2, <4>3, AnswerEffect
    <3>3. CASE r.does # "probe" /\ ~MayWrite(r)
      <4>1. Refuse(r) /\ UNCHANGED store
        BY <1>8, <3>3 DEF Handle
      <4> QED BY <1>r, <2>0, <4>1, RefusingFields DEF Refuse
    <3> QED BY <3>1, <3>2, <3>3
  <2> QED BY ONLY <1>0, <2>1, <2>5 DEF TypeOK, RowsAreFinite
<1>9. ASSUME NEW r \in inFlight, EmitRefusal(r) PROVE TypeOK' /\ RowsAreFinite'
  <2>1. /\ Answer(r, 409, 0)
        /\ UNCHANGED <<runs, phase, at, waiting, answers, view, failed, refusals,
                       refusal_responses, disturbed, faults, store, backstop, gate>>
    BY <1>9 DEF EmitRefusal, client, report
  <2>2. inFlight' \subseteq RequestType
    BY <1>0, <1>s, <2>1, AnswerEffect
  <2>3. events' \in [own : Nat, others : Nat]
    <3>1. events \in [own : Nat, others : Nat]
      BY <1>0 DEF TypeOK
    <3>2. events' = [events EXCEPT !.own = @ + 1] \/ events' = [events EXCEPT !.others = @ + 1]
      BY <1>9 DEF EmitRefusal
    <3> QED BY ONLY <3>1, <3>2
  <2> QED BY ONLY <1>0, <2>1, <2>2, <2>3 DEF TypeOK, RowsAreFinite
<1>10. ASSUME NEW r \in inFlight, Fail(r) PROVE TypeOK' /\ RowsAreFinite'
  <2>1. /\ Answer(r, 503, 0)
        /\ UNCHANGED <<runs, phase, at, waiting, answers, view, failed, refusals,
                       refusal_responses, backstop, events, gate>>
    BY <1>10 DEF Fail, client, report
  <2>2. inFlight' \subseteq RequestType
    BY <1>0, <1>s, <2>1, AnswerEffect
  <2>3. faults' \in 0 .. MaxFaults /\ disturbed' \in BOOLEAN
    <3>1. faults \in 0 .. MaxFaults
      BY <1>0 DEF TypeOK
    <3>2. faults < MaxFaults /\ faults' = faults + 1 /\ disturbed' = (disturbed \/ r.id = waiting)
      BY <1>10 DEF Fail
    <3> QED BY ONLY <3>1, <3>2, <1>n
  <2>4. store' \in StoreType /\ IsFiniteSet(store'.orders) /\ IsFiniteSet(store'.redemptions)
    <3>1. store' = store \/ store' = Written(r)
      BY <1>10 DEF Fail
    <3> QED BY <1>r, <3>1, WrittenFields
  <2> QED BY ONLY <1>0, <2>1, <2>2, <2>3, <2>4 DEF TypeOK, RowsAreFinite
<1>11. CASE Others
  <2>1. /\ UNCHANGED <<runs, phase, at, waiting, answers, view, failed, refusals, refusal_responses,
                       disturbed, faults, inFlight, gate>>
        /\ backstop' \subseteq Constraints
    BY <1>0, <1>11 DEF Others, VulnerableRun, SecureRun, RestoreBaseline, client, report, TypeOK
  <2>2. events' \in [own : Nat, others : Nat]
    <3>1. events \in [own : Nat, others : Nat]
      BY <1>0 DEF TypeOK
    <3>2. events' = events \/ events' = [events EXCEPT !.others = @ + 1]
      BY <1>11 DEF Others, VulnerableRun, SecureRun, RestoreBaseline
    <3> QED BY ONLY <3>1, <3>2
  <2>3. store' \in StoreType /\ IsFiniteSet(store'.orders) /\ IsFiniteSet(store'.redemptions)
    <3>1. CASE VulnerableRun
      BY <3>1, ElsewhereRows DEF VulnerableRun, StoreType
    <3>2. CASE SecureRun
      BY <3>2, ElsewhereRows DEF SecureRun, StoreType
    <3>3. CASE RestoreBaseline
      BY <3>3, <1>e DEF RestoreBaseline
    <3> QED BY <1>11, <3>1, <3>2, <3>3 DEF Others
  <2> QED BY ONLY <1>0, <2>1, <2>2, <2>3 DEF TypeOK, RowsAreFinite
<1>13. CASE AuditGate \/ UNCHANGED vars
  <2>1. /\ gate' \in {"none", "passed", "failed"}
        /\ UNCHANGED <<runs, phase, at, waiting, answers, view, failed, refusals,
                       refusal_responses, disturbed, faults, inFlight, store, backstop, events>>
    BY <1>0, <1>13 DEF AuditGate, vars, client, application, report, TypeOK
  <2> QED BY ONLY <1>0, <2>1 DEF TypeOK, RowsAreFinite
<1> QED BY <1>1, <1>2, <1>3, <1>4, <1>5, <1>6, <1>7, <1>8, <1>9, <1>10, <1>11, <1>13
       DEF Next, Client, Application

------------------------------------------------------------------------------
(* Requests and answers. *)

\* The conjuncts of the invariant that are left.
Rest ==
    /\ WaitsForItsOwn /\ RequestsAreKnown /\ RefusalsAreExpected
    /\ AnswersInOrder /\ ConfirmedAreStored /\ EventsAreCounted

\* A client that waits for nothing has nothing in flight, unless it has died.
LEMMA NothingOnItsWay ==
    ASSUME IInv, waiting = NoRequest
    PROVE  /\ \A r \in inFlight : /\ r.stage # "answered" /\ r.id # NoRequest
                                  /\ r.id[1] <= runs
                                  /\ phase # "dead" => r.id[1] # runs
           /\ OnItsWay = {} /\ Cardinality(OnItsWay) = 0
<1>1. ASSUME NEW r \in inFlight PROVE r.id \in Ids /\ r.id # NoRequest
  <2>1. r.id \in Ids
    BY DEF IInv, TypeOK, RequestType
  <2> QED BY <2>1, DemoAssumption DEF Ids
<1>2. \A r \in inFlight : /\ r.stage # "answered" /\ r.id # NoRequest /\ r.id[1] <= runs
                          /\ phase # "dead" => r.id[1] # runs
  BY <1>1 DEF IInv, RequestsAreKnown
<1>3. OnItsWay = {}
  BY <1>2 DEF OnItsWay
<1> QED BY <1>2, <1>3, FS_EmptySet

\* Nor does a client wait when it does not run.
LEMMA OnlyRunsWait ==
    ASSUME IInv, phase # "running"
    PROVE  waiting = NoRequest
BY DEF IInv, WaitsForItsOwn

\* What a client waits for is the request of its statement.
LEMMA AwaitedRequest ==
    ASSUME IInv, waiting # NoRequest
    PROVE  /\ phase = "running" /\ waiting = <<runs, at>>
           /\ Now.does \in Writing \cup {"probe"} /\ at # Last
           /\ Base(at) < at /\ at <= Base(at) + Sends(at) /\ Midway
<1>1. phase = "running" /\ waiting = <<runs, at>> /\ Now.does \in Writing \cup {"probe"}
  BY DEF IInv, WaitsForItsOwn
<1>2. at \in 1 .. Last /\ Now = Script[at]
  BY Somewhere DEF IInv
<1>3. at # Last
  BY <1>1, <1>2, Positions DEF Writing
<1>4. Base(at) < at /\ at <= Base(at) + Sends(at)
  BY <1>1, <1>2, Positions
<1>5. at # Base(at)
  BY <1>2, <1>4, Positions
<1> QED BY <1>1, <1>3, <1>4, <1>5 DEF Midway

LEMMA StartRest ==
    ASSUME IInv, StartRun PROVE Rest'
<1>1. waiting = NoRequest
  BY OnlyRunsWait DEF StartRun
<1>2. /\ runs' = runs + 1 /\ phase' = "running" /\ at' = 1 /\ waiting' = NoRequest
      /\ refusals' = 0 /\ events'.own = 0 /\ inFlight' = inFlight
  BY <1>1 DEF StartRun, NewReport
<1>3. 1 \in 1 .. Last /\ Base(1) = 1 /\ Judged(1) = 0
  <2>1. UnitsAvailable \in Nat
    BY DemoAssumption
  <2>2. 1 <= Counter
    BY <2>1 DEF Counter
  <2>3. Last \in Nat /\ at \in 1 .. Last
    BY ScriptFacts, Somewhere DEF IInv
  <2> QED BY <2>2, <2>3 DEF Base, Judged
<1>4. runs \in Nat /\ \A r \in inFlight : r.id[1] \in Nat
  <2>1. runs \in 0 .. MaxRuns /\ MaxRuns \in Nat /\ inFlight \subseteq RequestType
    BY DemoAssumption DEF IInv, TypeOK
  <2>2. runs \in Nat
    BY ONLY <2>1
  <2> QED BY ONLY <2>1, <2>2 DEF RequestType, Ids
<1>5. WaitsForItsOwn'
  BY <1>2 DEF WaitsForItsOwn
<1>6. RequestsAreKnown'
  <2>1. \A r \in inFlight : r.id[1] <= runs /\ r.id # NoRequest /\ r.stage # "answered"
    BY <1>1, NothingOnItsWay
  <2>2. \A r \in inFlight : r.id[1] <= runs + 1 /\ r.id[1] # runs + 1
    BY <1>4, <2>1
  <2> QED BY <1>2, <2>1, <2>2 DEF RequestsAreKnown
<1>7. RefusalsAreExpected'
  BY <1>2, <1>3 DEF RefusalsAreExpected
<1>8. ~Midway'
  BY <1>2, <1>3 DEF Midway
<1>9. AnswersInOrder' /\ ConfirmedAreStored'
  BY <1>8 DEF AnswersInOrder, ConfirmedAreStored
<1>10. EventsAreCounted'
  BY <1>2, <1>3 DEF EventsAreCounted
<1> QED BY <1>5, <1>6, <1>7, <1>9, <1>10 DEF Rest

\* Seed, and what it leaves in flight.
LEMMA SeedRest ==
    ASSUME IInv, Seed PROVE Rest'
<1>0. at \in 1 .. Last /\ Now = Script[at] /\ waiting = NoRequest /\ Now.does = "seed"
  BY Somewhere DEF IInv, Seed, Runs
<1>1. /\ at' = at + 1 /\ answers' = <<>> /\ phase = "running"
      /\ UNCHANGED <<runs, phase, waiting, view, refusals, failed, inFlight, events>>
  BY DEF Seed, Runs, GoOn, report
<1>2. /\ at # Last /\ at = Base(at) /\ Sends(at) > 0 /\ Sends(at) \in Nat /\ at \in Nat
  BY <1>0, Positions
<1>3. /\ at + 1 \in 1 .. Last /\ Base(at + 1) = at /\ Name(at + 1) = Name(at)
      /\ Sends(at + 1) = Sends(at) /\ Judged(at + 1) = Judged(at)
  BY <1>0, <1>2, NextPosition
<1>4. WaitsForItsOwn'
  BY <1>0, <1>1 DEF WaitsForItsOwn
<1>5. RequestsAreKnown'
  BY <1>0, <1>1, NothingOnItsWay DEF RequestsAreKnown
<1>6. RefusalsAreExpected'
  BY <1>1, <1>3 DEF RefusalsAreExpected, IInv
<1>7. AnswersInOrder'
  <2>1. Len(answers') = 0 /\ DOMAIN answers' = {} /\ (at + 1) - at - 1 = 0
    BY <1>1, <1>2
  <2> QED BY <1>1, <1>2, <1>3, <2>1 DEF AnswersInOrder
<1>8. ConfirmedAreStored'
  BY <1>0, <1>1, NothingOnItsWay DEF ConfirmedAreStored
<1>9. EventsAreCounted'
  <2>1. Refused' = {} /\ OnItsWay' = {}
    BY <1>0, <1>1, NothingOnItsWay DEF Refused, OnItsWay
  <2>2. Cardinality(Refused') = 0 /\ Cardinality(OnItsWay') = 0
    BY <2>1, FS_EmptySet
  <2>3. failed = {} => events.own = Judged(at) + 0
    BY <1>1, <1>2 DEF EventsAreCounted, IInv
  <2> QED BY <1>1, <1>2, <1>3, <2>2, <2>3 DEF EventsAreCounted
<1> QED BY <1>4, <1>5, <1>6, <1>7, <1>8, <1>9 DEF Rest

LEMMA SendRest ==
    ASSUME IInv, Send PROVE Rest'
<1> DEFINE new == [id |-> <<runs, at>>, does |-> Now.does, stage |-> "received",
                   status |-> 0, balance |-> 0]
<1>0. at \in 1 .. Last /\ waiting = NoRequest /\ phase = "running"
      /\ Now.does \in Writing \cup {"probe"} /\ runs \in Nat
  <2>1. runs \in 0 .. MaxRuns /\ MaxRuns \in Nat
    BY DemoAssumption DEF IInv, TypeOK
  <2>2. runs \in Nat
    BY ONLY <2>1
  <2> QED BY <2>2, Somewhere DEF IInv, Send, Runs
<1>1. /\ waiting' = <<runs, at>> /\ inFlight' = inFlight \cup {new}
      /\ UNCHANGED <<runs, phase, at, answers, view, refusals, failed, store, events>>
  BY DEF Send, report
<1>2. new.id = <<runs, at>> /\ new.id[1] = runs /\ new.does = Now.does /\ new.stage = "received"
  OBVIOUS
<1> HIDE DEF new
<1>n. \A r \in inFlight : r.id # <<runs, at>> /\ r.id[1] # runs /\ r.stage # "answered"
                          /\ r.id[1] <= runs
  BY <1>0, NothingOnItsWay
<1>3. Now' = Now
  BY <1>1 DEF Now
<1>4. WaitsForItsOwn'
  BY <1>0, <1>1, <1>3 DEF WaitsForItsOwn
<1>5. RequestsAreKnown'
  BY <1>0, <1>1, <1>2, <1>3, <1>n DEF RequestsAreKnown
<1>6. RefusalsAreExpected' /\ AnswersInOrder'
  BY <1>1 DEF RefusalsAreExpected, AnswersInOrder, Midway, IInv
<1>7. ConfirmedAreStored'
  BY <1>1, <1>2, <1>3, <1>n DEF ConfirmedAreStored, Midway, Owners, IInv
<1>8. EventsAreCounted'
  <2>1. Refused' = Refused /\ OnItsWay' = OnItsWay
    BY <1>1, <1>2 DEF Refused, OnItsWay
  <2> QED BY <1>1, <2>1 DEF EventsAreCounted, IInv
<1> QED BY <1>4, <1>5, <1>6, <1>7, <1>8 DEF Rest

LEMMA ReceiveRest ==
    ASSUME IInv, Receive PROVE Rest'
<1>1. PICK r \in inFlight :
          /\ r.id = waiting /\ r.stage = "answered"
          /\ inFlight' = inFlight \ {r}
          /\ answers' = Append(answers, [id |-> r.id, status |-> r.status, balance |-> r.balance])
          /\ waiting' = NoRequest /\ at' = at + 1
          /\ UNCHANGED <<runs, phase, view, failed, refusals, store, events>>
  BY DEF Receive, report, GoOn
<1> DEFINE new == [id |-> r.id, status |-> r.status, balance |-> r.balance]
<1>2. new.id = r.id /\ new.status = r.status /\ new.balance = r.balance
  OBVIOUS
<1> HIDE DEF new
<1>3. waiting # NoRequest
  BY <1>1, DemoAssumption DEF IInv, TypeOK, RequestType, Ids
<1>4. /\ phase = "running" /\ waiting = <<runs, at>>
      /\ Now.does \in Writing \cup {"probe"} /\ at # Last
      /\ Base(at) < at /\ at <= Base(at) + Sends(at) /\ Midway
  BY <1>3, AwaitedRequest
<1>5. /\ at \in 1 .. Last /\ at \in Nat /\ Base(at) \in Nat /\ Sends(at) \in Nat
      /\ Now = Script[at] /\ Now.does # "judge"
  <2>1. at \in 1 .. Last /\ Now = Script[at]
    BY Somewhere DEF IInv
  <2> QED BY <2>1, <1>4, Positions DEF Writing
<1>6. /\ at + 1 \in 1 .. Last /\ Base(at + 1) = Base(at) /\ Name(at + 1) = Name(at)
      /\ Sends(at + 1) = Sends(at) /\ Judged(at + 1) = Judged(at)
  BY <1>4, <1>5, NextPosition
<1>7. answers \in Seq(AnswerType) /\ answers' = Append(answers, new)
  BY <1>1 DEF IInv, TypeOK, new
<1>8. Len(answers) = at - Base(at) - 1 /\ Len(answers) \in Nat
  BY <1>4, <1>5, <1>7 DEF IInv, AnswersInOrder
<1>9. /\ Len(answers') = at - Base(at) /\ DOMAIN answers' = 1 .. (at - Base(at))
      /\ DOMAIN answers = 1 .. (at - Base(at) - 1)
      /\ \A i \in DOMAIN answers : i \in DOMAIN answers' /\ answers'[i] = answers[i]
      /\ answers'[at - Base(at)] = new
      /\ \A i \in DOMAIN answers' : i \in DOMAIN answers \/ i = at - Base(at)
  <2>1. Len(answers') = Len(answers) + 1 /\ answers'[Len(answers) + 1] = new
        /\ DOMAIN answers' = 1 .. (Len(answers) + 1) /\ DOMAIN answers = 1 .. Len(answers)
        /\ \A i \in 1 .. Len(answers) : answers'[i] = answers[i]
    BY <1>7
  <2>2. Len(answers) + 1 = at - Base(at)
    BY <1>5, <1>8
  <2> HIDE DEF new
  <2> QED BY ONLY <2>1, <2>2, <1>5, <1>8
<1>a. \A q \in inFlight' : q # r /\ q \in inFlight /\ q.stage # "answered" /\ q.id[1] # runs
  <2>1. \A q \in inFlight : q.id = waiting => q = r
    BY <1>1 DEF IInv, RequestsAreKnown
  <2> QED BY <1>1, <1>4, <2>1 DEF IInv, RequestsAreKnown
<1>b. ASSUME NEW q \in inFlight' PROVE q.id # NoRequest
  <2>1. q.id \in Ids
    BY <1>a DEF IInv, TypeOK, RequestType
  <2> QED BY <2>1, DemoAssumption DEF Ids
<1>10. WaitsForItsOwn'
  BY <1>1 DEF WaitsForItsOwn
<1>11. RequestsAreKnown'
  BY <1>1, <1>a, <1>b DEF IInv, RequestsAreKnown
<1>12. RefusalsAreExpected'
  BY <1>1, <1>4, <1>6 DEF RefusalsAreExpected, IInv
<1>13. AnswersInOrder'
  <2>1. \A i \in DOMAIN answers' : answers'[i].id = <<runs, Base(at) + i>>
    <3>1. \A i \in DOMAIN answers : answers[i].id = <<runs, Base(at) + i>>
      BY <1>4 DEF IInv, AnswersInOrder
    <3>2. new.id = <<runs, Base(at) + (at - Base(at))>>
      BY <1>1, <1>2, <1>4, <1>5
    <3> QED BY <1>9, <3>1, <3>2
  <2>2. Len(answers') = IF (at + 1) - Base(at) - 1 < Sends(at) THEN (at + 1) - Base(at) - 1
                        ELSE Sends(at)
    BY <1>4, <1>5, <1>9
  <2> QED BY <1>1, <1>6, <2>1, <2>2 DEF AnswersInOrder
<1>14. ConfirmedAreStored'
  <2>1. at + 1 # Last /\ Script[at + 1].does # "judge"
    <3>1. Last \in 1 .. Last /\ Base(Last) = Last
      BY <1>5, Positions, ScriptFacts
    <3>2. at + 1 # Last
      BY <1>4, <1>5, <1>6, <3>1
    <3>3. at + 1 # Base(at) + Sends(at) + 2
      BY <1>4, <1>5
    <3> QED BY <1>6, <3>2, <3>3, Positions
  <2>2. ASSUME Name(at) # "credentials", NEW i \in DOMAIN answers', answers'[i].status = 201
        PROVE  answers'[i].id \in Owners(store)
    <3>1. CASE i \in DOMAIN answers
      BY <1>4, <1>9, <2>2, <3>1 DEF IInv, ConfirmedAreStored
    <3>2. CASE i = at - Base(at)
      BY <1>1, <1>2, <1>4, <1>9, <2>2, <3>2 DEF IInv, ConfirmedAreStored
    <3> QED BY <1>9, <3>1, <3>2
  <2>3. Owners(store)' = Owners(store) /\ Now' = Script[at + 1] /\ Name(at') = Name(at)
    BY <1>1, <1>6 DEF Owners, Now
  <2> QED BY <1>1, <1>a, <2>1, <2>2, <2>3 DEF ConfirmedAreStored
<1>15. EventsAreCounted'
  <2>1. CASE r.status = 409
    <3>1. OnItsWay = {r} /\ OnItsWay' = {}
      BY <1>1, <1>a, <2>1 DEF OnItsWay
    <3>2. Refused' = Refused \cup {at - Base(at)} /\ at - Base(at) \notin Refused
      <4>1. \A i \in DOMAIN answers' : answers'[i].status = 409
                <=> (i \in DOMAIN answers /\ answers[i].status = 409) \/ i = at - Base(at)
        BY <1>2, <1>9, <2>1
      <4>2. at - Base(at) \in DOMAIN answers' /\ at - Base(at) \notin DOMAIN answers
        BY <1>4, <1>5, <1>9
      <4>3. \A i \in DOMAIN answers : i \in DOMAIN answers'
        BY <1>9
      <4> HIDE DEF new
      <4> QED BY ONLY <4>1, <4>2, <4>3 DEF Refused
    <3>3. IsFiniteSet(Refused)
      <4>1. IsFiniteSet(1 .. (at - Base(at) - 1))
        BY <1>5, FS_Interval
      <4>2. Refused \subseteq 1 .. (at - Base(at) - 1)
        BY <1>9 DEF Refused
      <4> QED BY <4>1, <4>2, FS_Subset
    <3>4. Cardinality(Refused') = Cardinality(Refused) + 1
      BY <3>2, <3>3, FS_AddElement
    <3>5. Cardinality(OnItsWay) = 1 /\ Cardinality(OnItsWay') = 0
      BY <3>1, FS_Singleton, FS_EmptySet
    <3>6. Cardinality(Refused) \in Nat
      BY <3>3, FS_CardinalityType
    <3>7. Cardinality(Refused') + Cardinality(OnItsWay')
              = Cardinality(Refused) + Cardinality(OnItsWay)
      BY <3>4, <3>5, <3>6
    <3>8. at # Base(at) /\ at + 1 # Base(at)
      BY <1>4, <1>5
    <3> QED BY <1>1, <1>4, <1>6, <3>7, <3>8 DEF EventsAreCounted, IInv
  <2>2. CASE r.status # 409
    <3>1. OnItsWay = {} /\ OnItsWay' = {}
      BY <1>1, <1>a, <2>2 DEF OnItsWay
    <3>2. Refused' = Refused
      BY <1>2, <1>5, <1>9, <2>2 DEF Refused
    <3>3. at # Base(at) /\ at + 1 # Base(at)
      BY <1>4, <1>5
    <3> QED BY <1>1, <1>4, <1>6, <3>1, <3>2, <3>3 DEF EventsAreCounted, IInv
  <2> QED BY <2>1, <2>2
<1> QED BY <1>10, <1>11, <1>12, <1>13, <1>14, <1>15 DEF Rest

LEMMA ReadBackRest ==
    ASSUME IInv, ReadBack PROVE Rest'
<1>0. /\ at \in 1 .. Last /\ Now = Script[at] /\ waiting = NoRequest
      /\ Now.does \in {"read_drop", "read_wallet"} /\ phase = "running"
  BY Somewhere DEF IInv, ReadBack, Runs
<1>1. /\ at' = at + 1 /\ (view' = store \/ view' = Unread)
      /\ UNCHANGED <<runs, phase, waiting, answers, failed, refusals, inFlight, store, events>>
  BY DEF ReadBack, GoOn, report
<1>2. /\ at # Last /\ at = Base(at) + Sends(at) + 1 /\ at \in Nat /\ Base(at) \in Nat
      /\ Sends(at) \in Nat /\ Now.does # "judge"
  BY <1>0, Positions
<1>3. /\ at + 1 \in 1 .. Last /\ Base(at + 1) = Base(at) /\ Name(at + 1) = Name(at)
      /\ Sends(at + 1) = Sends(at) /\ Judged(at + 1) = Judged(at)
  BY <1>0, <1>2, NextPosition
<1>4. Midway /\ at + 1 # Base(at) /\ at # Base(at)
      /\ ~(at - Base(at) - 1 < Sends(at)) /\ ~((at + 1) - Base(at) - 1 < Sends(at))
  BY <1>0, <1>2 DEF Midway
<1>5. WaitsForItsOwn'
  BY <1>0, <1>1 DEF WaitsForItsOwn
<1>6. RequestsAreKnown'
  BY <1>0, <1>1, NothingOnItsWay DEF RequestsAreKnown
<1>7. RefusalsAreExpected'
  BY <1>0, <1>1, <1>3 DEF RefusalsAreExpected, IInv
<1>8. AnswersInOrder'
  BY <1>1, <1>3, <1>4 DEF AnswersInOrder, IInv
<1>9. ConfirmedAreStored'
  <2>1. /\ Owners(store)' = Owners(store) /\ Name(at') = Name(at)
        /\ (view' # Unread => Owners(view)' = Owners(store))
    BY <1>1, <1>3 DEF Owners
  <2> QED BY <1>1, <1>4, <2>1 DEF ConfirmedAreStored, IInv
<1>10. EventsAreCounted'
  <2>1. Refused' = Refused /\ OnItsWay' = OnItsWay
    BY <1>1 DEF Refused, OnItsWay
  <2> QED BY <1>1, <1>3, <1>4, <2>1 DEF EventsAreCounted, IInv
<1> QED BY <1>5, <1>6, <1>7, <1>8, <1>9, <1>10 DEF Rest

LEMMA DeadRest ==
    ASSUME IInv, Dead PROVE Rest'
<1>1. /\ phase' = "dead" /\ waiting' = NoRequest
      /\ inFlight' = {r \in inFlight : r.stage # "answered"}
      /\ UNCHANGED <<runs, at, refusals>>
  BY DEF Dead, report
<1>2. ASSUME NEW r \in inFlight PROVE r.id # NoRequest
  <2>1. r.id \in Ids
    BY DEF IInv, TypeOK, RequestType
  <2> QED BY <2>1, DemoAssumption DEF Ids
<1>3. WaitsForItsOwn' /\ RefusalsAreExpected' /\ AnswersInOrder' /\ ConfirmedAreStored'
      /\ EventsAreCounted'
  BY <1>1 DEF WaitsForItsOwn, RefusalsAreExpected, AnswersInOrder, ConfirmedAreStored,
              EventsAreCounted, Midway, IInv
<1>4. RequestsAreKnown'
  BY <1>1, <1>2 DEF RequestsAreKnown, IInv
<1> QED BY <1>3, <1>4 DEF Rest

\* What other programs do to the store, and the gate, while no run is midway.
LEMMA OthersRest ==
    ASSUME IInv, Others \/ AuditGate PROVE Rest'
<1>1. /\ phase # "running"
      /\ UNCHANGED <<runs, phase, at, waiting, answers, failed, refusals, inFlight>>
  BY DEF Others, VulnerableRun, SecureRun, RestoreBaseline, AuditGate, Passed, client,
         application, report
<1>2. events'.own = events.own
  <2>1. events \in [own : Nat, others : Nat]
    BY DEF IInv, TypeOK
  <2>2. events' = events \/ events' = [events EXCEPT !.others = @ + 1]
    BY DEF Others, VulnerableRun, SecureRun, RestoreBaseline, AuditGate, application
  <2> QED BY ONLY <2>1, <2>2
<1>3. ~Midway'
  BY <1>1 DEF Midway
<1>4. AnswersInOrder' /\ ConfirmedAreStored'
  BY <1>3 DEF AnswersInOrder, ConfirmedAreStored
<1>5. WaitsForItsOwn' /\ RequestsAreKnown' /\ RefusalsAreExpected'
  BY <1>1 DEF WaitsForItsOwn, RequestsAreKnown, RefusalsAreExpected, Now, IInv
<1>6. EventsAreCounted'
  <2>1. Refused' = Refused /\ OnItsWay' = OnItsWay
    BY <1>1 DEF Refused, OnItsWay
  <2> QED BY <1>1, <1>2, <2>1 DEF EventsAreCounted, IInv
<1> QED BY <1>4, <1>5, <1>6 DEF Rest

LEMMA StutterRest == IInv /\ UNCHANGED vars => Rest'
<1> SUFFICES ASSUME IInv, UNCHANGED vars PROVE Rest'
  OBVIOUS
<1>1. UNCHANGED <<runs, phase, at, waiting, answers, view, failed, refusals, inFlight, store, events>>
  BY DEF vars, client, application, report
<1>2. WaitsForItsOwn' /\ RequestsAreKnown' /\ RefusalsAreExpected' /\ AnswersInOrder'
  BY <1>1 DEF WaitsForItsOwn, RequestsAreKnown, RefusalsAreExpected, AnswersInOrder, Midway,
              Now, IInv
<1>3. ConfirmedAreStored' /\ EventsAreCounted'
  BY <1>1 DEF ConfirmedAreStored, EventsAreCounted, Midway, Now, Owners, Refused, OnItsWay, IInv
<1> QED BY <1>2, <1>3 DEF Rest

------------------------------------------------------------------------------
(* Steps of the application. *)

\* A step of the application keeps the client as it is, and of the requests changes
\* one: it is on its way to being answered, or it is gone, since nobody waits for it.
Moves(r, t) ==
    /\ r \in inFlight
    /\ \/ inFlight' = inFlight \ {r} /\ r.id # waiting
       \/ /\ inFlight' = (inFlight \ {r}) \cup {t}
          /\ t.id = r.id /\ t.does = r.does
          /\ t.stage = "answered" => r.id = waiting /\ t.status \in Statuses
    /\ UNCHANGED <<runs, phase, at, waiting, answers, view, failed, refusals>>
    /\ store.orders \subseteq store'.orders /\ store.redemptions \subseteq store'.redemptions

LEMMA MovesRest ==
    ASSUME IInv, NEW r, NEW t, Moves(r, t),
           \* An answer 201 is about a row that is written.
           t.stage = "answered" /\ t.status = 201 =>
               /\ t.does = "order" => t.id \in store'.orders
               /\ t.does # "order" => t.does = "redeem" /\ t.id \in store'.redemptions
    PROVE  /\ WaitsForItsOwn' /\ RequestsAreKnown' /\ RefusalsAreExpected'
           /\ AnswersInOrder' /\ ConfirmedAreStored'
<1>1. /\ UNCHANGED <<runs, phase, at, waiting, answers, view, failed, refusals>>
      /\ \A q \in inFlight' : \/ q \in inFlight /\ q # r
                              \/ /\ q = t /\ t.id = r.id /\ t.does = r.does
                                 /\ t.stage = "answered" => r.id = waiting /\ t.status \in Statuses
      /\ r \in inFlight
  BY DEF Moves
<1>2. WaitsForItsOwn' /\ RefusalsAreExpected' /\ AnswersInOrder'
  BY <1>1 DEF WaitsForItsOwn, RefusalsAreExpected, AnswersInOrder, Midway, Now, IInv
<1>3. RequestsAreKnown'
  <2>1. Now' = Now
    BY <1>1 DEF Now
  <2>2. RequestsAreKnown
    BY DEF IInv
  <2> QED BY ONLY <1>1, <2>1, <2>2 DEF RequestsAreKnown
<1>4. ConfirmedAreStored'
  <2>1. Owners(store) \subseteq Owners(store)' /\ Owners(view)' = Owners(view)
        /\ Midway' = Midway /\ Now' = Now
    BY <1>1 DEF Moves, Owners, Midway, Now
  <2>2. ASSUME Midway, Name(at) # "credentials", NEW q \in inFlight',
               q.stage = "answered", q.status = 201
        PROVE  q.id \in Owners(store)'
    <3>1. CASE q \in inFlight
      BY <2>1, <2>2, <3>1 DEF ConfirmedAreStored, IInv
    <3>2. CASE q = t /\ t.id = r.id /\ t.does = r.does /\ r.id = waiting
      <4>1. t.does = Now.does
        BY <1>1, <3>2 DEF RequestsAreKnown, IInv
      <4>2. at \in 1 .. Last /\ Now = Script[at]
        BY Somewhere DEF IInv
      <4>3. /\ t.does = "order" => Name(at) \in {"conditional_write", "pessimistic_lock"}
            /\ t.does = "redeem" => Name(at) = "single-use"
        BY <4>1, <4>2, Chapters
      <4> QED BY <1>1, <2>2, <3>2, <4>3 DEF Owners
    <3> QED BY <1>1, <2>2, <3>1, <3>2
  <2>3. ConfirmedAreStored
    BY DEF IInv
  <2> QED BY <1>1, <2>1, <2>2, <2>3 DEF ConfirmedAreStored
<1> QED BY <1>2, <1>3, <1>4

\* The audit lines of a step that answers no request with a refusal.
LEMMA MovesQuietly ==
    ASSUME IInv, NEW r, NEW t, Moves(r, t),
           r.stage # "answered", ~(t.stage = "answered" /\ t.status = 409),
           events'.own = events.own
    PROVE  EventsAreCounted'
<1>1. UNCHANGED <<phase, at, answers, failed>> /\ OnItsWay' = OnItsWay
  BY DEF Moves, OnItsWay
<1>2. Refused' = Refused
  BY <1>1 DEF Refused
<1> QED BY <1>1, <1>2 DEF EventsAreCounted, IInv

LEMMA HandleRest ==
    ASSUME IInv, NEW r \in inFlight, Handle(r) PROVE Rest'
<1>0. r \in RequestType /\ store \in StoreType /\ r.stage = "received"
      /\ IsFiniteSet(store.orders) /\ IsFiniteSet(store.redemptions)
  BY DEF IInv, TypeOK, RowsAreFinite, Handle
<1>1. UNCHANGED <<runs, phase, at, waiting, answers, view, failed, refusals, events>>
  BY DEF Handle, client, report
<1>2. /\ store.orders \subseteq store'.orders /\ store.redemptions \subseteq store'.redemptions
  <2>1. store' = store \/ store' = Written(r)
    BY DEF Handle
  <2> QED BY <1>0, <2>1, WrittenFields
<1>3. PICK t : /\ Moves(r, t) /\ ~(t.stage = "answered" /\ t.status = 409)
               /\ t.stage = "answered" /\ t.status = 201 =>
                      /\ t.does = "order" => t.id \in store'.orders
                      /\ t.does # "order" => t.does = "redeem" /\ t.id \in store'.redemptions
  <2>1. CASE r.does = "probe"
    <3> DEFINE t == Told(r, 401, 0)
    <3>1. Answer(r, 401, 0) /\ 401 \in Statuses /\ 0 \in Nat
      BY <2>1 DEF Handle, Statuses
    <3>2. /\ t.id = r.id /\ t.does = r.does /\ t.stage = "answered" /\ t.status = 401
      BY <1>0, <3>1, ToldFields
    <3>3. \/ inFlight' = inFlight \ {r} /\ r.id # waiting
          \/ inFlight' = (inFlight \ {r}) \cup {t} /\ r.id = waiting
      BY <3>1, AnswerEffect DEF IInv
    <3> HIDE DEF t
    <3>4. Moves(r, t) \/ Moves(r, r)
      BY <1>1, <1>2, <1>0, <3>1, <3>2, <3>3 DEF Moves
    <3> QED BY <1>0, <3>2, <3>4
  <2>2. CASE r.does # "probe" /\ MayWrite(r)
    <3> DEFINE t == Told(r, 201, Cardinality(store'.redemptions))
    <3>1. store' = Written(r) /\ Answer(r, 201, Cardinality(store'.redemptions)) /\ 201 \in Statuses
      BY <2>2 DEF Handle, Statuses
    <3>2. Cardinality(store'.redemptions) \in Nat
      BY <1>0, <3>1, WrittenFields, FS_CardinalityType
    <3>3. /\ t.id = r.id /\ t.does = r.does /\ t.stage = "answered" /\ t.status = 201
      BY <1>0, <3>1, <3>2, ToldFields
    <3>4. \/ inFlight' = inFlight \ {r} /\ r.id # waiting
          \/ inFlight' = (inFlight \ {r}) \cup {t} /\ r.id = waiting
      BY <3>1, <3>2, AnswerEffect DEF IInv
    <3> HIDE DEF t
    <3>5. Moves(r, t) \/ Moves(r, r)
      BY <1>1, <1>2, <1>0, <3>1, <3>3, <3>4 DEF Moves
    <3>6. /\ r.does = "order" => r.id \in store'.orders
          /\ r.does # "order" => r.does = "redeem" /\ r.id \in store'.redemptions
      BY <1>0, <2>2, <3>1, WrittenFields DEF RequestType, Writing
    <3> QED BY <1>0, <3>3, <3>5, <3>6
  <2>3. CASE r.does # "probe" /\ ~MayWrite(r)
    <3> DEFINE t == [r EXCEPT !.stage = "refusing"]
    <3>1. inFlight' = (inFlight \ {r}) \cup {t}
      BY <2>3 DEF Handle, Refuse
    <3>2. t.id = r.id /\ t.does = r.does /\ t.stage = "refusing"
      BY <1>0, RefusingFields
    <3> HIDE DEF t
    <3>3. Moves(r, t)
      BY <1>1, <1>2, <3>1, <3>2 DEF Moves
    <3> QED BY <3>2, <3>3
  <2> QED BY <2>1, <2>2, <2>3
<1>4. EventsAreCounted'
  BY <1>0, <1>1, <1>3, MovesQuietly
<1>5. WaitsForItsOwn' /\ RequestsAreKnown' /\ RefusalsAreExpected' /\ AnswersInOrder'
      /\ ConfirmedAreStored'
  BY <1>3, MovesRest
<1> QED BY <1>4, <1>5 DEF Rest

LEMMA FailRest ==
    ASSUME IInv, NEW r \in inFlight, Fail(r) PROVE Rest'
<1>0. r \in RequestType /\ store \in StoreType /\ r.stage = "received"
      /\ IsFiniteSet(store.orders) /\ IsFiniteSet(store.redemptions)
  BY DEF IInv, TypeOK, RowsAreFinite, Fail
<1>1. UNCHANGED <<runs, phase, at, waiting, answers, view, failed, refusals, events>>
  BY DEF Fail, client, report
<1>2. /\ store.orders \subseteq store'.orders /\ store.redemptions \subseteq store'.redemptions
  <2>1. store' = store \/ store' = Written(r)
    BY DEF Fail
  <2> QED BY <1>0, <2>1, WrittenFields
<1> DEFINE t == Told(r, 503, 0)
<1>3. Answer(r, 503, 0) /\ 503 \in Statuses /\ 0 \in Nat
  BY DEF Fail, Statuses
<1>4. /\ t.id = r.id /\ t.does = r.does /\ t.stage = "answered" /\ t.status = 503
  BY <1>0, <1>3, ToldFields
<1>5. \/ inFlight' = inFlight \ {r} /\ r.id # waiting
      \/ inFlight' = (inFlight \ {r}) \cup {t} /\ r.id = waiting
  BY <1>3, AnswerEffect DEF IInv
<1> HIDE DEF t
<1>6. PICK s \in {r, t} : Moves(r, s)
  BY <1>0, <1>1, <1>2, <1>3, <1>4, <1>5 DEF Moves
<1>7. ~(s.stage = "answered" /\ s.status \in {201, 409})
  BY <1>0, <1>4, <1>6
<1>8. EventsAreCounted'
  BY <1>0, <1>1, <1>6, <1>7, MovesQuietly
<1>9. WaitsForItsOwn' /\ RequestsAreKnown' /\ RefusalsAreExpected' /\ AnswersInOrder'
      /\ ConfirmedAreStored'
  BY <1>6, <1>7, MovesRest
<1> QED BY <1>8, <1>9 DEF Rest

\* An audit line is written just before the answer that it is about.
LEMMA EmitRest ==
    ASSUME IInv, NEW r \in inFlight, EmitRefusal(r) PROVE Rest'
<1>0. r \in RequestType /\ r.stage = "refusing" /\ events \in [own : Nat, others : Nat]
  BY DEF IInv, TypeOK, EmitRefusal
<1>1. UNCHANGED <<runs, phase, at, waiting, answers, view, failed, refusals, store>>
  BY DEF EmitRefusal, client, report
<1> DEFINE t == Told(r, 409, 0)
<1>3. Answer(r, 409, 0) /\ 409 \in Statuses /\ 0 \in Nat
  BY DEF EmitRefusal, Statuses
<1>4. /\ t.id = r.id /\ t.does = r.does /\ t.stage = "answered" /\ t.status = 409
  BY <1>0, <1>3, ToldFields
<1>5. \/ inFlight' = inFlight \ {r} /\ r.id # waiting
      \/ inFlight' = (inFlight \ {r}) \cup {t} /\ r.id = waiting
  BY <1>3, AnswerEffect DEF IInv
<1> HIDE DEF t
<1>6. \E s \in {r, t} : Moves(r, s)
  BY <1>0, <1>1, <1>3, <1>4, <1>5 DEF Moves
<1>7. WaitsForItsOwn' /\ RequestsAreKnown' /\ RefusalsAreExpected' /\ AnswersInOrder'
      /\ ConfirmedAreStored'
  <2>1. PICK s \in {r, t} : Moves(r, s)
    BY <1>6
  <2>2. ~(s.stage = "answered" /\ s.status = 201)
    BY <1>0, <1>4, <2>1
  <2> QED BY <2>1, <2>2, MovesRest
<1>8. EventsAreCounted'
  <2>1. CASE r.id[1] = runs /\ phase \in {"running", "over"}
    <3>1. r.id = waiting /\ \A q \in inFlight : q.stage = "answered" => q = r
      BY <2>1 DEF IInv, RequestsAreKnown
    <3>2. OnItsWay = {} /\ OnItsWay' = {t}
      BY <1>0, <1>4, <1>5, <3>1 DEF OnItsWay
    <3>3. Cardinality(OnItsWay) = 0 /\ Cardinality(OnItsWay') = 1
      BY <3>2, FS_EmptySet, FS_Singleton
    <3>4. at # Base(at)
      <4>1. waiting # NoRequest
        BY <1>0, <3>1, DemoAssumption DEF RequestType, Ids
      <4> QED BY <4>1, AwaitedRequest DEF Midway
    <3>5. events'.own = events.own + 1 /\ Refused' = Refused
      BY <1>0, <1>1, <2>1 DEF EmitRefusal, Refused
    <3>6. Cardinality(Refused) \in Nat
      <4>1. IsFiniteSet(1 .. Len(answers)) /\ Refused \subseteq 1 .. Len(answers)
        <5>1. answers \in Seq(AnswerType)
          BY DEF IInv, TypeOK
        <5>2. Len(answers) \in Nat /\ DOMAIN answers = 1 .. Len(answers)
          BY <5>1
        <5> QED BY <5>2, FS_Interval DEF Refused
      <4> QED BY <4>1, FS_Subset, FS_CardinalityType
    <3>7. Judged(at) \in Nat
      <4>1. Judged(at) \in 0 .. 3
        BY Somewhere, Chapters DEF IInv
      <4> QED BY ONLY <4>1
    <3>8. failed = {} => events.own = Judged(at) + (Cardinality(Refused) + 0)
      BY <2>1, <3>3, <3>4 DEF EventsAreCounted, IInv
    <3>9. failed = {} => events'.own = Judged(at) + (Cardinality(Refused) + 1)
      BY ONLY <3>5, <3>6, <3>7, <3>8
    <3> QED BY <1>1, <3>3, <3>4, <3>5, <3>9 DEF EventsAreCounted
  <2>2. CASE r.id[1] # runs
    <3>1. r.id # waiting
      BY <1>0, <2>2, DemoAssumption DEF IInv, WaitsForItsOwn, RequestType, Ids
    <3>2. OnItsWay' = OnItsWay /\ Refused' = Refused
      BY <1>0, <1>1, <1>5, <3>1 DEF OnItsWay, Refused
    <3>3. events'.own = events.own
      BY <1>0, <2>2 DEF EmitRefusal
    <3> QED BY <1>1, <3>2, <3>3 DEF EventsAreCounted, IInv
  <2>3. CASE phase \notin {"running", "over"}
    BY <1>1, <2>3 DEF EventsAreCounted
  <2> QED BY <2>1, <2>2, <2>3
<1> QED BY <1>7, <1>8 DEF Rest

------------------------------------------------------------------------------
(* Steps of the judge. *)

LEMMA NoCheckFails ==
    ASSUME NEW checks, Failing(checks) = {}
    PROVE  \A d \in DOMAIN checks : ~checks[d]
BY DEF Failing

LEMMA CounterPasses ==
    ASSUME Failing(CounterChecks) = {}
    PROVE  /\ \A i \in 1 .. UnitsAvailable : answers[i].status = 201
           /\ answers[UnitsAvailable + 1].status = 409
           /\ view.sold = UnitsAvailable /\ Cardinality(view.orders) = UnitsAvailable
<1>1. \A d \in DOMAIN CounterChecks : ~CounterChecks[d]
  BY NoCheckFails
<1>2. ~(\E i \in 1 .. UnitsAvailable : ~Answered(i, 201))
  BY <1>1 DEF CounterChecks
<1>3. Answered(UnitsAvailable + 1, 409)
  BY <1>1 DEF CounterChecks
<1>4. ~(view.sold # UnitsAvailable \/ Cardinality(view.orders) # UnitsAvailable)
  BY <1>1 DEF CounterChecks
<1> QED BY <1>2, <1>3, <1>4 DEF Answered

LEMMA RedemptionPasses ==
    ASSUME Failing(RedemptionChecks) = {}
    PROVE  /\ answers[1].status = 201 /\ answers[2].status = 409
           /\ Cardinality(view.redemptions) = 1
<1>1. \A d \in DOMAIN RedemptionChecks : ~RedemptionChecks[d]
  BY NoCheckFails
<1>2. Answered(1, 201) /\ answers[1].balance = 1
  BY <1>1 DEF RedemptionChecks
<1>3. Answered(2, 409)
  BY <1>1 DEF RedemptionChecks
<1>4. Cardinality(view.redemptions) = 1
  BY <1>1 DEF RedemptionChecks
<1> QED BY <1>2, <1>3, <1>4 DEF Answered

LEMMA CredentialsPass ==
    ASSUME Failing(CredentialChecks) = {}
    PROVE  \A i \in 1 .. BadCredentials : answers[i].status = 401
<1>1. \A d \in DOMAIN CredentialChecks : ~CredentialChecks[d]
  BY NoCheckFails
<1>2. ~(\E i \in 1 .. BadCredentials : ~Answered(i, 401))
  BY <1>1 DEF CredentialChecks
<1> QED BY <1>2 DEF Answered

\* When the checks of a scenario pass its refusals are one, or with credentials none.
LEMMA RefusedOnce ==
    ASSUME IInv, Judge, failed' = {}, at # Last
    PROVE  /\ failed = {}
           /\ Cardinality(Refused) = IF Name(at) = "credentials" THEN 0 ELSE 1
<1>0. /\ at \in 1 .. Last /\ Now = Script[at] /\ phase = "running" /\ Now.does = "judge"
      /\ Now.scenario = Name(at)
  <2>1. at \in 1 .. Last /\ Now = Script[at]
    BY Somewhere DEF IInv
  <2> QED BY <2>1, Positions DEF Judge, Runs
<1>1. DOMAIN answers = 1 .. Sends(at)
  BY <1>0, AtJudge
<1>2. UnitsAvailable \in Nat /\ BadCredentials \in Nat
  BY DemoAssumption
<1>3. Name(at) \in Scenarios /\ Name(at) # "no oracle"
  BY <1>0, Chapters
<1>4. CASE Name(at) \in {"conditional_write", "pessimistic_lock"}
  <2>1. failed' = failed \cup Failing(CounterChecks)
    BY <1>0, <1>4 DEF Judge
  <2>2. Sends(at) = UnitsAvailable + 1
    BY <1>0, <1>4, Chapters
  <2>3. /\ \A i \in 1 .. UnitsAvailable : answers[i].status = 201
        /\ answers[UnitsAvailable + 1].status = 409
    BY <2>1, CounterPasses
  <2>4. Refused = {UnitsAvailable + 1}
    BY <1>1, <1>2, <2>2, <2>3 DEF Refused
  <2> QED BY <1>4, <2>1, <2>4, FS_Singleton
<1>5. CASE Name(at) = "single-use"
  <2>1. failed' = failed \cup Failing(RedemptionChecks)
    BY <1>0, <1>5 DEF Judge
  <2>2. Sends(at) = 2
    BY <1>0, <1>5, Chapters
  <2>3. answers[1].status = 201 /\ answers[2].status = 409
    BY <2>1, RedemptionPasses
  <2>4. Refused = {2}
    BY <1>1, <2>2, <2>3 DEF Refused
  <2> QED BY <1>5, <2>1, <2>4, FS_Singleton
<1>6. CASE Name(at) = "credentials"
  <2>1. failed' = failed \cup Failing(CredentialChecks)
    BY <1>0, <1>6 DEF Judge
  <2>2. Sends(at) = BadCredentials
    BY <1>0, <1>6, Chapters
  <2>3. \A i \in 1 .. BadCredentials : answers[i].status = 401
    BY <2>1, CredentialsPass
  <2>4. Refused = {}
    BY <1>1, <2>2, <2>3 DEF Refused
  <2> QED BY <1>6, <2>1, <2>4, FS_EmptySet
<1> QED BY <1>3, <1>4, <1>5, <1>6 DEF Scenarios

LEMMA JudgeRest ==
    ASSUME IInv, Judge PROVE Rest'
<1>0. /\ at \in 1 .. Last /\ Now = Script[at] /\ phase = "running" /\ Now.does = "judge"
      /\ Now.scenario = Name(at) /\ waiting = NoRequest
  <2>1. at \in 1 .. Last /\ Now = Script[at]
    BY Somewhere DEF IInv
  <2> QED BY <2>1, Positions DEF Judge, Runs
<1>1. /\ UNCHANGED <<runs, waiting, answers, inFlight, events>>
      /\ failed' = {} => failed = {}
      /\ \/ at = Last /\ phase' = "over" /\ at' = at
         \/ at # Last /\ phase' = "running" /\ at' = at + 1
  <2>1. UNCHANGED <<runs, waiting, answers, inFlight, events>>
    BY DEF Judge, application
  <2>2. failed' = {} => failed = {}
    BY DEF Judge
  <2>3. \/ at = Last /\ phase' = "over" /\ at' = at
        \/ at # Last /\ phase' = "running" /\ at' = at + 1
    BY <1>0, ScriptFacts DEF Judge, GoOn
  <2> QED BY <2>1, <2>2, <2>3
<1>2. /\ at = Last => Base(at) = at
      /\ at # Last => /\ Base(at + 1) = at + 1 /\ at # Base(at)
                      /\ Judged(at + 1) = IF Name(at) = "credentials" THEN Judged(at)
                                          ELSE Judged(at) + 1
  <2>1. at # Last => at # Base(at)
    BY <1>0, AtJudge DEF Midway
  <2> QED BY <1>0, <2>1, Positions, NextPosition
<1>3. WaitsForItsOwn'
  BY <1>0, <1>1 DEF WaitsForItsOwn
<1>4. RequestsAreKnown'
  BY <1>0, <1>1, NothingOnItsWay DEF RequestsAreKnown
<1>5. RefusalsAreExpected'
  <2>1. Name(at) = "no oracle" <=> at = Last
    BY <1>0, Chapters
  <2>2. refusals' = IF Name(at) \in {"credentials", "no oracle"} THEN refusals ELSE refusals + 1
    BY <1>0 DEF Judge, RememberRefusal
  <2> QED BY <1>1, <1>2, <2>1, <2>2 DEF RefusalsAreExpected, IInv
<1>6. ~Midway'
  BY <1>1, <1>2 DEF Midway
<1>7. AnswersInOrder' /\ ConfirmedAreStored'
  BY <1>6 DEF AnswersInOrder, ConfirmedAreStored
<1>8. EventsAreCounted'
  <2>1. CASE at = Last
    BY <1>0, <1>1, <1>2, <2>1 DEF EventsAreCounted, IInv
  <2>2. CASE at # Last /\ failed' = {}
    <3>1. Cardinality(Refused) = IF Name(at) = "credentials" THEN 0 ELSE 1
      BY <2>2, RefusedOnce
    <3>2. Cardinality(OnItsWay) = 0
      BY <1>0, NothingOnItsWay
    <3>3. events.own = Judged(at) + (Cardinality(Refused) + Cardinality(OnItsWay))
      BY <1>0, <1>1, <1>2, <2>2 DEF EventsAreCounted, IInv
    <3>4. Judged(at) \in 0 .. 3
      BY <1>0, Chapters
    <3>5. events.own = IF Name(at) = "credentials" THEN Judged(at) ELSE Judged(at) + 1
      BY ONLY <3>1, <3>2, <3>3, <3>4
    <3>6. events'.own = Judged(at + 1) + 0
      <4>1. Judged(at + 1) \in 0 .. 3
        BY <1>0, <2>2, NextPosition, Chapters
      <4> QED BY ONLY <1>1, <1>2, <2>2, <3>5, <4>1
    <3> QED BY <1>1, <1>2, <2>2, <3>6 DEF EventsAreCounted
  <2>3. CASE failed' # {}
    BY <2>3 DEF EventsAreCounted
  <2> QED BY <2>1, <2>2, <2>3
<1> QED BY <1>3, <1>4, <1>5, <1>7, <1>8 DEF Rest

------------------------------------------------------------------------------
(* The theorems. *)

LEMMA NextIInv == IInv /\ [Next]_vars => IInv'
<1> SUFFICES ASSUME IInv, [Next]_vars PROVE IInv'
  OBVIOUS
<1>1. TypeOK' /\ RowsAreFinite'
  BY NextType
<1>2. Rest'
  <2>1. CASE Client
    BY <2>1, SeedRest, SendRest, ReceiveRest, ReadBackRest, JudgeRest DEF Client
  <2>2. CASE Application
    BY <2>2, HandleRest, EmitRest, FailRest DEF Application
  <2>3. CASE StartRun \/ TimeOut \/ Die
    BY <2>3, StartRest, DeadRest DEF TimeOut, Die
  <2>4. CASE Others \/ AuditGate
    BY <2>4, OthersRest
  <2>5. CASE UNCHANGED vars
    BY <2>5, StutterRest
  <2> QED BY <2>1, <2>2, <2>3, <2>4, <2>5 DEF Next
<1> QED BY <1>1, <1>2 DEF Rest, IInv

\* The invariant of the demonstration holds throughout: what the client waits for, what
\* is in flight, what it was told, what the store has of that, and the audit lines.
THEOREM DemoInvariance == Spec => []IInv
<1>1. Init => IInv
  BY InitIInv
<1>2. IInv /\ [Next]_vars => IInv'
  BY NextIInv
<1> QED BY <1>1, <1>2, PTL DEF Spec

\* Every variable of the demonstration keeps its type, the statements of the script are
\* never run over, and the summary never has more than its three refusals.
THEOREM DemoTypeCorrect == Spec => []TypeOK
<1>1. IInv => TypeOK
  BY DEF IInv
<1> QED BY <1>1, DemoInvariance, PTL

\* The rows of a scenario whose numbers are right are its own: those it was told were
\* written are among them, and there are as many.
LEMMA ConfirmedFacts ==
    ASSUME IInv, Runs({"judge"}), at # Last,
           NEW m \in Nat, m <= Sends(at),
           \A i \in 1 .. Sends(at) : answers[i].status = 201 <=> i <= m,
           Name(at) # "credentials", IsFiniteSet(Owners(view)), Cardinality(Owners(view)) = m,
           m # 0
    PROVE  Owners(view) = {answers[i].id : i \in {j \in DOMAIN answers : Answered(j, 201)}}
<1> DEFINE confirmed == {answers[i].id : i \in {j \in DOMAIN answers : Answered(j, 201)}}
           numbered == Numbered(runs, Base(at), 1, m)
<1>0. phase = "running" /\ Now.does = "judge" /\ at \in 1 .. Last
  BY Somewhere DEF IInv, Runs
<1>1. /\ Midway /\ DOMAIN answers = 1 .. Sends(at)
      /\ \A i \in 1 .. Sends(at) : answers[i].id = <<runs, Base(at) + i>>
  BY <1>0, AtJudge
<1>2. runs \in Nat /\ Base(at) \in Nat /\ Sends(at) \in Nat
  <2>1. runs \in 0 .. MaxRuns /\ MaxRuns \in Nat
    BY DemoAssumption DEF IInv, TypeOK
  <2>2. runs \in Nat
    BY ONLY <2>1
  <2> QED BY <1>0, <2>2, Positions
<1>3. confirmed = numbered
  <2>1. ASSUME NEW i \in DOMAIN answers, Answered(i, 201)
        PROVE  i \in 1 .. m /\ answers[i].id = <<runs, Base(at) + i>>
    BY <1>1, <1>2, <2>1 DEF Answered
  <2>2. ASSUME NEW i \in 1 .. m
        PROVE  i \in DOMAIN answers /\ Answered(i, 201) /\ answers[i].id = <<runs, Base(at) + i>>
    BY <1>1, <1>2 DEF Answered
  <2> QED BY <2>1, <2>2 DEF Numbered
<1>4. IsFiniteSet(numbered) /\ Cardinality(numbered) = m
  <2>1. 1 \in Nat /\ 1 \in Int /\ m \in Int /\ m \in Nat
    OBVIOUS
  <2>2. Cardinality(1 .. m) = IF 1 > m THEN 0 ELSE m - 1 + 1
    BY ONLY <2>1, FS_Interval
  <2>3. Cardinality(1 .. m) = m
    BY <2>2
  <2>4. IsFiniteSet(numbered) /\ Cardinality(numbered) = Cardinality(1 .. m)
    BY ONLY <1>2, <2>1, NumberedFacts
  <2> QED BY ONLY <2>3, <2>4
<1> HIDE DEF numbered
<1>5. view # Unread
  <2>1. Cardinality(Owners(Unread)) = 0
    BY FS_EmptySet DEF Owners, Unread
  <2> QED BY <2>1
<1>6. confirmed \subseteq Owners(view)
  BY <1>0, <1>1, <1>5 DEF ConfirmedAreStored, IInv, Answered
<1> HIDE DEF confirmed
<1>7. numbered \in SUBSET Owners(view)
  BY <1>3, <1>6
<1>8. numbered = Owners(view)
  BY <1>4, <1>7, FS_Subset
<1> QED BY <1>3, <1>8 DEF confirmed

\* No request of somebody else stands in for one of this run: when the checks of a
\* scenario pass, which compare numbers, the rows counted in the store's view are those of
\* exactly the requests this run was told were confirmed.
THEOREM ConfirmedAreOwn == Spec => []ConfirmedAreItsOwn
<1>1. ASSUME IInv PROVE ConfirmedAreItsOwn
  <2> SUFFICES ASSUME Runs({"judge"})
               PROVE  /\ Now.scenario \in {"conditional_write", "pessimistic_lock"} =>
                             (Failing(CounterChecks) = {} => view.orders =
                                  {answers[i].id : i \in {j \in DOMAIN answers : Answered(j, 201)}})
                      /\ Now.scenario = "single-use" =>
                             (Failing(RedemptionChecks) = {} => view.redemptions =
                                  {answers[i].id : i \in {j \in DOMAIN answers : Answered(j, 201)}})
    BY DEF ConfirmedAreItsOwn
  <2>0. at \in 1 .. Last /\ Now = Script[at] /\ Now.scenario = Name(at)
    <3>1. at \in 1 .. Last /\ Now = Script[at]
      BY <1>1, Somewhere DEF IInv
    <3> QED BY <3>1, Positions
  <2>f. IsFiniteSet(view.orders) /\ IsFiniteSet(view.redemptions)
    BY <1>1 DEF IInv, RowsAreFinite
  <2>1. ASSUME Name(at) \in {"conditional_write", "pessimistic_lock"}, Failing(CounterChecks) = {}
        PROVE  view.orders = {answers[i].id : i \in {j \in DOMAIN answers : Answered(j, 201)}}
    <3>1. Sends(at) = UnitsAvailable + 1 /\ at # Last /\ Owners(view) = view.orders
      BY <2>0, <2>1, Chapters DEF Owners
    <3>2. UnitsAvailable \in Nat \ {0}
      BY DemoAssumption
    <3>3. /\ \A i \in 1 .. UnitsAvailable : answers[i].status = 201
          /\ answers[UnitsAvailable + 1].status = 409
          /\ Cardinality(view.orders) = UnitsAvailable
      BY <2>1, CounterPasses
    <3>4. \A i \in 1 .. Sends(at) : answers[i].status = 201 <=> i <= UnitsAvailable
      BY <3>1, <3>2, <3>3
    <3>5. UnitsAvailable <= Sends(at)
      BY <3>1, <3>2
    <3> QED BY <1>1, <2>1, <2>f, <3>1, <3>2, <3>3, <3>4, <3>5, ConfirmedFacts
  <2>2. ASSUME Name(at) = "single-use", Failing(RedemptionChecks) = {}
        PROVE  view.redemptions = {answers[i].id : i \in {j \in DOMAIN answers : Answered(j, 201)}}
    <3>1. Sends(at) = 2 /\ at # Last /\ Owners(view) = view.redemptions
      BY <2>0, <2>2, Chapters DEF Owners
    <3>2. answers[1].status = 201 /\ answers[2].status = 409 /\ Cardinality(view.redemptions) = 1
      BY <2>2, RedemptionPasses
    <3>3. \A i \in 1 .. Sends(at) : answers[i].status = 201 <=> i <= 1
      BY <3>1, <3>2
    <3>4. 1 <= Sends(at) /\ 1 \in Nat /\ 1 # 0
      BY <3>1
    <3> QED BY <1>1, <2>2, <2>f, <3>1, <3>2, <3>3, <3>4, ConfirmedFacts
  <2> QED BY <2>0, <2>1, <2>2
<1> QED BY <1>1, DemoInvariance, PTL

\* The gate that follows a demonstration that passed is exact: three refusals were
\* expected and three audit lines of it written, whatever failed or was given up before,
\* so the gate passes if and only if the logs have no line of somebody else.
THEOREM GateIsExact == Spec => AuditGateIsExact
<1>1. ASSUME IInv, [Next]_vars PROVE [AuditGate => (gate' = "passed" <=> events.others = 0)]_vars
  <2> SUFFICES ASSUME AuditGate PROVE gate' = "passed" <=> events.others = 0
    OBVIOUS
  <2>1. phase = "over" /\ failed = {}
    BY DEF AuditGate, Passed
  <2>2. at = Last /\ refusals = Judged(at)
    BY <1>1, <2>1 DEF IInv, RefusalsAreExpected
  <2>3. at \in 1 .. Last
    BY <1>1, Somewhere DEF IInv
  <2>4. Base(at) = at /\ Judged(at) = 3
    BY <2>2, <2>3, Positions, Chapters
  <2>5. events.own = 3 + 0 /\ refusals = 3
    BY <1>1, <2>1, <2>2, <2>4 DEF IInv, EventsAreCounted
  <2>6. events.others \in Nat
    <3>1. events \in [own : Nat, others : Nat]
      BY <1>1 DEF IInv, TypeOK
    <3> QED BY ONLY <3>1
  <2>7. gate' = IF events.own + events.others = refusals THEN "passed" ELSE "failed"
    BY DEF AuditGate
  <2>8. events.own + events.others = refusals <=> events.others = 0
    BY ONLY <2>5, <2>6
  <2> QED BY ONLY <2>7, <2>8
<1> QED BY <1>1, DemoInvariance, PTL DEF Spec, AuditGateIsExact

------------------------------------------------------------------------------
(* Runs that have the store to themselves. *)

\* The rows of the first h requests, one request at a time.
LEMMA RowsFacts ==
    ASSUME NEW run \in Nat, NEW base \in Nat, NEW name, NEW constraints, NEW h \in Nat
    PROVE  /\ name = "credentials" => RowsOf(run, base, name, constraints, h) = {}
           /\ ~Granted(name, constraints, h + 1) =>
                  RowsOf(run, base, name, constraints, h + 1)
                      = RowsOf(run, base, name, constraints, h)
           /\ <<run, base + (h + 1)>> \notin RowsOf(run, base, name, constraints, h)
<1>1. name = "credentials" => RowsOf(run, base, name, constraints, h) = {}
  BY DEF RowsOf, Granted
<1>2. \A j \in 1 .. (h + 1) : j \in 1 .. h \/ j = h + 1
  OBVIOUS
<1>3. \A j \in 1 .. h : j \in 1 .. (h + 1)
  OBVIOUS
<1>4. ~Granted(name, constraints, h + 1) =>
          RowsOf(run, base, name, constraints, h + 1) = RowsOf(run, base, name, constraints, h)
  BY <1>2, <1>3 DEF RowsOf
<1>5. <<run, base + (h + 1)>> \notin RowsOf(run, base, name, constraints, h)
  BY DEF RowsOf
<1> QED BY <1>1, <1>4, <1>5

\* The first redemption of a code is granted whatever the constraints.
LEMMA RowsOfCode ==
    ASSUME NEW run, NEW base, NEW constraints, NEW h \in Nat
    PROVE  RowsOf(run, base, "single-use", constraints, h) = {} <=> h = 0
<1>1. Granted("single-use", constraints, 1)
  BY DEF Granted
<1>2. h # 0 => 1 \in 1 .. h
  OBVIOUS
<1>3. h = 0 => 1 .. h = {}
  OBVIOUS
<1> QED BY <1>1, <1>2, <1>3 DEF RowsOf

\* A counter scenario sells as many units as it has requests, up to those there are.
LEMMA UnitsSold ==
    ASSUME NEW run \in Nat, NEW base \in Nat, NEW h \in Nat, NEW constraints,
           NEW name \in {"conditional_write", "pessimistic_lock"}
    PROVE  /\ IsFiniteSet(RowsOf(run, base, name, constraints, h))
           /\ Cardinality(RowsOf(run, base, name, constraints, h))
                  = IF h <= UnitsAvailable THEN h ELSE UnitsAvailable
<1> DEFINE m == IF h <= UnitsAvailable THEN h ELSE UnitsAvailable
<1>1. m \in Nat /\ 1 \in Nat
  BY DemoAssumption
<1>2. {j \in 1 .. h : Granted(name, constraints, j)} = 1 .. m
  BY DemoAssumption DEF Granted
<1>3. RowsOf(run, base, name, constraints, h) = Numbered(run, base, 1, m)
  BY <1>2 DEF RowsOf, Numbered
<1>4. Cardinality(1 .. m) = m
  <2> HIDE DEF m
  <2>1. 1 \in Int /\ m \in Int
    BY <1>1
  <2>2. Cardinality(1 .. m) = IF 1 > m THEN 0 ELSE m - 1 + 1
    BY ONLY <2>1, FS_Interval
  <2> QED BY <1>1, <2>2
<1> HIDE DEF m
<1>5. IsFiniteSet(Numbered(run, base, 1, m))
      /\ Cardinality(Numbered(run, base, 1, m)) = Cardinality(1 .. m)
  BY <1>1, NumberedFacts
<1>6. IsFiniteSet(RowsOf(run, base, name, constraints, h))
      /\ Cardinality(RowsOf(run, base, name, constraints, h)) = m
  BY <1>3, <1>4, <1>5
<1> QED BY <1>6 DEF m

\* Such a run has at most the request in flight that it waits for.
LEMMA Idle ==
    ASSUME IInv, UInv, Undisturbed, waiting = NoRequest
    PROVE  inFlight = {} /\ Handled = Len(answers) /\ Len(answers) \in Nat
<1>1. inFlight = {}
  BY NothingOnItsWay DEF UInv
<1>2. answers \in Seq(AnswerType)
  BY DEF IInv, TypeOK
<1>3. Len(answers) \in Nat
  BY <1>2
<1> QED BY <1>1, <1>3 DEF Handled

LEMMA Busy ==
    ASSUME IInv, UInv, Undisturbed, NEW r \in inFlight
    PROVE  /\ inFlight = {r} /\ r.id = waiting /\ waiting # NoRequest /\ r \in RequestType
           /\ r.does = Now.does /\ Len(answers) \in Nat
           /\ r.stage = "received" => Handled = Len(answers)
           /\ r.stage # "received" => Handled = Len(answers) + 1
<1>1. \A q \in inFlight : q.id = waiting
  BY DEF UInv
<1>2. inFlight = {r} /\ r.does = Now.does
  BY <1>1 DEF IInv, RequestsAreKnown
<1>3. r \in RequestType /\ answers \in Seq(AnswerType)
  BY DEF IInv, TypeOK
<1>4. r.id \in Ids
  BY <1>3 DEF RequestType
<1>5. waiting # NoRequest
  BY <1>1, <1>4, DemoAssumption DEF Ids
<1>6. Len(answers) \in Nat
  BY <1>3
<1>7. /\ r.stage = "received" => Handled = Len(answers)
      /\ r.stage # "received" => Handled = Len(answers) + 1
  <2>1. (\E q \in inFlight : q.stage # "received") <=> r.stage # "received"
    BY <1>2
  <2> QED BY <1>6, <2>1 DEF Handled
<1> QED BY <1>1, <1>2, <1>3, <1>5, <1>6, <1>7

\* Verdicts change with the judge only.
LEMMA VerdictsKept ==
    ASSUME Verdicts, failed' = failed, refusal_responses' = refusal_responses,
           backstop' = backstop, Judged(at') = Judged(at)
    PROVE  Verdicts'
BY DEF Verdicts

LEMMA StartAlone ==
    ASSUME IInv, UInv, StartRun PROVE UInv'
<1>1. /\ phase' = "running" /\ at' = 1 /\ failed' = {} /\ inFlight' = inFlight
      /\ disturbed' = (inFlight # {})
  BY DEF StartRun, NewReport
<1>2. 1 = Base(1) /\ Judged(1) = 0
  <2>1. UnitsAvailable \in Nat
    BY DemoAssumption
  <2>2. 1 <= Counter
    BY <2>1 DEF Counter
  <2> QED BY <2>2 DEF Base, Judged
<1>3. Undisturbed' => inFlight' = {}
  BY <1>1 DEF Undisturbed
<1>4. Verdicts'
  <2>1. Judged(at') = 0 /\ failed' = {} /\ 0 # 3 /\ ~(0 > 0)
    BY <1>1, <1>2
  <2> QED BY ONLY <2>1 DEF Verdicts, VerdictsOf
<1> QED BY <1>1, <1>2, <1>3, <1>4 DEF UInv

LEMMA SeedAlone ==
    ASSUME IInv, UInv, Seed PROVE UInv'
<1> SUFFICES ASSUME Undisturbed' PROVE UInv'
  BY DEF UInv
<1>0. at \in 1 .. Last /\ Now = Script[at] /\ waiting = NoRequest /\ Now.does = "seed"
  BY Somewhere DEF IInv, Seed, Runs
<1>1. /\ at' = at + 1 /\ answers' = <<>> /\ store' = Empty
      /\ UNCHANGED <<runs, phase, waiting, view, disturbed, refusal_responses, failed, inFlight,
                     backstop>>
  BY DEF Seed, Runs, GoOn, report
<1>2. Undisturbed
  BY <1>1 DEF Undisturbed
<1>3. inFlight = {}
  BY <1>0, <1>2, Idle
<1>4. /\ at # Last /\ at = Base(at) /\ Sends(at) > 0 /\ Sends(at) \in Nat /\ at \in Nat
  BY <1>0, Positions
<1>5. /\ at + 1 \in 1 .. Last /\ Base(at + 1) = at /\ Name(at + 1) = Name(at)
      /\ Sends(at + 1) = Sends(at) /\ Judged(at + 1) = Judged(at)
  BY <1>0, <1>4, NextPosition
<1>6. Script[at + 1].does # "judge"
  <2>1. at + 1 # Last
    <3>1. Last \in 1 .. Last /\ Base(Last) = Last
      BY <1>0, Positions, ScriptFacts
    <3> QED BY <1>4, <1>5, <3>1
  <2>2. at + 1 # at + Sends(at) + 2
    BY <1>4
  <2> QED BY <1>5, <2>1, <2>2, Positions
<1>7. Verdicts'
  <2>1. Verdicts /\ Judged(at') = Judged(at)
    BY <1>1, <1>2, <1>5 DEF UInv
  <2> QED BY <1>1, <2>1, VerdictsKept
<1>8. Proper'
  <2>1. DOMAIN answers' = {} /\ Handled' = 0
    BY <1>1, <1>3 DEF Handled
  <2>2. runs \in Nat
    <3>1. runs \in 0 .. MaxRuns /\ MaxRuns \in Nat
      BY DemoAssumption DEF IInv, TypeOK
    <3> QED BY ONLY <3>1
  <2>3. Rows' = {}
    <3>1. \A run, base, name, constraints : RowsOf(run, base, name, constraints, 0) = {}
      BY DEF RowsOf
    <3> QED BY <2>1, <3>1 DEF Rows
  <2>4. Owners(store)' = {} /\ store'.sold = 0 /\ Cardinality(Rows') = 0
    BY <1>1, <2>3, FS_EmptySet DEF Owners, Empty
  <2>5. Now' = Script[at + 1]
    BY <1>1 DEF Now
  <2> QED BY <1>1, <1>3, <1>6, <2>1, <2>3, <2>4, <2>5 DEF Proper
<1> QED BY <1>1, <1>3, <1>7, <1>8 DEF UInv

LEMMA SendAlone ==
    ASSUME IInv, UInv, Send PROVE UInv'
<1> SUFFICES ASSUME Undisturbed' PROVE UInv'
  BY DEF UInv
<1> DEFINE new == [id |-> <<runs, at>>, does |-> Now.does, stage |-> "received",
                   status |-> 0, balance |-> 0]
<1>0. waiting = NoRequest
  BY DEF Send, Runs
<1>1. /\ waiting' = <<runs, at>> /\ inFlight' = inFlight \cup {new}
      /\ UNCHANGED <<runs, phase, at, answers, view, disturbed, refusal_responses, failed, store,
                     backstop>>
  BY DEF Send, report
<1>2. new.id = <<runs, at>> /\ new.stage = "received"
  OBVIOUS
<1> HIDE DEF new
<1>3. Undisturbed
  BY <1>1 DEF Undisturbed
<1>4. inFlight = {} /\ inFlight' = {new} /\ Handled = Len(answers) /\ Len(answers) \in Nat
  BY <1>0, <1>1, <1>3, Idle
<1>5. Handled' = Handled
  BY <1>1, <1>2, <1>4 DEF Handled
<1>6. Rows' = Rows /\ Owners(store)' = Owners(store) /\ Now' = Now
  BY <1>1, <1>5 DEF Rows, Owners, Now
<1>7. Verdicts'
  <2>1. Verdicts
    BY <1>3 DEF UInv
  <2> QED BY <1>1, <2>1, VerdictsKept
<1>8. at # Base(at) => Proper'
  BY <1>1, <1>2, <1>3, <1>4, <1>6 DEF Proper, UInv
<1> QED BY <1>1, <1>2, <1>4, <1>7, <1>8 DEF UInv

LEMMA ReceiveAlone ==
    ASSUME IInv, UInv, Receive PROVE UInv'
<1> SUFFICES ASSUME Undisturbed' PROVE UInv'
  BY DEF UInv
<1>1. PICK r \in inFlight :
          /\ r.id = waiting /\ r.stage = "answered"
          /\ inFlight' = inFlight \ {r}
          /\ answers' = Append(answers, [id |-> r.id, status |-> r.status, balance |-> r.balance])
          /\ waiting' = NoRequest /\ at' = at + 1
          /\ UNCHANGED <<runs, phase, view, disturbed, refusal_responses, failed, store, backstop>>
  BY DEF Receive, report, GoOn
<1> DEFINE new == [id |-> r.id, status |-> r.status, balance |-> r.balance]
<1>2. new.id = r.id /\ new.status = r.status /\ new.balance = r.balance
  OBVIOUS
<1> HIDE DEF new
<1>3. Undisturbed
  BY <1>1 DEF Undisturbed
<1>4. inFlight' = {} /\ waiting # NoRequest /\ Handled = Len(answers) + 1 /\ Len(answers) \in Nat
  BY <1>1, <1>3, Busy
<1>5. at # Last /\ Now.does \in Writing \cup {"probe"} /\ at # Base(at) /\ Base(at) < at
      /\ at <= Base(at) + Sends(at)
  BY <1>4, AwaitedRequest DEF Midway
<1>6. at \in 1 .. Last /\ Now = Script[at] /\ Now.does # "judge" /\ at \in Nat /\ Base(at) \in Nat
      /\ Sends(at) \in Nat
  <2>1. at \in 1 .. Last /\ Now = Script[at]
    BY Somewhere DEF IInv
  <2> QED BY <2>1, <1>5, Positions DEF Writing
<1>7. /\ at + 1 \in 1 .. Last /\ Base(at + 1) = Base(at) /\ Name(at + 1) = Name(at)
      /\ Sends(at + 1) = Sends(at) /\ Judged(at + 1) = Judged(at)
  BY <1>5, <1>6, NextPosition
<1>8. Script[at + 1].does # "judge"
  <2>1. Last \in 1 .. Last /\ Base(Last) = Last
    BY <1>6, Positions, ScriptFacts
  <2>2. at + 1 # Last
    BY <1>5, <1>6, <1>7, <2>1
  <2>3. at + 1 # Base(at) + Sends(at) + 2
    BY <1>5, <1>6
  <2> QED BY <1>7, <2>2, <2>3, Positions
<1>9. /\ DOMAIN answers = 1 .. Len(answers) /\ DOMAIN answers' = 1 .. (Len(answers) + 1)
      /\ Len(answers') = Len(answers) + 1 /\ answers'[Len(answers) + 1] = new
      /\ \A i \in 1 .. Len(answers) : answers'[i] = answers[i]
  <2>1. answers \in Seq(AnswerType) /\ answers' = Append(answers, new)
    BY <1>1 DEF IInv, TypeOK, new
  <2> QED BY <2>1
<1>10. Handled' = Handled
  BY <1>4, <1>9 DEF Handled
<1>11. Rows' = Rows /\ Owners(store)' = Owners(store) /\ Now' = Script[at + 1]
       /\ Name(at') = Name(at)
  BY <1>1, <1>7, <1>10 DEF Rows, Owners, Now
<1>12. Verdicts'
  <2>1. Verdicts /\ Judged(at') = Judged(at)
    BY <1>1, <1>3, <1>7 DEF UInv
  <2> QED BY <1>1, <2>1, VerdictsKept
<1>13. Proper
  BY <1>3, <1>5 DEF UInv
<1>14. \A i \in DOMAIN answers' : answers'[i].status = Expected(Name(at), backstop, i)
  <2> SUFFICES ASSUME NEW i \in DOMAIN answers'
               PROVE  answers'[i].status = Expected(Name(at), backstop, i)
    OBVIOUS
  <2>1. CASE i = Len(answers) + 1
    BY <1>1, <1>2, <1>4, <1>9, <1>13, <2>1 DEF Proper
  <2>2. CASE i # Len(answers) + 1
    <3>1. i \in 1 .. Len(answers)
      BY <1>4, <1>9, <2>2
    <3> QED BY <1>9, <1>13, <3>1 DEF Proper
  <2> QED BY <2>1, <2>2
<1>15. Name(at) = "single-use" => answers'[1].balance = 1
  <2>1. CASE Len(answers) = 0
    BY <1>1, <1>2, <1>4, <1>9, <1>13, <2>1 DEF Proper
  <2>2. CASE Len(answers) # 0
    <3>1. 1 \in 1 .. Len(answers)
      BY <1>4, <2>2
    <3> QED BY <1>9, <1>13, <3>1 DEF Proper
  <2> QED BY <2>1, <2>2
<1>16. Proper'
  BY <1>1, <1>4, <1>8, <1>11, <1>13, <1>14, <1>15 DEF Proper
<1> QED BY <1>4, <1>12, <1>16 DEF UInv

LEMMA ReadBackAlone ==
    ASSUME IInv, UInv, ReadBack PROVE UInv'
<1> SUFFICES ASSUME Undisturbed' PROVE UInv'
  BY DEF UInv
<1>0. /\ at \in 1 .. Last /\ Now = Script[at] /\ waiting = NoRequest
      /\ Now.does \in {"read_drop", "read_wallet"} /\ phase = "running"
  BY Somewhere DEF IInv, ReadBack, Runs
<1>1. /\ at' = at + 1 /\ view' = store
      /\ UNCHANGED <<runs, phase, waiting, answers, disturbed, refusal_responses, failed, inFlight,
                     store, backstop>>
  BY DEF ReadBack, GoOn, report, Undisturbed
<1>2. Undisturbed
  BY <1>1 DEF Undisturbed
<1>3. inFlight = {}
  BY <1>0, <1>2, Idle
<1>4. at # Last /\ at = Base(at) + Sends(at) + 1 /\ at \in Nat /\ Base(at) \in Nat
      /\ Sends(at) \in Nat
  BY <1>0, Positions
<1>5. /\ at + 1 \in 1 .. Last /\ Base(at + 1) = Base(at) /\ Name(at + 1) = Name(at)
      /\ Judged(at + 1) = Judged(at)
  BY <1>0, <1>4, NextPosition
<1>6. at # Base(at)
  BY <1>4
<1>7. Handled' = Handled
  BY <1>1 DEF Handled
<1>8. Rows' = Rows /\ Owners(store)' = Owners(store) /\ Name(at') = Name(at)
  BY <1>1, <1>5, <1>7 DEF Rows, Owners
<1>9. Verdicts'
  <2>1. Verdicts /\ Judged(at') = Judged(at)
    BY <1>1, <1>2, <1>5 DEF UInv
  <2> QED BY <1>1, <2>1, VerdictsKept
<1>10. Proper'
  BY <1>1, <1>2, <1>3, <1>6, <1>8 DEF Proper, UInv
<1> QED BY <1>1, <1>3, <1>9, <1>10 DEF UInv

\* What the judge of a scenario finds.
LEMMA Findings ==
    ASSUME IInv, UInv, Undisturbed, Runs({"judge"}), at # Last
    PROVE  /\ \A i \in 1 .. Sends(at) : answers[i].status = Expected(Name(at), backstop, i)
           /\ Name(at) = "single-use" => answers[1].balance = 1
           /\ Owners(view) = RowsOf(runs, Base(at), Name(at), backstop, Sends(at))
           /\ Name(at) # "single-use" => view.sold = Cardinality(Owners(view))
           /\ runs \in Nat /\ Base(at) \in Nat /\ Sends(at) \in Nat
<1>0. phase = "running" /\ Now.does = "judge" /\ waiting = NoRequest /\ at \in 1 .. Last
  BY Somewhere DEF IInv, Runs
<1>1. /\ Midway /\ Len(answers) = Sends(at) /\ DOMAIN answers = 1 .. Sends(at)
  BY <1>0, AtJudge
<1>2. runs \in Nat /\ Base(at) \in Nat /\ Sends(at) \in Nat /\ Sends(at) > 0
  <2>1. runs \in 0 .. MaxRuns /\ MaxRuns \in Nat
    BY DemoAssumption DEF IInv, TypeOK
  <2>2. runs \in Nat
    BY ONLY <2>1
  <2> QED BY <1>0, <2>2, Positions
<1>3. Handled = Sends(at) /\ Proper
  BY <1>0, <1>1, Idle DEF Midway, UInv
<1>4. view = store
  BY <1>0, <1>3 DEF Proper
<1>5. Owners(view) = RowsOf(runs, Base(at), Name(at), backstop, Sends(at))
  BY <1>3, <1>4 DEF Proper, Rows
<1>6. Name(at) # "single-use" => view.sold = Cardinality(Owners(view))
  BY <1>3, <1>4 DEF Proper
<1>7. \A i \in 1 .. Sends(at) : answers[i].status = Expected(Name(at), backstop, i)
  BY <1>1, <1>3 DEF Proper
<1>8. Name(at) = "single-use" => answers[1].balance = 1
  BY <1>1, <1>2, <1>3 DEF Proper
<1> QED BY <1>2, <1>5, <1>6, <1>7, <1>8

LEMMA AllChecksPass ==
    ASSUME NEW checks, \A d \in DOMAIN checks : ~checks[d]
    PROVE  Failing(checks) = {}
BY DEF Failing

LEMMA CounterVerdict ==
    ASSUME IInv, UInv, Undisturbed, Runs({"judge"}),
           Name(at) \in {"conditional_write", "pessimistic_lock"}
    PROVE  Failing(CounterChecks) = {} /\ answers[UnitsAvailable + 1].status = 409
<1>0. at \in 1 .. Last /\ UnitsAvailable \in Nat
  BY Somewhere, DemoAssumption DEF IInv
<1>1. at # Last /\ Sends(at) = UnitsAvailable + 1
  BY <1>0, Chapters
<1>2. /\ \A i \in 1 .. (UnitsAvailable + 1) :
             answers[i].status = Expected(Name(at), backstop, i)
      /\ Owners(view) = RowsOf(runs, Base(at), Name(at), backstop, UnitsAvailable + 1)
      /\ view.sold = Cardinality(Owners(view)) /\ runs \in Nat /\ Base(at) \in Nat
  BY <1>1, Findings
<1>3. Cardinality(Owners(view)) = UnitsAvailable /\ Owners(view) = view.orders
  <2>1. UnitsAvailable + 1 \in Nat /\ ~(UnitsAvailable + 1 <= UnitsAvailable)
    BY <1>0
  <2>2. Cardinality(RowsOf(runs, Base(at), Name(at), backstop, UnitsAvailable + 1))
            = UnitsAvailable
    BY <1>2, <2>1, UnitsSold
  <2> QED BY <1>2, <2>2 DEF Owners
<1>4. ASSUME NEW i \in 1 .. UnitsAvailable PROVE Answered(i, 201)
  <2>1. i \in 1 .. (UnitsAvailable + 1) /\ i <= UnitsAvailable
    BY <1>0
  <2> QED BY <1>2, <2>1 DEF Expected, Granted, Answered
<1>5. Answered(UnitsAvailable + 1, 409)
  <2>1. UnitsAvailable + 1 \in 1 .. (UnitsAvailable + 1) /\ ~(UnitsAvailable + 1 <= UnitsAvailable)
    BY <1>0
  <2> QED BY <1>2, <2>1 DEF Expected, Granted, Answered
<1>6. ~(\E i \in 1 .. UnitsAvailable : ~Answered(i, 201))
  BY <1>4
<1>7. ~(view.sold # UnitsAvailable \/ Cardinality(view.orders) # UnitsAvailable)
  BY <1>2, <1>3
<1>8. \A d \in DOMAIN CounterChecks : ~CounterChecks[d]
  <2>1. DOMAIN CounterChecks = {"confirmed", "refused", "store"}
    BY DEF CounterChecks
  <2>2. ~CounterChecks["confirmed"]
    BY <1>6 DEF CounterChecks
  <2>3. ~CounterChecks["refused"]
    BY <1>5 DEF CounterChecks
  <2>4. ~CounterChecks["store"]
    BY <1>7 DEF CounterChecks
  <2> QED BY ONLY <2>1, <2>2, <2>3, <2>4
<1> QED BY <1>5, <1>8, AllChecksPass DEF Answered

LEMMA RedemptionVerdict ==
    ASSUME IInv, UInv, Undisturbed, Runs({"judge"}), Name(at) = "single-use"
    PROVE  /\ Failing(RedemptionChecks) = {} <=> "redemptions_single_use" \in backstop
           /\ answers[2].status = IF "redemptions_single_use" \in backstop THEN 409 ELSE 201
<1>0. at \in 1 .. Last
  BY Somewhere DEF IInv
<1>1. at # Last /\ Sends(at) = 2
  BY <1>0, Chapters
<1>2. /\ \A i \in 1 .. 2 : answers[i].status = Expected("single-use", backstop, i)
      /\ answers[1].balance = 1
      /\ Owners(view) = RowsOf(runs, Base(at), "single-use", backstop, 2)
      /\ runs \in Nat /\ Base(at) \in Nat
  BY <1>1, Findings
<1>3. answers[1].status = 201
      /\ answers[2].status = IF "redemptions_single_use" \in backstop THEN 409 ELSE 201
  BY <1>2 DEF Expected, Granted
<1>4. ASSUME "redemptions_single_use" \notin backstop PROVE Failing(RedemptionChecks) # {}
  <2>1. answers[2].status # 409
    BY <1>3, <1>4
  <2> QED BY <2>1, RedemptionPasses
<1>5. ASSUME "redemptions_single_use" \in backstop PROVE Failing(RedemptionChecks) = {}
  <2>1. Owners(view) = {<<runs, Base(at) + 1>>}
    BY <1>2, <1>5 DEF RowsOf, Granted
  <2>2. Owners(view) = view.redemptions
    BY DEF Owners
  <2>3. Cardinality(view.redemptions) = 1
    BY <2>1, <2>2, FS_Singleton
  <2>4. ~(~(Answered(1, 201) /\ answers[1].balance = 1)) /\ Answered(2, 409)
    BY <1>2, <1>3, <1>5 DEF Answered
  <2>5. \A d \in DOMAIN RedemptionChecks : ~RedemptionChecks[d]
    <3>1. DOMAIN RedemptionChecks = {"confirmed", "refused", "store"}
      BY DEF RedemptionChecks
    <3>2. ~RedemptionChecks["confirmed"]
      BY <2>4 DEF RedemptionChecks
    <3>3. ~RedemptionChecks["refused"]
      BY <2>4 DEF RedemptionChecks
    <3>4. ~RedemptionChecks["store"]
      BY <2>3 DEF RedemptionChecks
    <3> QED BY ONLY <3>1, <3>2, <3>3, <3>4
  <2> QED BY <2>5, AllChecksPass
<1> QED BY <1>3, <1>4, <1>5

LEMMA CredentialVerdict ==
    ASSUME IInv, UInv, Undisturbed, Runs({"judge"}), Name(at) = "credentials"
    PROVE  Failing(CredentialChecks) = {}
<1>0. at \in 1 .. Last
  BY Somewhere DEF IInv
<1>1. at # Last /\ Sends(at) = BadCredentials
  BY <1>0, Chapters
<1>2. /\ \A i \in 1 .. BadCredentials : answers[i].status = Expected("credentials", backstop, i)
      /\ Owners(view) = RowsOf(runs, Base(at), "credentials", backstop, BadCredentials)
      /\ view.sold = Cardinality(Owners(view))
  BY <1>1, Findings
<1>3. \A i \in 1 .. BadCredentials : answers[i].status = 401
  BY <1>2 DEF Expected, Granted
<1>4. view.orders = {} /\ view.sold = 0
  <2>1. Owners(view) = {} /\ Owners(view) = view.orders
    BY <1>2 DEF RowsOf, Granted, Owners
  <2> QED BY <1>2, <2>1, FS_EmptySet
<1>5. ~(\E i \in 1 .. BadCredentials : ~Answered(i, 401))
  BY <1>3 DEF Answered
<1>6. ~(\E i, j \in 1 .. BadCredentials : answers[i].status # answers[j].status)
  BY <1>3
<1>7. ~(view.sold # 0 \/ view.orders # {})
  BY <1>4
<1>8. \A d \in DOMAIN CredentialChecks : ~CredentialChecks[d]
  <2>1. DOMAIN CredentialChecks = {"refused", "identical", "store"}
    BY DEF CredentialChecks
  <2>2. ~CredentialChecks["refused"]
    BY <1>5 DEF CredentialChecks
  <2>3. ~CredentialChecks["identical"]
    BY <1>6 DEF CredentialChecks
  <2>4. ~CredentialChecks["store"]
    BY <1>7 DEF CredentialChecks
  <2> QED BY ONLY <2>1, <2>2, <2>3, <2>4
<1> QED BY <1>8, AllChecksPass

\* The last scenario compares the two refusals that are remembered.
LEMMA OracleVerdict ==
    ASSUME UInv, Undisturbed, Judged(at) = 3
    PROVE  Failing(OracleChecks) = {} <=> "redemptions_single_use" \in backstop
<1>1. /\ refusal_responses["sold out"] = 409
      /\ refusal_responses["already redeemed"]
             = IF "redemptions_single_use" \in backstop THEN 409 ELSE 201
  <2>1. Judged(at) > 0
    OBVIOUS
  <2> QED BY <2>1 DEF UInv, Verdicts, VerdictsOf
<1>2. /\ DOMAIN OracleChecks = {"identical"}
      /\ OracleChecks["identical"]
             <=> refusal_responses["sold out"] # refusal_responses["already redeemed"]
  BY DEF OracleChecks
<1>3. ASSUME "redemptions_single_use" \in backstop PROVE Failing(OracleChecks) = {}
  <2>1. ~OracleChecks["identical"]
    BY <1>1, <1>2, <1>3
  <2>2. \A d \in DOMAIN OracleChecks : ~OracleChecks[d]
    BY ONLY <1>2, <2>1
  <2> QED BY <2>2, AllChecksPass
<1>4. ASSUME Failing(OracleChecks) = {} PROVE "redemptions_single_use" \in backstop
  <2>1. \A d \in DOMAIN OracleChecks : ~OracleChecks[d]
    BY <1>4, NoCheckFails
  <2>2. ~OracleChecks["identical"]
    BY ONLY <1>2, <2>1
  <2>3. refusal_responses["sold out"] = refusal_responses["already redeemed"]
    BY ONLY <1>2, <2>2
  <2> DEFINE second == refusal_responses["already redeemed"]
  <2>4. /\ second = IF "redemptions_single_use" \in backstop THEN 409 ELSE 201
        /\ second = 409
    BY ONLY <1>1, <2>3, Zenon
  <2> HIDE DEF second
  <2> QED BY ONLY <2>4
<1> QED BY <1>3, <1>4

LEMMA JudgeAlone ==
    ASSUME IInv, UInv, Judge PROVE UInv'
<1> SUFFICES ASSUME Undisturbed' PROVE UInv'
  BY DEF UInv
<1>0. /\ at \in 1 .. Last /\ Now = Script[at] /\ Runs({"judge"}) /\ waiting = NoRequest
      /\ Now.scenario = Name(at) /\ phase = "running"
  <2>1. at \in 1 .. Last /\ Now = Script[at]
    BY Somewhere DEF IInv
  <2> QED BY <2>1, Positions DEF Judge, Runs
<1>1. /\ UNCHANGED <<disturbed, inFlight, backstop>> /\ at # Last /\ at' = at + 1
  <2>1. UNCHANGED <<disturbed, inFlight, backstop>>
    BY DEF Judge, application
  <2>2. phase' = "running"
    BY DEF Undisturbed
  <2> QED BY <2>1, <2>2, ScriptFacts DEF Judge, GoOn
<1>2. Undisturbed
  BY <1>0, <1>1 DEF Undisturbed
<1>3. inFlight = {}
  BY <1>0, <1>2, Idle
<1>4. /\ Base(at + 1) = at + 1
      /\ Judged(at + 1) = IF Name(at) = "credentials" THEN Judged(at) ELSE Judged(at) + 1
  <2>1. Script[at].does = "judge"
    BY <1>0 DEF Runs
  <2> QED BY <1>0, <1>1, <2>1, NextPosition
<1>5. Verdicts
  BY <1>2 DEF UInv
<1>6. refusal_responses \in [{"sold out", "already redeemed"} -> {0} \cup Statuses]
  BY DEF IInv, TypeOK
<1>7. Verdicts'
  <2>1. CASE Name(at) \in {"conditional_write", "pessimistic_lock"}
    <3>1. failed' = failed \cup Failing(CounterChecks)
          /\ refusal_responses' = [refusal_responses EXCEPT !["sold out"]
                                       = answers[UnitsAvailable + 1].status]
      BY <1>0, <2>1 DEF Judge, RememberRefusal
    <3>2. Failing(CounterChecks) = {} /\ answers[UnitsAvailable + 1].status = 409
      BY <1>0, <1>2, <2>1, CounterVerdict
    <3>3. failed' = failed /\ refusal_responses'["sold out"] = 409
      BY <1>6, <3>1, <3>2
    <3>4. Judged(at) \in {0, 1} /\ Judged(at') = Judged(at) + 1
      BY <1>0, <1>1, <1>4, <2>1, Chapters
    <3>5. Judged(at) # 3 /\ Judged(at') # 3
      BY ONLY <3>4
    <3> QED BY ONLY <1>1, <1>5, <3>3, <3>5 DEF Verdicts, VerdictsOf
  <2>2. CASE Name(at) = "single-use"
    <3>1. failed' = failed \cup Failing(RedemptionChecks)
          /\ refusal_responses' = [refusal_responses EXCEPT !["already redeemed"]
                                       = answers[2].status]
      BY <1>0, <2>2 DEF Judge, RememberRefusal
    <3>2. /\ Failing(RedemptionChecks) = {} <=> "redemptions_single_use" \in backstop
          /\ answers[2].status = IF "redemptions_single_use" \in backstop THEN 409 ELSE 201
      BY <1>0, <1>2, <2>2, RedemptionVerdict
    <3>3. /\ refusal_responses'["sold out"] = refusal_responses["sold out"]
          /\ refusal_responses'["already redeemed"] = answers[2].status
      BY <1>6, <3>1
    <3>4. Judged(at) = 2 /\ Judged(at') = 3
      <4>1. Judged(at) = 2 /\ Judged(at') = Judged(at) + 1
        BY <1>0, <1>1, <1>4, <2>2, Chapters
      <4> QED BY ONLY <4>1
    <3>5. failed = {} /\ refusal_responses["sold out"] = 409
      <4>1. Judged(at) # 3 /\ Judged(at) > 0
        BY ONLY <3>4
      <4> QED BY ONLY <1>5, <4>1 DEF Verdicts, VerdictsOf
    <3>6. failed' = {} <=> "redemptions_single_use" \in backstop
      BY ONLY <3>1, <3>2, <3>5
    <3>7. refusal_responses'["sold out"] = 409
      BY ONLY <3>3, <3>5
    <3>8. refusal_responses'["already redeemed"]
              = IF "redemptions_single_use" \in backstop THEN 409 ELSE 201
      BY ONLY <3>2, <3>3
    <3>9. VerdictsOf(failed', refusal_responses', backstop, 3)
      BY ONLY <3>6, <3>7, <3>8 DEF VerdictsOf
    <3> QED BY ONLY <1>1, <3>4, <3>9 DEF Verdicts
  <2>3. CASE Name(at) = "credentials"
    <3>1. failed' = failed \cup Failing(CredentialChecks) /\ refusal_responses' = refusal_responses
      BY <1>0, <2>3 DEF Judge
    <3>2. failed' = failed
      BY <1>0, <1>2, <2>3, <3>1, CredentialVerdict
    <3>3. Judged(at') = Judged(at)
      BY <1>1, <1>4, <2>3
    <3> QED BY <1>1, <1>5, <3>1, <3>2, <3>3, VerdictsKept
  <2>4. Name(at) \in Scenarios /\ Name(at) # "no oracle"
    BY <1>0, <1>1, Chapters
  <2> QED BY <2>1, <2>2, <2>3, <2>4 DEF Scenarios
<1> QED BY <1>1, <1>3, <1>4, <1>7 DEF UInv

\* A step of the application on the request of a run that has the store to itself.
LEMMA HandleAlone ==
    ASSUME IInv, UInv, NEW r \in inFlight, Handle(r) PROVE UInv'
<1> SUFFICES ASSUME Undisturbed' PROVE UInv'
  BY DEF UInv
<1>0. /\ UNCHANGED <<runs, phase, at, waiting, answers, view, failed, refusal_responses, disturbed,
                     backstop>>
      /\ r.stage = "received"
  BY DEF Handle, client, report
<1>1. Undisturbed
  BY <1>0 DEF Undisturbed
<1>2. /\ inFlight = {r} /\ r.id = waiting /\ waiting # NoRequest /\ r \in RequestType
      /\ r.does = Now.does /\ Len(answers) \in Nat /\ Handled = Len(answers)
  BY <1>0, <1>1, Busy
<1>3. /\ waiting = <<runs, at>> /\ at # Last /\ at # Base(at) /\ Base(at) < at /\ Midway
      /\ at <= Base(at) + Sends(at) /\ Now.does \in Writing \cup {"probe"}
  BY <1>2, AwaitedRequest DEF Midway
<1>4. at \in 1 .. Last /\ Now = Script[at] /\ at \in Nat /\ Base(at) \in Nat /\ Sends(at) \in Nat
      /\ Now.does # "judge" /\ runs \in Nat
  <2>1. at \in 1 .. Last /\ Now = Script[at]
    BY Somewhere DEF IInv
  <2>2. runs \in 0 .. MaxRuns /\ MaxRuns \in Nat
    BY DemoAssumption DEF IInv, TypeOK
  <2>3. runs \in Nat
    BY ONLY <2>2
  <2> QED BY <2>1, <2>3, <1>3, Positions DEF Writing
<1> DEFINE h == Len(answers)
<1>5. r.id = <<runs, Base(at) + (h + 1)>>
  <2>1. h = at - Base(at) - 1
    BY <1>3, <1>4 DEF IInv, AnswersInOrder
  <2> QED BY <1>2, <1>3, <1>4, <2>1
<1>6. /\ store \in StoreType /\ IsFiniteSet(store.orders) /\ IsFiniteSet(store.redemptions)
  BY DEF IInv, TypeOK, RowsAreFinite
<1>7. Proper /\ Verdicts
  BY <1>1, <1>3 DEF UInv
<1>8. Owners(store) = RowsOf(runs, Base(at), Name(at), backstop, h)
      /\ (Name(at) # "single-use" => store.sold = Cardinality(Owners(store)))
  BY <1>2, <1>7 DEF Proper, Rows
<1>9. Verdicts' /\ Now' = Now
  BY <1>0, <1>7 DEF Verdicts, Now
<1> HIDE DEF h
<1>h. h \in Nat
  BY <1>2 DEF h
\* What has to be shown of each of the three outcomes: t is what becomes of r.
<1>10. ASSUME NEW t, inFlight' = {t}, t.id = r.id, t.stage # "received",
              t.stage = "refusing" => /\ Name(at) # "credentials"
                                      /\ ~Granted(Name(at), backstop, h + 1),
              t.stage = "answered" => /\ t.status = Expected(Name(at), backstop, h + 1)
                                      /\ Name(at) = "single-use" /\ h + 1 = 1 => t.balance = 1,
              Owners(store)' = RowsOf(runs, Base(at), Name(at), backstop, h + 1),
              Name(at) # "single-use" => store'.sold = Cardinality(Owners(store)')
       PROVE  UInv'
  <2>1. Handled' = h + 1
    <3>1. \E q \in inFlight' : q.stage # "received"
      BY <1>10
    <3> QED BY <1>0, <3>1 DEF Handled, h
  <2>2. Rows' = RowsOf(runs, Base(at), Name(at), backstop, h + 1)
    BY <1>0, <2>1 DEF Rows
  <2>3. Proper'
    BY <1>0, <1>4, <1>7, <1>9, <1>10, <2>1, <2>2 DEF Proper
  <2> QED BY <1>0, <1>2, <1>9, <1>10, <2>3 DEF UInv
<1> DEFINE before == RowsOf(runs, Base(at), Name(at), backstop, h)
           after == RowsOf(runs, Base(at), Name(at), backstop, h + 1)
<1>r. /\ Name(at) = "credentials" => after = {}
      /\ Granted(Name(at), backstop, h + 1) => after = Owners(store) \cup {r.id}
      /\ ~Granted(Name(at), backstop, h + 1) => after = Owners(store)
      /\ r.id \notin Owners(store)
      /\ Name(at) = "single-use" => (Owners(store) = {} <=> h = 0)
  <2>1. h + 1 \in Nat
    BY <1>h
  <2>2. Name(at) = "credentials" => after = {}
    BY <1>4, <2>1, RowsFacts
  <2>3. ASSUME Granted(Name(at), backstop, h + 1)
        PROVE  after = before \cup {<<runs, Base(at) + (h + 1)>>}
    <3>1. \A j \in 1 .. (h + 1) : j \in 1 .. h \/ j = h + 1
      BY <1>h
    <3>2. h + 1 \in 1 .. (h + 1) /\ \A j \in 1 .. h : j \in 1 .. (h + 1)
      BY <1>h
    <3> QED BY ONLY <2>3, <3>1, <3>2 DEF RowsOf
  <2>4. ~Granted(Name(at), backstop, h + 1) => after = before
    BY <1>4, <1>h, RowsFacts
  <2>5. <<runs, Base(at) + (h + 1)>> \notin before
    BY <1>4, <1>h, RowsFacts
  <2>6. Name(at) = "single-use" => (before = {} <=> h = 0)
    BY <1>4, <1>h, RowsOfCode
  <2> HIDE DEF before, after
  <2>7. Owners(store) = before
    BY <1>8 DEF before
  <2> QED BY ONLY <1>5, <2>2, <2>3, <2>4, <2>5, <2>6, <2>7
<1>11. CASE r.does = "probe"
  <2> DEFINE t == Told(r, 401, 0)
  <2>1. Answer(r, 401, 0) /\ store' = store /\ 401 \in Statuses /\ 0 \in Nat
    BY <1>0, <1>11 DEF Handle, Statuses
  <2>2. t.id = r.id /\ t.stage = "answered" /\ t.status = 401
    BY <1>2, <2>1, ToldFields
  <2>3. inFlight' = {t}
    BY <1>2, <2>1, AnswerEffect DEF IInv
  <2>4. Name(at) = "credentials" /\ ~Granted(Name(at), backstop, h + 1)
    <3>1. Name(at) = "credentials"
      BY <1>2, <1>4, <1>11, Chapters
    <3> QED BY <3>1 DEF Granted
  <2>5. Owners(store)' = Owners(store)
    BY <1>0, <2>1 DEF Owners
  <2>6. 401 = Expected(Name(at), backstop, h + 1)
    BY <2>4 DEF Expected
  <2> HIDE DEF t
  <2> QED BY <1>8, <1>10, <1>r, <2>1, <2>2, <2>3, <2>4, <2>5, <2>6
<1>12. ASSUME r.does # "probe"
       PROVE  /\ MayWrite(r) <=> Granted(Name(at), backstop, h + 1)
              /\ Name(at) # "credentials" /\ (r.does = "order" <=> Name(at) # "single-use")
  <2>1. CASE r.does = "order"
    <3>1. Name(at) \in {"conditional_write", "pessimistic_lock"}
      BY <1>2, <1>4, <2>1, Chapters
    <3>2. store.sold = IF h <= UnitsAvailable THEN h ELSE UnitsAvailable
      BY <1>4, <1>8, <1>h, <3>1, UnitsSold
    <3>3. UnitsAvailable \in Nat
      BY DemoAssumption
    <3>4. store.sold < UnitsAvailable <=> h + 1 <= UnitsAvailable
      BY ONLY <1>h, <3>2, <3>3
    <3>5. Granted(Name(at), backstop, h + 1) <=> h + 1 <= UnitsAvailable
      BY <3>1 DEF Granted
    <3>6. MayWrite(r) <=> store.sold < UnitsAvailable
      BY <2>1 DEF MayWrite
    <3> QED BY <2>1, <3>1, <3>4, <3>5, <3>6
  <2>2. CASE r.does = "redeem"
    <3>1. Name(at) = "single-use"
      BY <1>2, <1>4, <2>2, Chapters
    <3>2. MayWrite(r) <=> store.redemptions = {} \/ "redemptions_single_use" \notin backstop
      BY <2>2 DEF MayWrite, MayRedeem
    <3>3. store.redemptions = {} <=> h + 1 = 1
      BY <1>h, <1>r, <3>1 DEF Owners
    <3>4. Granted(Name(at), backstop, h + 1)
              <=> h + 1 = 1 \/ "redemptions_single_use" \notin backstop
      BY <3>1 DEF Granted
    <3> QED BY <2>2, <3>1, <3>2, <3>3, <3>4
  <2> QED BY <1>2, <1>12, <2>1, <2>2 DEF RequestType, Writing
<1>13. CASE r.does # "probe" /\ MayWrite(r)
  <2> DEFINE t == Told(r, 201, Cardinality(store'.redemptions))
  <2>0. Granted(Name(at), backstop, h + 1) /\ Name(at) # "credentials"
        /\ (r.does = "order" <=> Name(at) # "single-use")
    BY <1>12, <1>13
  <2>1. store' = Written(r) /\ Answer(r, 201, Cardinality(store'.redemptions)) /\ 201 \in Statuses
    BY <1>13 DEF Handle, Statuses
  <2>2. /\ Written(r) \in StoreType /\ IsFiniteSet(Written(r).redemptions)
        /\ r.does = "order" => /\ Written(r).orders = store.orders \cup {r.id}
                               /\ Written(r).sold = store.sold + 1
        /\ r.does # "order" => Written(r).redemptions = store.redemptions \cup {r.id}
    BY <1>2, <1>6, WrittenFields
  <2>3. Cardinality(store'.redemptions) \in Nat
    BY <2>1, <2>2, FS_CardinalityType
  <2>4. /\ t.id = r.id /\ t.stage = "answered" /\ t.status = 201
        /\ t.balance = Cardinality(store'.redemptions)
    BY <1>2, <2>1, <2>3, ToldFields
  <2>5. inFlight' = {t}
    BY <1>2, <2>1, <2>3, AnswerEffect DEF IInv
  <2>6. Owners(store)' = Owners(store) \cup {r.id}
    BY <1>0, <2>0, <2>1, <2>2 DEF Owners
  <2>7. Name(at) # "single-use" => store'.sold = Cardinality(Owners(store)')
    <3>1. IsFiniteSet(Owners(store))
      BY <1>6 DEF Owners
    <3>2. Cardinality(Owners(store) \cup {r.id}) = Cardinality(Owners(store)) + 1
      BY <1>r, <3>1, FS_AddElement
    <3> QED BY <1>8, <2>0, <2>1, <2>2, <2>6, <3>2
  <2>8. Name(at) = "single-use" /\ h + 1 = 1 => t.balance = 1
    <3> SUFFICES ASSUME Name(at) = "single-use", h + 1 = 1 PROVE t.balance = 1
      OBVIOUS
    <3>1. Owners(store) = {}
      BY <1>h, <1>r
    <3>2. store'.redemptions = {r.id}
      BY <2>0, <2>1, <2>2, <3>1 DEF Owners
    <3>3. Cardinality({r.id}) = 1
      BY FS_Singleton
    <3> QED BY ONLY <2>4, <3>2, <3>3
  <2>9. 201 = Expected(Name(at), backstop, h + 1)
    BY <2>0 DEF Expected
  <2> HIDE DEF t
  <2>10. Owners(store)' = RowsOf(runs, Base(at), Name(at), backstop, h + 1)
    BY <1>r, <2>0, <2>6
  <2> QED BY ONLY <1>10, <2>4, <2>5, <2>7, <2>8, <2>9, <2>10
<1>14. CASE r.does # "probe" /\ ~MayWrite(r)
  <2> DEFINE t == [r EXCEPT !.stage = "refusing"]
  <2>1. inFlight' = {t} /\ store' = store
    BY <1>2, <1>14 DEF Handle, Refuse
  <2>2. t.id = r.id /\ t.stage = "refusing"
    BY <1>2, RefusingFields
  <2>3. ~Granted(Name(at), backstop, h + 1) /\ Name(at) # "credentials"
    BY <1>12, <1>14
  <2>4. Owners(store)' = Owners(store)
    BY <1>0, <2>1 DEF Owners
  <2> HIDE DEF t
  <2>5. Owners(store)' = RowsOf(runs, Base(at), Name(at), backstop, h + 1)
    BY <1>r, <2>3, <2>4
  <2>6. Name(at) # "single-use" => store'.sold = Cardinality(Owners(store)')
    BY <1>8, <2>1, <2>4
  <2> QED BY ONLY <1>10, <2>1, <2>2, <2>3, <2>5, <2>6
<1> QED BY <1>11, <1>13, <1>14

LEMMA EmitAlone ==
    ASSUME IInv, UInv, NEW r \in inFlight, EmitRefusal(r) PROVE UInv'
<1> SUFFICES ASSUME Undisturbed' PROVE UInv'
  BY DEF UInv
<1> DEFINE t == Told(r, 409, 0)
<1>0. /\ UNCHANGED <<runs, phase, at, waiting, answers, view, failed, refusal_responses, disturbed,
                     store, backstop>>
      /\ r.stage = "refusing" /\ Answer(r, 409, 0) /\ 409 \in Statuses /\ 0 \in Nat
  BY DEF EmitRefusal, client, report, Statuses
<1>1. Undisturbed
  BY <1>0 DEF Undisturbed
<1>2. /\ inFlight = {r} /\ r.id = waiting /\ waiting # NoRequest /\ r \in RequestType
      /\ Len(answers) \in Nat /\ Handled = Len(answers) + 1
  BY <1>0, <1>1, Busy
<1>3. at # Base(at)
  BY <1>2, AwaitedRequest DEF Midway
<1>4. t.id = r.id /\ t.stage = "answered" /\ t.status = 409
  BY <1>0, <1>2, ToldFields
<1>5. inFlight' = {t}
  BY <1>0, <1>2, AnswerEffect DEF IInv
<1> HIDE DEF t
<1>6. Handled' = Handled
  <2>1. \E q \in inFlight' : q.stage # "received"
    BY <1>4, <1>5
  <2> QED BY <1>0, <1>2, <2>1 DEF Handled
<1>7. Proper /\ Verdicts
  BY <1>1, <1>3 DEF UInv
<1>8. /\ Name(at) # "credentials" /\ ~Granted(Name(at), backstop, Handled)
      /\ Expected(Name(at), backstop, Handled) = 409
  BY <1>0, <1>7 DEF Proper, Expected
<1>9. ~(Name(at) = "single-use" /\ Handled = 1)
  BY <1>8 DEF Granted
<1>10. Rows' = Rows /\ Owners(store)' = Owners(store) /\ Now' = Now /\ Verdicts'
  BY <1>0, <1>6, <1>7 DEF Rows, Owners, Now, Verdicts
<1>11. Proper'
  BY <1>0, <1>4, <1>5, <1>6, <1>7, <1>8, <1>9, <1>10 DEF Proper
<1> QED BY <1>0, <1>2, <1>4, <1>5, <1>10, <1>11 DEF UInv

\* A failed request is a disturbance, unless nobody waits for it.
LEMMA FailAlone ==
    ASSUME IInv, UInv, NEW r \in inFlight, Fail(r) PROVE UInv'
<1>1. phase' = phase /\ disturbed' = (disturbed \/ r.id = waiting)
  BY DEF Fail, client
<1>2. Undisturbed => r.id = waiting
  BY DEF UInv
<1>3. ~Undisturbed'
  BY <1>1, <1>2 DEF Undisturbed
<1> QED BY <1>3 DEF UInv

\* The invariant of the runs that have the store to themselves, in a step.
LEMMA NextUInv == IInv /\ UInv /\ [Next]_vars => UInv'
<1> SUFFICES ASSUME IInv, UInv, [Next]_vars PROVE UInv'
  OBVIOUS
<1>1. CASE Client
  BY <1>1, SeedAlone, SendAlone, ReceiveAlone, ReadBackAlone, JudgeAlone DEF Client
<1>2. CASE Application
  BY <1>2, HandleAlone, EmitAlone, FailAlone DEF Application
<1>3. CASE StartRun
  BY <1>3, StartAlone
<1>4. CASE TimeOut \/ Die \/ Others \/ AuditGate
  <2>1. phase' # "running"
    BY <1>4 DEF TimeOut, Die, Dead, Others, VulnerableRun, SecureRun, RestoreBaseline, AuditGate,
                Passed, client
  <2> QED BY <2>1 DEF UInv, Undisturbed
<1>5. CASE UNCHANGED vars
  <2>1. UNCHANGED <<runs, phase, at, waiting, answers, view, failed, refusal_responses, disturbed,
                    inFlight, store, backstop>>
    BY <1>5 DEF vars, client, application, report
  <2>2. Undisturbed' = Undisturbed /\ Verdicts' = Verdicts /\ Handled' = Handled /\ Now' = Now
    BY <2>1 DEF Undisturbed, Verdicts, Handled, Now
  <2>3. Rows' = Rows /\ Owners(store)' = Owners(store)
    BY <2>1, <2>2 DEF Rows, Owners
  <2>4. Proper' = Proper
    BY <2>1, <2>2, <2>3 DEF Proper
  <2> QED BY <2>1, <2>2, <2>4 DEF UInv
<1> QED BY <1>1, <1>2, <1>3, <1>4, <1>5 DEF Next

\* A run that has the store to itself is granted and refused as the script expects,
\* and its rows are exactly those it was granted, whatever was in the store before it.
THEOREM UndisturbedInvariance == Spec => []UInv
<1>1. Init => UInv
  BY DEF Init, UInv, Undisturbed
<1>2. IInv /\ UInv /\ [Next]_vars => UInv'
  BY NextUInv
<1> QED BY <1>1, <1>2, DemoInvariance, PTL DEF Spec

\* The verdict of a demonstration that has the store to itself and meets no failure is
\* that of the unique constraint: it passes if and only if the constraint is in place.
THEOREM VerdictIsOfTheBackstop == Spec => VerdictTellsTheBackstop
<1>1. ASSUME IInv, UInv, [Next]_vars
      PROVE  [Ends /\ ~disturbed => (failed' = {} <=> "redemptions_single_use" \in backstop)]_vars
  <2> SUFFICES ASSUME Ends, ~disturbed
               PROVE  failed' = {} <=> "redemptions_single_use" \in backstop
    OBVIOUS
  <2>1. phase = "running" /\ phase' = "over" /\ Undisturbed
    BY DEF Ends, Undisturbed
  <2>2. Judge
    BY <1>1, <2>1 DEF Next, Client, Application, StartRun, Seed, Send, Receive, ReadBack, TimeOut,
              Die, Dead, Handle, EmitRefusal, Fail, AuditGate, Passed, Others, VulnerableRun,
              SecureRun, RestoreBaseline, vars, client
  <2>3. at = Last /\ at \in 1 .. Last /\ Now = Script[at]
    <3>1. at \in 1 .. Last /\ Now = Script[at]
      BY <1>1, Somewhere DEF IInv
    <3>2. at = Len(Script)
      BY <2>1, <2>2 DEF Judge
    <3> QED BY <3>1, <3>2, ScriptFacts
  <2>4. Name(at) = "no oracle" /\ Judged(at) = 3
    BY <2>3, Chapters
  <2>5. failed' = failed \cup Failing(OracleChecks)
    BY <2>2, <2>3, <2>4, Positions DEF Judge
  <2>6. failed = {} <=> "redemptions_single_use" \in backstop
    BY <1>1, <2>1, <2>4 DEF UInv, Verdicts, VerdictsOf
  <2>7. Failing(OracleChecks) = {} <=> "redemptions_single_use" \in backstop
    BY <1>1, <2>1, <2>4, OracleVerdict
  <2> QED BY ONLY <2>5, <2>6, <2>7
<1> QED BY <1>1, DemoInvariance, UndisturbedInvariance, PTL DEF Spec, VerdictTellsTheBackstop

===============================================================================
