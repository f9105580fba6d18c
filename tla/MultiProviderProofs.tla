------------------------- MODULE MultiProviderProofs -------------------------
(***************************************************************************)
(* Proofs about MultiProvider for every finite set of providers and every  *)
(* set of values: the outcome of an evaluation under each of the three     *)
(* strategies.                                                             *)
(***************************************************************************)
EXTENDS MultiProvider, TLAPS, FiniteSetTheorems

(***************************************************************************)
(* The inductive invariant.                                                *)
(***************************************************************************)

TakenRecord == [results : Seq(Providers), errors : SUBSET Providers, notFound : Nat]

\* The types, without the bounds that need counting
Typed ==
    /\ strategy \in {"first_match", "first_success", "comparison"}
    /\ \E ps \in SUBSET Providers : ps # {} /\ order \in Orders(ps)
    /\ fallback \in BOOLEAN /\ object \in BOOLEAN /\ elapsed \in BOOLEAN
    /\ status \in {"unset", "READY", "ERROR"}
    /\ life \in {"new", "initialising", "initialised", "stopping", "stopped"}
    /\ handler \in [Providers -> {"idle", "running", "ok", "failed"}]
    /\ phase \in {"idle", "matching", "single", "collecting", "fallback", "returned", "panicked"}
    /\ pos \in 0 .. N
    /\ pc \in [Providers -> {"idle", "calling", "answered", "blocked", "done", "left"}]
    /\ answer \in [Providers -> Answers \cup {NoOne}]
    /\ finish \in Seq(Providers) /\ errChan \in SUBSET Providers
    /\ taken \in TakenRecord
    /\ done \in {"no", "timeout", "cancelled", "failed", "over"}
    /\ result \in Results \cup {NoOne}

\* What is known of a provider's answer at each point of its goroutine
CallsInv ==
    /\ phase = "idle" => \A p \in Providers : pc[p] = "idle"
    /\ \A p \in Providers :
        /\ p \notin Members => pc[p] = "idle"
        /\ pc[p] \in {"idle", "calling"} => answer[p] = NoOne
        /\ pc[p] \in {"answered", "blocked", "done"} => answer[p] \in Answers
        /\ pc[p] = "blocked" => answer[p].kind = "notFound"

\* Provider p has delivered an answer of this kind
Gave(p, kind) == p \in Providers /\ pc[p] = "done" /\ answer[p].kind = kind

Distinct(s) == \A i, j \in DOMAIN s : s[i] = s[j] => i = j

\* A result is delivered once, by a provider that succeeded; an error, and what
\* was counted as not found, by one that gave it
Delivered ==
    /\ Distinct(finish) /\ Distinct(taken.results)
    /\ \A i \in DOMAIN finish : Gave(finish[i], "ok")
    /\ \A i \in DOMAIN taken.results : Gave(taken.results[i], "ok")
    /\ \A i \in DOMAIN finish, j \in DOMAIN taken.results : finish[i] # taken.results[j]
    /\ \A p \in errChan \cup taken.errors : Gave(p, "error")

\* The strategies that count what they did not find
Counting == strategy = "first_success" \/ (strategy = "comparison" /\ N > 1)

GaveNotFound == {p \in Providers : Gave(p, "notFound")}

Counted == taken.notFound = IF Counting THEN Cardinality(GaveNotFound) ELSE 0

\* Which strategy is in which phase, and why its context is done
PhaseInv ==
    /\ phase = "matching" => strategy = "first_match"
    /\ phase = "single" => strategy = "comparison" /\ N = 1
    /\ phase = "collecting" => Counting
    /\ phase = "returned" /\ ~Counting => \A p \in Providers : pc[p] \in {"idle", "done"}
    /\ phase \in {"fallback", "panicked"} => strategy = "comparison" /\ N > 1 /\ ~object /\ fallback
    /\ phase \in {"idle", "matching", "single"} => done = "no"
    /\ strategy = "comparison" /\ object /\ phase # "idle" => phase = "returned"
    /\ strategy = "first_match" => done = "no"
    /\ strategy = "first_success" => done # "failed"
    /\ strategy = "comparison" => done \in {"no", "cancelled", "failed"}
    /\ done = "over" => phase = "returned"
    /\ done = "failed" => Answered("error") # {}

\* First match: behind the loop's index not found, before it nothing was asked
MatchInv ==
    phase = "matching" =>
        /\ pos > 0 /\ pc[order[pos]] \in {"calling", "answered"}
        /\ \A j \in 1 .. pos - 1 : Gave(order[j], "notFound")
        /\ \A j \in pos + 1 .. N : pc[order[j]] = "idle"

\* The fallback is asked when everyone has answered and two values differ
Said == {answer[p].value : p \in Answered("ok")}

Disagreement ==
    phase \in {"fallback", "panicked"} =>
        /\ done # "failed"
        /\ Answered("ok") \cup Answered("notFound") = Members
        /\ Cardinality(Said) > 1

MultiInv ==
    /\ Typed /\ CallsInv /\ Delivered /\ Counted /\ PhaseInv /\ MatchInv
    /\ Disagreement
    /\ FirstMatchInOrder /\ FirstSuccessVerdict /\ ComparisonOutcome /\ SuccessIsAnAnswer

-----------------------------------------------------------------------------
(* Counting *)

\* An order of a finite set names every element once
LEMMA OrderOf ==
    ASSUME NEW ps, IsFiniteSet(ps), NEW s \in Orders(ps)
    PROVE  /\ s \in Seq(ps) /\ Len(s) = Cardinality(ps) /\ Distinct(s)
           /\ ps = {s[i] : i \in 1 .. Len(s)}
<1> DEFINE n == Cardinality(ps)
<1>1. n \in Nat
  BY FS_CardinalityType
<1>2. s \in [1 .. n -> ps] /\ \A p \in ps : \E i \in DOMAIN s : s[i] = p
  BY DEF Orders
<1>3. s \in Seq(ps) /\ Len(s) = n /\ DOMAIN s = 1 .. n
  BY <1>1, <1>2
<1>4. s \in Surjection(1 .. n, ps)
  BY <1>2, <1>3 DEF Surjection
<1>5. IsFiniteSet(1 .. n) /\ Cardinality(1 .. n) = n
  BY <1>1, FS_Interval
<1>6. s \in Injection(1 .. n, ps)
  BY <1>4, <1>5, FS_SurjSameCardinalityImpliesInj
<1>7. Distinct(s)
  BY <1>3, <1>6 DEF Injection, IsInjective, Distinct
<1>8. QED
  BY <1>2, <1>3, <1>7

\* A finite set has an order
LEMMA OrderExists ==
    ASSUME NEW ps, IsFiniteSet(ps)
    PROVE  (CHOOSE s \in Orders(ps) : TRUE) \in Orders(ps)
<1>1. PICK f : f \in Bijection(1 .. Cardinality(ps), ps)
  BY FS_CardinalityType DEF ExistsBijection
<1>2. f \in Orders(ps)
  BY <1>1 DEF Bijection, Injection, Surjection, Orders
<1>3. QED
  BY <1>2

\* A list without repetition and a set apart from it fit into a finite set, and
\* fill it when their sizes add up
LEMMA Fits ==
    ASSUME NEW M, IsFiniteSet(M), NEW s \in Seq(M), Distinct(s),
           NEW T \in SUBSET M, \A i \in DOMAIN s : s[i] \notin T
    PROVE  /\ Cardinality(T) \in Nat /\ Len(s) + Cardinality(T) <= Cardinality(M)
           /\ Len(s) + Cardinality(T) = Cardinality(M)
                => \A x \in M : x \in T \/ \E i \in DOMAIN s : s[i] = x
<1> DEFINE R == {s[i] : i \in 1 .. Len(s)}
<1>1. Len(s) \in Nat /\ DOMAIN s = 1 .. Len(s)
  OBVIOUS
<1>2. s \in Bijection(1 .. Len(s), R)
  <2>1. s \in [1 .. Len(s) -> R]
    BY <1>1
  <2>2. QED
    BY <1>1, <2>1 DEF Bijection, Injection, IsInjective, Surjection, Distinct
<1>3. IsFiniteSet(1 .. Len(s)) /\ Cardinality(1 .. Len(s)) = Len(s)
  BY <1>1, FS_Interval
<1>4. IsFiniteSet(R) /\ Cardinality(R) = Len(s)
  <2>1. ExistsBijection(1 .. Len(s), R)
    BY <1>2 DEF ExistsBijection
  <2> HIDE DEF R
  <2>2. QED
    BY <1>3, <2>1, FS_Bijection
<1>5. R \subseteq M /\ R \cap T = {}
  BY <1>1
<1>6. \A x \in R : \E i \in DOMAIN s : s[i] = x
  BY <1>1
<1> HIDE DEF R
<1>7. IsFiniteSet(T) /\ Cardinality(T) \in Nat /\ Cardinality(M) \in Nat
  BY FS_Subset, FS_CardinalityType
<1>8. Cardinality(R \cup T) = Len(s) + Cardinality(T)
  <2>1. Cardinality(R \cup T) = Cardinality(R) + Cardinality(T) - Cardinality(R \cap T)
    BY <1>4, <1>7, FS_Union
  <2>2. Cardinality(R \cap T) = 0
    BY <1>5, FS_EmptySet
  <2>3. QED
    BY <1>1, <1>4, <1>7, <2>1, <2>2
<1>9. /\ Cardinality(R \cup T) <= Cardinality(M)
      /\ Cardinality(M) = Cardinality(R \cup T) => M = R \cup T
  <2>1. R \cup T \in SUBSET M
    BY <1>5
  <2>2. QED
    BY <2>1, FS_Subset
<1>10. QED
  BY <1>1, <1>6, <1>7, <1>8, <1>9

\* The providers of the map
LEMMA MembersFacts ==
    ASSUME Typed
    PROVE  /\ N \in Nat /\ N > 0 /\ order \in Seq(Providers) /\ Distinct(order)
           /\ Members \in SUBSET Providers /\ IsFiniteSet(Members) /\ Cardinality(Members) = N
           /\ \A i \in 1 .. N : order[i] \in Members
<1>1. PICK ps \in SUBSET Providers : ps # {} /\ order \in Orders(ps)
  BY DEF Typed
<1>2. IsFiniteSet(ps)
  BY ProvidersAssumption, FS_Subset
<1>3. order \in Seq(ps) /\ Len(order) = Cardinality(ps) /\ Distinct(order) /\ Members = ps
  BY <1>1, <1>2, OrderOf DEF Members, N
<1>4. Cardinality(ps) \in Nat /\ Cardinality(ps) # 0
  BY <1>1, <1>2, FS_CardinalityType, FS_EmptySet
<1>5. order \in Seq(Providers)
  BY <1>3
<1>6. \A i \in 1 .. N : order[i] \in Members
  BY DEF Members
<1>7. QED
  BY <1>2, <1>3, <1>4, <1>5, <1>6 DEF N

-----------------------------------------------------------------------------
(* Steps *)

USE DEF vars, config, evalVars, lifeVars

\* The steps of one evaluation's collector and of a goroutine, by their names
CollectorStep ==
    \/ FirstSuccessFinish \/ FirstSuccessError \/ FirstSuccessNotFound \/ FirstSuccessDone
    \/ ComparisonSingle \/ ComparisonResult \/ ComparisonNotFound \/ ComparisonDone
    \/ ComparisonFallback

\* Nothing changes the strategy, the providers or the fallback
LEMMA ConfigKept == ASSUME Next PROVE UNCHANGED <<strategy, order, fallback>>
<1>1. CASE Lifecycle
  BY <1>1 DEF Lifecycle, InitStart, InitReturn, ShutdownStart, ShutdownReturn, ProviderInit,
     ProviderShutdown
<1>2. CASE Evaluate
  BY <1>2 DEF Evaluate, FirstMatchCalled, FirstSuccessCalled, ComparisonCalled,
     ComparisonObjectEvaluation, Called
<1>3. CASE (\E p \in Providers : Answer(p)) \/ CallerCancels \/ TimeoutElapses
  BY <1>3 DEF Answer, CallerCancels, TimeoutElapses
<1>4. CASE EvaluateFirstMatch
  BY <1>4 DEF EvaluateFirstMatch
<1>5. CASE \E p \in Providers : Goroutine(p)
  BY <1>5 DEF Goroutine, FirstSuccessDeliver, ComparisonDeliver, Leave, Running
<1>6. CASE CollectorStep
  BY <1>6 DEF CollectorStep, FirstSuccessFinish, FirstSuccessError, FirstSuccessNotFound,
     FirstSuccessDone, ComparisonSingle, ComparisonResult, ComparisonNotFound, ComparisonDone,
     ComparisonFallback
<1>7. QED
  BY <1>1, <1>2, <1>3, <1>4, <1>5, <1>6 DEF Next, Environment, Collector, CollectorStep

\* Every step but those of the life cycle is one of the evaluation
EvaluationStep ==
    \/ Evaluate \/ (\E p \in Providers : Answer(p)) \/ CallerCancels \/ TimeoutElapses
    \/ EvaluateFirstMatch \/ (\E p \in Providers : Goroutine(p)) \/ CollectorStep

\* The next-state relation, in these two parts
LEMMA TwoKinds == ASSUME Next PROVE Lifecycle \/ EvaluationStep
BY DEF Next, Environment, Collector, CollectorStep, EvaluationStep

\* An evaluation leaves the configuration and the life cycle alone
LEMMA EvaluationKeeps ==
    ASSUME EvaluationStep
    PROVE  /\ UNCHANGED <<strategy, order, fallback, N, Members, Counting>>
           /\ UNCHANGED <<status, life, handler>>
<1>1. UNCHANGED <<strategy, order, fallback>>
  <2>1. Next
    BY DEF Next, Environment, Collector, EvaluationStep, CollectorStep
  <2>2. QED
    BY <2>1, ConfigKept
<1>2. UNCHANGED <<status, life, handler>>
  <2>1. CASE Evaluate
    BY <2>1 DEF Evaluate, FirstMatchCalled, FirstSuccessCalled, ComparisonCalled,
       ComparisonObjectEvaluation, Called
  <2>2. CASE (\E p \in Providers : Answer(p)) \/ CallerCancels \/ TimeoutElapses
    BY <2>2 DEF Answer, CallerCancels, TimeoutElapses
  <2>3. CASE EvaluateFirstMatch \/ \E p \in Providers : Goroutine(p)
    BY <2>3 DEF EvaluateFirstMatch, Goroutine, FirstSuccessDeliver, ComparisonDeliver, Leave, Running
  <2>4. CASE CollectorStep
    BY <2>4 DEF CollectorStep, FirstSuccessFinish, FirstSuccessError, FirstSuccessNotFound,
       FirstSuccessDone, ComparisonSingle, ComparisonResult, ComparisonNotFound, ComparisonDone,
       ComparisonFallback
  <2>5. QED
    BY <2>1, <2>2, <2>3, <2>4 DEF EvaluationStep
<1>3. QED
  BY <1>1, <1>2 DEF N, Members, Counting

\* The results that are built are results
LEMMA ResultTypes ==
    ASSUME Typed
    PROVE  /\ \A b \in BOOLEAN : BuildDefaultResult(b) \in Results
           /\ \A p \in Providers : answer[p] \in Answers => AnswerOf(p) \in Results
           /\ \A v \in Values, x \in Providers \cup {NoOne, "fallback"}, f, d \in BOOLEAN :
                 ComparisonDetail(v, x, f, d) \in Results
           /\ ComparisonDefault \in Results
           /\ [value |-> Default, code |-> "GENERAL", reason |-> "DEFAULT", variant |-> NoOne]
                 \in Results
<1>1. \A b \in BOOLEAN : BuildDefaultResult(b) \in Results
  BY ValuesAssumption DEF BuildDefaultResult, Results, Codes, Reasons
<1>2. ASSUME NEW p \in Providers, answer[p] \in Answers PROVE AnswerOf(p) \in Results
  <2>1. answer[p].value \in Values /\ answer[p].kind \in {"ok", "notFound", "error"}
    BY <1>2, ValuesAssumption DEF Answers
  <2>2. CodeOf(answer[p]) \in Codes
    BY <2>1 DEF CodeOf, Codes
  <2>3. QED
    BY <2>1, <2>2 DEF AnswerOf, Results, Reasons
<1>3. ASSUME NEW v \in Values, NEW x \in Providers \cup {NoOne, "fallback"},
             NEW f \in BOOLEAN, NEW d \in BOOLEAN
      PROVE  ComparisonDetail(v, x, f, d) \in Results
  <2>1. ComparisonResolutionError(d) \in Codes
    BY DEF ComparisonResolutionError, Codes
  <2>2. ComparisonResolutionReason(f, d) \in Reasons
    BY DEF ComparisonResolutionReason, Reasons
  <2>3. QED
    BY <2>1, <2>2 DEF ComparisonDetail, Results
<1>4. ComparisonDefault \in Results
  BY <1>3, ValuesAssumption DEF ComparisonDefault
<1>5. QED
  BY <1>1, <1>2, <1>3, <1>4, ValuesAssumption DEF Results, Codes, Reasons

\* What an answer is
LEMMA AnswerFacts ==
    ASSUME NEW a \in Answers
    PROVE  /\ a.kind \in {"ok", "notFound", "error"} /\ a.value \in Values /\ a # NoOne
BY NoOneAssumption, ValuesAssumption DEF Answers

\* How the goroutine of provider p may move in a step of the evaluation
Moves(p) ==
    \/ pc'[p] = pc[p] /\ answer'[p] = answer[p]
    \/ /\ pc[p] = "idle" /\ pc'[p] = "calling" /\ answer'[p] = answer[p] /\ p \in Members
       /\ phase' # "returned"
    \/ pc[p] = "calling" /\ pc'[p] = "answered" /\ answer'[p] \in Answers
    \/ /\ pc[p] = "answered" /\ pc'[p] = "done" /\ answer'[p] = answer[p]
       /\ Counting => answer[p].kind # "notFound"
    \/ /\ pc[p] = "answered" /\ pc'[p] = "blocked" /\ answer'[p] = answer[p]
       /\ answer[p].kind = "notFound" /\ Counting
    \/ /\ pc[p] \in {"calling", "answered"} /\ pc'[p] = "left" /\ answer'[p] = answer[p]
       /\ phase \notin {"matching", "idle", "single"} /\ done # "no"
    \/ /\ pc[p] = "blocked" /\ pc'[p] = "done" /\ answer'[p] = answer[p]
       /\ FirstSuccessNotFound \/ ComparisonNotFound

\* They move like that
LEMMA GoroutinesMove ==
    ASSUME Typed, CallsInv, PhaseInv, MatchInv, EvaluationStep
    PROVE  \A p \in Providers : Moves(p)
<1> SUFFICES ASSUME NEW p \in Providers PROVE Moves(p)
  OBVIOUS
<1>1. /\ pc \in [Providers -> {"idle", "calling", "answered", "blocked", "done", "left"}]
      /\ answer \in [Providers -> Answers \cup {NoOne}]
  BY DEF Typed
<1>2. /\ N \in Nat /\ N > 0 /\ Members \in SUBSET Providers /\ Distinct(order)
      /\ order \in Seq(Providers) /\ \A i \in 1 .. N : order[i] \in Members
  BY MembersFacts
<1>3. ASSUME UNCHANGED <<pc, answer>> PROVE Moves(p)
  BY <1>3 DEF Moves
<1>4. CASE Evaluate
  <2>1. phase = "idle" /\ pc[p] = "idle" /\ UNCHANGED answer
    BY <1>4 DEF Evaluate, FirstMatchCalled, FirstSuccessCalled, ComparisonCalled,
       ComparisonObjectEvaluation, Called, CallsInv
  <2>2. CASE \E o \in BOOLEAN : FirstMatchCalled(o)
    <3>1. pc' = [pc EXCEPT ![order[1]] = "calling"] /\ phase' = "matching"
      BY <2>2 DEF FirstMatchCalled
    <3>2. order[1] \in Members
      BY <1>2
    <3>3. QED
      BY <1>1, <1>2, <2>1, <3>1, <3>2 DEF Moves
  <2>3. CASE (\E o \in BOOLEAN : FirstSuccessCalled(o)) \/ ComparisonCalled
    <3>1. /\ pc' = [q \in Providers |-> IF q \in Members THEN "calling" ELSE "idle"]
          /\ phase' # "returned"
      BY <2>3 DEF FirstSuccessCalled, ComparisonCalled, CallAll
    <3>2. QED
      BY <2>1, <3>1 DEF Moves
  <2>4. CASE ComparisonObjectEvaluation
    BY <1>3, <2>4 DEF ComparisonObjectEvaluation, Called
  <2>5. QED
    BY <1>4, <2>2, <2>3, <2>4 DEF Evaluate
<1>5. CASE \E q \in Providers : Answer(q)
  BY <1>1, <1>5 DEF Answer, Moves
<1>6. CASE CallerCancels \/ TimeoutElapses
  BY <1>3, <1>6 DEF CallerCancels, TimeoutElapses
<1>7. CASE EvaluateFirstMatch
  <2>1. /\ phase = "matching" /\ pc[order[pos]] = "answered" /\ strategy = "first_match"
        /\ pos \in 1 .. N /\ UNCHANGED answer /\ order[pos] \in Providers
    BY <1>2, <1>7 DEF EvaluateFirstMatch, PhaseInv, MatchInv, Typed
  <2>2. ~Counting
    BY <2>1 DEF Counting
  <2>3. CASE pc' = [pc EXCEPT ![order[pos]] = "done"]
    BY <1>1, <2>1, <2>2, <2>3 DEF Moves
  <2>4. CASE /\ pos < N /\ phase' = phase
             /\ pc' = [pc EXCEPT ![order[pos]] = "done", ![order[pos + 1]] = "calling"]
    <3>1. /\ pos + 1 \in 1 .. N /\ pos + 1 \in pos + 1 .. N /\ order[pos + 1] \in Members
      BY <1>2, <2>1, <2>4
    <3>2. pc[order[pos + 1]] = "idle"
      BY <2>1, <3>1 DEF MatchInv
    <3>3. order[pos + 1] # order[pos]
      BY <2>1, <3>2
    <3>4. QED
      BY <1>1, <1>2, <2>1, <2>2, <2>4, <3>1, <3>2, <3>3 DEF Moves
  <2>5. QED
    BY <1>7, <2>3, <2>4 DEF EvaluateFirstMatch
<1>8. ASSUME NEW q \in Providers, Goroutine(q) PROVE Moves(p)
  <2>1. UNCHANGED answer /\ phase \notin {"matching", "idle", "single"}
    BY <1>8 DEF Goroutine, FirstSuccessDeliver, ComparisonDeliver, Leave, Running
  <2>2. CASE Leave(q)
    BY <1>1, <2>1, <2>2 DEF Leave, Running, Moves
  <2>3. CASE FirstSuccessDeliver(q) \/ ComparisonDeliver(q)
    <3>1. /\ pc[q] = "answered" /\ answer[q] \in Answers
          /\ pc' = [pc EXCEPT ![q] = IF answer[q].kind = "notFound" THEN "blocked" ELSE "done"]
      BY <2>3 DEF FirstSuccessDeliver, ComparisonDeliver, CallsInv
    <3>2. Counting
      <4>1. CASE strategy = "first_success"
        BY <4>1 DEF Counting
      <4>2. CASE strategy = "comparison" /\ N # 1
        BY <1>2, <4>2 DEF Counting
      <4>3. CASE strategy = "comparison" /\ N = 1
        BY <2>3, <3>1, <4>3 DEF FirstSuccessDeliver, ComparisonDeliver, Running, PhaseInv, Counting
      <4>4. QED
        BY <2>3, <4>1, <4>2, <4>3 DEF FirstSuccessDeliver, ComparisonDeliver
    <3>3. QED
      BY <1>1, <2>1, <3>1, <3>2 DEF Moves
  <2>4. QED
    BY <1>8, <2>2, <2>3 DEF Goroutine
<1>9. CASE ComparisonSingle
  <2>1. PICK q \in Members : pc[q] = "answered" /\ pc' = [pc EXCEPT ![q] = "done"]
    BY <1>9 DEF ComparisonSingle
  <2>2. UNCHANGED answer /\ ~Counting
    BY <1>9 DEF ComparisonSingle, PhaseInv, Counting
  <2>3. QED
    BY <1>1, <1>2, <2>1, <2>2 DEF Moves
<1>10. CASE FirstSuccessNotFound \/ ComparisonNotFound
  <2>1. PICK q \in Members : pc[q] = "blocked" /\ pc' = [pc EXCEPT ![q] = "done"]
    BY <1>10 DEF FirstSuccessNotFound, ComparisonNotFound
  <2>2. UNCHANGED answer
    BY <1>10 DEF FirstSuccessNotFound, ComparisonNotFound
  <2>3. QED
    BY <1>1, <1>2, <1>10, <2>1, <2>2 DEF Moves
<1>11. CASE \/ FirstSuccessFinish \/ FirstSuccessError \/ FirstSuccessDone
            \/ ComparisonResult \/ ComparisonDone \/ ComparisonFallback
  BY <1>3, <1>11 DEF FirstSuccessFinish, FirstSuccessError, FirstSuccessDone, ComparisonResult,
     ComparisonDone, ComparisonFallback
<1>12. QED
  BY <1>4, <1>5, <1>6, <1>7, <1>8, <1>9, <1>10, <1>11 DEF EvaluationStep, CollectorStep

\* Once it has begun, an evaluation does not become idle again
LEMMA NotIdleAgain ==
    ASSUME Typed, CallsInv, EvaluationStep
    PROVE  phase' # "idle"
<1>1. CASE Evaluate
  BY <1>1 DEF Evaluate, FirstMatchCalled, FirstSuccessCalled, ComparisonCalled,
     ComparisonObjectEvaluation
<1>2. CASE \E p \in Providers : Answer(p)
  BY <1>2 DEF Answer, CallsInv
<1>3. CASE CallerCancels \/ TimeoutElapses
  BY <1>3 DEF CallerCancels, TimeoutElapses
<1>4. CASE EvaluateFirstMatch
  BY <1>4 DEF EvaluateFirstMatch, Return
<1>5. CASE \E p \in Providers : Goroutine(p)
  BY <1>5 DEF Goroutine, FirstSuccessDeliver, ComparisonDeliver, Leave, Running
<1>6. CASE FirstSuccessFinish \/ FirstSuccessError \/ FirstSuccessNotFound \/ FirstSuccessDone
  BY <1>6 DEF FirstSuccessFinish, FirstSuccessError, FirstSuccessNotFound, FirstSuccessDone, Return
<1>7. CASE ComparisonSingle \/ ComparisonDone \/ ComparisonFallback
  BY <1>7 DEF ComparisonSingle, ComparisonDone, ComparisonFallback, Return
<1>8. ASSUME NEW rs, Compare(rs) PROVE phase' # "idle"
  BY <1>8 DEF Compare, Return
<1>9. CASE ComparisonResult
  BY <1>8, <1>9 DEF ComparisonResult
<1>10. CASE ComparisonNotFound
  BY <1>8, <1>10 DEF ComparisonNotFound, Return
<1>11. QED
  BY <1>1, <1>2, <1>3, <1>4, <1>5, <1>6, <1>7, <1>9, <1>10 DEF EvaluationStep, CollectorStep

\* An answer that was given stays, and so does the fact that it was delivered
LEMMA AnswersStay ==
    ASSUME Typed, CallsInv, PhaseInv, MatchInv, EvaluationStep
    PROVE  /\ \A p \in Providers : answer[p] # NoOne => answer'[p] = answer[p]
           /\ \A p \in Providers, k \in {"ok", "notFound", "error"} : Gave(p, k) => Gave(p, k)'
           /\ CallsInv'
<1>1. \A p \in Providers : Moves(p)
  BY GoroutinesMove
<1>2. Members' = Members
  BY EvaluationKeeps
<1>3. ASSUME NEW p \in Providers, answer[p] # NoOne PROVE answer'[p] = answer[p]
  BY <1>1, <1>3 DEF Moves, CallsInv
<1>4. ASSUME NEW p \in Providers, NEW k \in {"ok", "notFound", "error"}, Gave(p, k)
      PROVE  Gave(p, k)'
  BY <1>1, <1>4 DEF Moves, Gave
<1>5. CallsInv'
  <2>1. phase' # "idle"
    BY NotIdleAgain
  <2>2. ASSUME NEW p \in Providers
        PROVE  /\ p \notin Members' => pc'[p] = "idle"
               /\ pc'[p] \in {"idle", "calling"} => answer'[p] = NoOne
               /\ pc'[p] \in {"answered", "blocked", "done"} => answer'[p] \in Answers
               /\ pc'[p] = "blocked" => answer'[p].kind = "notFound"
    <3>1. Moves(p)
      BY <1>1
    <3>2. QED
      BY <1>2, <3>1 DEF Moves, CallsInv
  <2>3. QED
    BY <2>1, <2>2 DEF CallsInv
<1>6. QED
  BY <1>3, <1>4, <1>5

\* The goroutines and the answers keep their types
LEMMA MovesType ==
    ASSUME Typed, CallsInv, PhaseInv, MatchInv, EvaluationStep
    PROVE  /\ pc' \in [Providers -> {"idle", "calling", "answered", "blocked", "done", "left"}]
           /\ answer' \in [Providers -> Answers \cup {NoOne}]
<1>1. /\ pc \in [Providers -> {"idle", "calling", "answered", "blocked", "done", "left"}]
      /\ answer \in [Providers -> Answers \cup {NoOne}]
  BY DEF Typed
<1>2. CASE Evaluate
  BY <1>1, <1>2 DEF Evaluate, FirstMatchCalled, FirstSuccessCalled, ComparisonCalled,
     ComparisonObjectEvaluation, Called, CallAll
<1>3. CASE \E p \in Providers : Answer(p)
  BY <1>1, <1>3 DEF Answer
<1>4. CASE CallerCancels \/ TimeoutElapses
  BY <1>1, <1>4 DEF CallerCancels, TimeoutElapses
<1>5. CASE EvaluateFirstMatch
  BY <1>1, <1>5 DEF EvaluateFirstMatch
<1>6. CASE \E p \in Providers : Goroutine(p)
  BY <1>1, <1>6 DEF Goroutine, FirstSuccessDeliver, ComparisonDeliver, Leave, Running
<1>7. CASE FirstSuccessFinish \/ FirstSuccessError \/ FirstSuccessNotFound \/ FirstSuccessDone
  BY <1>1, <1>7 DEF FirstSuccessFinish, FirstSuccessError, FirstSuccessNotFound, FirstSuccessDone
<1>8. CASE ComparisonSingle \/ ComparisonResult \/ ComparisonNotFound
  BY <1>1, <1>8 DEF ComparisonSingle, ComparisonResult, ComparisonNotFound
<1>9. CASE ComparisonDone \/ ComparisonFallback
  BY <1>1, <1>9 DEF ComparisonDone, ComparisonFallback
<1>10. QED
  BY <1>2, <1>3, <1>4, <1>5, <1>6, <1>7, <1>8, <1>9 DEF EvaluationStep, CollectorStep

\* What an evaluation returns with is well typed
LEMMA ReturnType ==
    ASSUME Typed, NEW r \in Results, Return(r)
    PROVE  phase' = "returned" /\ result' = r
           /\ done' \in {"no", "timeout", "cancelled", "failed", "over"}
BY DEF Return, Typed

\* The part of the types that the steps of an evaluation change
EvaluationTyped ==
    /\ phase \in {"idle", "matching", "single", "collecting", "fallback", "returned", "panicked"}
    /\ pos \in 0 .. N
    /\ finish \in Seq(Providers) /\ errChan \in SUBSET Providers
    /\ taken \in TakenRecord
    /\ done \in {"no", "timeout", "cancelled", "failed", "over"}
    /\ result \in Results \cup {NoOne}

\* The two flags of an evaluation
LEMMA FlagsType ==
    ASSUME Typed, EvaluationStep
    PROVE  object' \in BOOLEAN /\ elapsed' \in BOOLEAN
<1>1. object \in BOOLEAN /\ elapsed \in BOOLEAN
  BY DEF Typed
<1>2. CASE Evaluate
  BY <1>1, <1>2 DEF Evaluate, FirstMatchCalled, FirstSuccessCalled, ComparisonCalled,
     ComparisonObjectEvaluation, Called
<1>3. CASE (\E p \in Providers : Answer(p)) \/ CallerCancels \/ TimeoutElapses
  BY <1>1, <1>3 DEF Answer, CallerCancels, TimeoutElapses
<1>4. CASE EvaluateFirstMatch
  BY <1>1, <1>4 DEF EvaluateFirstMatch
<1>5. CASE \E p \in Providers : Goroutine(p)
  BY <1>1, <1>5 DEF Goroutine, FirstSuccessDeliver, ComparisonDeliver, Leave, Running
<1>6. CASE CollectorStep
  BY <1>1, <1>6 DEF CollectorStep, FirstSuccessFinish, FirstSuccessError, FirstSuccessNotFound,
     FirstSuccessDone, ComparisonSingle, ComparisonResult, ComparisonNotFound, ComparisonDone,
     ComparisonFallback
<1>7. QED
  BY <1>2, <1>3, <1>4, <1>5, <1>6 DEF EvaluationStep

\* The collector's record, field by field
LEMMA TakenTypes ==
    ASSUME NEW t \in TakenRecord
    PROVE  /\ \A p \in Providers : [t EXCEPT !.results = Append(@, p)] \in TakenRecord
           /\ \A p \in Providers : [t EXCEPT !.errors = @ \cup {p}] \in TakenRecord
           /\ [t EXCEPT !.notFound = @ + 1] \in TakenRecord
<1>1. t.results \in Seq(Providers) /\ t.errors \in SUBSET Providers /\ t.notFound \in Nat
  BY DEF TakenRecord
<1>2. ASSUME NEW p \in Providers PROVE [t EXCEPT !.results = Append(@, p)] \in TakenRecord
  <2>1. Append(t.results, p) \in Seq(Providers)
    BY <1>1
  <2>2. QED
    BY <1>1, <2>1 DEF TakenRecord
<1>3. ASSUME NEW p \in Providers PROVE [t EXCEPT !.errors = @ \cup {p}] \in TakenRecord
  BY <1>1 DEF TakenRecord
<1>4. [t EXCEPT !.notFound = @ + 1] \in TakenRecord
  BY <1>1 DEF TakenRecord
<1>5. QED
  BY <1>2, <1>3, <1>4

\* Every step of an evaluation keeps the types
LEMMA EvaluationType ==
    ASSUME Typed, CallsInv, Delivered, PhaseInv, MatchInv, EvaluationStep
    PROVE  Typed'
<1> SUFFICES EvaluationTyped'
  <2>1. /\ pc' \in [Providers -> {"idle", "calling", "answered", "blocked", "done", "left"}]
        /\ answer' \in [Providers -> Answers \cup {NoOne}]
    BY MovesType
  <2>2. UNCHANGED <<strategy, order, fallback, status, life, handler>>
    BY EvaluationKeeps
  <2>3. QED
    BY <2>1, <2>2, FlagsType DEF Typed, EvaluationTyped
<1>1. N \in Nat /\ N > 0 /\ N' = N /\ Members \in SUBSET Providers
  BY MembersFacts, EvaluationKeeps
<1>a. /\ phase \in {"idle", "matching", "single", "collecting", "fallback", "returned", "panicked"}
      /\ pos \in 0 .. N /\ finish \in Seq(Providers) /\ errChan \in SUBSET Providers
      /\ taken \in TakenRecord /\ result \in Results \cup {NoOne}
      /\ done \in {"no", "timeout", "cancelled", "failed", "over"}
  BY DEF Typed
<1>2. ASSUME NEW r \in Results, Return(r), UNCHANGED pos,
             finish' \in Seq(Providers), errChan' \in SUBSET Providers, taken' \in TakenRecord
      PROVE  EvaluationTyped'
  BY <1>1, <1>a, <1>2, ReturnType DEF EvaluationTyped
<1>3. ASSUME UNCHANGED <<phase, pos, finish, errChan, taken, result>>,
             done' \in {"no", "timeout", "cancelled", "failed", "over"}
      PROVE  EvaluationTyped'
  BY <1>1, <1>a, <1>3 DEF EvaluationTyped
<1>4. ASSUME UNCHANGED <<phase, pos, result>>,
             finish' \in Seq(Providers), errChan' \in SUBSET Providers, taken' \in TakenRecord,
             done' \in {"no", "timeout", "cancelled", "failed", "over"}
      PROVE  EvaluationTyped'
  BY <1>1, <1>a, <1>4 DEF EvaluationTyped
<1>5. CASE Evaluate
  <2>1. UNCHANGED <<finish, errChan, taken, done>>
    BY <1>5 DEF Evaluate, FirstMatchCalled, FirstSuccessCalled, ComparisonCalled,
       ComparisonObjectEvaluation, Called
  <2>2. /\ phase' \in {"matching", "single", "collecting", "returned"}
        /\ pos' \in {pos, 1} /\ result' \in Results \cup {NoOne}
    BY <1>1, <1>a, <1>5, ResultTypes DEF Evaluate, FirstMatchCalled, FirstSuccessCalled, ComparisonCalled,
       ComparisonObjectEvaluation, EvaluationTyped
  <2>3. pos' \in 0 .. N
    BY <1>1, <1>a, <2>2 DEF EvaluationTyped
  <2>4. QED
    BY <1>1, <1>a, <2>1, <2>2, <2>3 DEF EvaluationTyped
<1>6. CASE (\E p \in Providers : Answer(p)) \/ CallerCancels
  BY <1>1, <1>a, <1>3, <1>6 DEF Answer, CallerCancels
<1>7. CASE TimeoutElapses
  <2>1. done' \in {"no", "timeout", "cancelled", "failed", "over"}
    BY <1>1, <1>a, <1>7 DEF TimeoutElapses, EvaluationTyped
  <2>2. UNCHANGED <<phase, pos, finish, errChan, taken, result>>
    BY <1>7 DEF TimeoutElapses
  <2>3. QED
    BY <1>1, <1>a, <2>1, <2>2 DEF EvaluationTyped
<1>8. CASE EvaluateFirstMatch
  <2>1. /\ pos \in 1 .. N /\ answer[order[pos]] \in Answers /\ order[pos] \in Providers
        /\ UNCHANGED <<finish, errChan, taken>>
    BY <1>1, <1>a, <1>8, MembersFacts DEF EvaluateFirstMatch, PhaseInv, MatchInv, CallsInv, Typed
  <2>2. CASE pos < N /\ pos' = pos + 1 /\ UNCHANGED <<phase, result, done>>
    BY <1>1, <1>a, <2>1, <2>2 DEF EvaluationTyped
  <2>3. CASE UNCHANGED pos /\ Return(BuildDefaultResult(FALSE))
    <3>1. BuildDefaultResult(FALSE) \in Results
      BY ResultTypes
    <3>2. QED
      BY <1>1, <1>a, <1>2, <2>1, <2>3, <3>1
  <2>4. CASE UNCHANGED pos /\ Return(AnswerOf(order[pos]))
    BY <1>1, <1>a, <1>2, <2>1, <2>4, ResultTypes
  <2>5. QED
    BY <1>8, <2>2, <2>3, <2>4 DEF EvaluateFirstMatch
<1>9. ASSUME NEW p \in Providers, Goroutine(p) PROVE EvaluationTyped'
  <2>1. UNCHANGED <<phase, pos, taken, result>>
    BY <1>9 DEF Goroutine, FirstSuccessDeliver, ComparisonDeliver, Leave, Running
  <2>2. /\ finish' \in Seq(Providers) /\ errChan' \in SUBSET Providers
        /\ done' \in {"no", "timeout", "cancelled", "failed", "over"}
    BY <1>1, <1>a, <1>9 DEF Goroutine, FirstSuccessDeliver, ComparisonDeliver, Leave, EvaluationTyped
  <2>3. QED
    BY <1>1, <1>a, <1>4, <2>1, <2>2
<1>10. ASSUME finish # <<>>
       PROVE  /\ Head(finish) \in Providers /\ answer[Head(finish)] \in Answers
              /\ Tail(finish) \in Seq(Providers) /\ Head(finish) = finish[1] /\ 1 \in DOMAIN finish
  <2>1. /\ Head(finish) \in Providers /\ Tail(finish) \in Seq(Providers)
        /\ Head(finish) = finish[1] /\ 1 \in DOMAIN finish
    BY <1>1, <1>a, <1>10 DEF EvaluationTyped
  <2>2. QED
    BY <2>1 DEF Delivered, Gave, CallsInv
<1>11. CASE FirstSuccessFinish
  <2>1. /\ finish # <<>> /\ finish' = Tail(finish) /\ Return(AnswerOf(Head(finish)))
        /\ UNCHANGED <<pos, errChan, taken>>
    BY <1>11 DEF FirstSuccessFinish, FirstSuccessDetail
  <2>2. AnswerOf(Head(finish)) \in Results
    BY <1>10, <2>1, ResultTypes
  <2>3. QED
    BY <1>1, <1>a, <1>2, <1>10, <2>1, <2>2
<1>12. CASE FirstSuccessError
  <2>1. PICK p \in errChan : errChan' = errChan \ {p} /\ taken' = [taken EXCEPT !.errors = @ \cup {p}]
    BY <1>12 DEF FirstSuccessError
  <2>2. taken' \in TakenRecord /\ errChan' \in SUBSET Providers
    BY <1>1, <1>a, <2>1, TakenTypes DEF EvaluationTyped
  <2>3. /\ Return(BuildDefaultResult(TRUE)) \/ UNCHANGED <<phase, result, done>>
        /\ UNCHANGED <<pos, finish>>
    BY <1>12 DEF FirstSuccessError
  <2>4. BuildDefaultResult(TRUE) \in Results
    BY ResultTypes
  <2>5. QED
    BY <1>1, <1>a, <1>2, <1>4, <2>2, <2>3, <2>4
<1>13. CASE FirstSuccessNotFound
  <2>1. taken' \in TakenRecord
    BY <1>1, <1>a, <1>13, TakenTypes DEF FirstSuccessNotFound, EvaluationTyped
  <2>2. /\ Return(BuildDefaultResult(FALSE)) \/ UNCHANGED <<phase, result, done>>
        /\ UNCHANGED <<pos, finish, errChan>>
    BY <1>13 DEF FirstSuccessNotFound
  <2>3. BuildDefaultResult(FALSE) \in Results
    BY ResultTypes
  <2>4. QED
    BY <1>1, <1>a, <1>2, <1>4, <2>1, <2>2, <2>3
<1>14. CASE FirstSuccessDone
  <2>1. BuildDefaultResult(TRUE) \in Results
    BY ResultTypes
  <2>2. QED
    BY <1>1, <1>a, <1>2, <1>14, <2>1 DEF FirstSuccessDone
<1>15. CASE ComparisonDone
  <2>1. ComparisonDefault \in Results
    BY ResultTypes
  <2>2. QED
    BY <1>1, <1>a, <1>2, <1>15, <2>1 DEF ComparisonDone
<1>16. CASE ComparisonSingle
  <2>1. PICK p \in Members : /\ pc[p] = "answered"
                             /\ Return(ComparisonDetail(answer[p].value, p, FALSE, FALSE))
    BY <1>16 DEF ComparisonSingle
  <2>2. answer[p] \in Answers /\ p \in Providers
    BY <1>1, <1>a, <2>1 DEF CallsInv
  <2>3. answer[p].value \in Values
    BY <2>2, AnswerFacts
  <2>4. ComparisonDetail(answer[p].value, p, FALSE, FALSE) \in Results
    BY <2>2, <2>3, ResultTypes
  <2>5. QED
    BY <1>1, <1>a, <1>2, <1>16, <2>1, <2>4 DEF ComparisonSingle
<1>17. CASE ComparisonFallback
  <2>1. UNCHANGED <<pos, finish, errChan, taken>>
    BY <1>17 DEF ComparisonFallback
  <2>2. CASE phase' = "panicked" /\ UNCHANGED <<result, done>>
    BY <1>1, <1>a, <2>1, <2>2 DEF EvaluationTyped
  <2>3. ASSUME NEW a \in Answers, Return(ComparisonDetail(a.value, "fallback", TRUE, FALSE))
        PROVE  EvaluationTyped'
    <3>1. a.value \in Values
      BY AnswerFacts
    <3>2. ComparisonDetail(a.value, "fallback", TRUE, FALSE) \in Results
      BY <3>1, ResultTypes
    <3>3. QED
      BY <1>1, <1>a, <1>2, <2>1, <2>3, <3>2
  <2>4. QED
    BY <1>17, <2>2, <2>3 DEF ComparisonFallback
<1>18. ASSUME NEW rs \in Seq(Providers), Compare(rs), rs # <<>>,
              \A i \in DOMAIN rs : answer[rs[i]] \in Answers,
              UNCHANGED <<pos, errChan>>,
              finish' \in Seq(Providers), taken' \in TakenRecord
       PROVE  EvaluationTyped'
  <2>1. rs[1] \in Providers /\ answer[rs[1]] \in Answers
    BY <1>18
  <2>2. answer[rs[1]].value \in Values
    BY <2>1, AnswerFacts
  <2>3. /\ ComparisonDetail(answer[rs[1]].value, rs[1], FALSE, FALSE) \in Results
        /\ ComparisonDefault \in Results
    BY <2>1, <2>2, ResultTypes
  <2>4. CASE phase' = "fallback" /\ UNCHANGED <<result, done>>
    BY <1>1, <1>a, <1>18, <2>4 DEF EvaluationTyped
  <2>5. QED
    BY <1>1, <1>a, <1>2, <1>18, <2>3, <2>4 DEF Compare
<1>19. /\ taken.results \in Seq(Providers)
       /\ \A i \in DOMAIN taken.results : answer[taken.results[i]] \in Answers
  BY <1>a DEF TakenRecord, Delivered, Gave, CallsInv
<1>20. CASE ComparisonResult
  <2>1. /\ finish # <<>> /\ finish' = Tail(finish)
        /\ taken' = [taken EXCEPT !.results = Append(@, Head(finish))]
        /\ UNCHANGED <<pos, errChan>>
        /\ Compare(taken'.results) \/ UNCHANGED <<phase, result, done>>
    BY <1>20 DEF ComparisonResult
  <2> DEFINE h == Head(finish)
             rs == Append(taken.results, h)
  <2>2. h \in Providers /\ answer[h] \in Answers /\ finish' \in Seq(Providers)
    BY <1>10, <2>1
  <2>3. taken' \in TakenRecord /\ taken'.results = rs
    BY <1>1, <1>a, <2>1, <2>2, TakenTypes DEF EvaluationTyped, TakenRecord
  <2> HIDE DEF h
  <2>4. rs \in Seq(Providers) /\ rs # <<>> /\ \A i \in DOMAIN rs : answer[rs[i]] \in Answers
    <3>1. /\ rs \in Seq(Providers) /\ rs # <<>> /\ DOMAIN rs = 1 .. Len(taken.results) + 1
          /\ \A i \in DOMAIN rs : (i \in DOMAIN taken.results /\ rs[i] = taken.results[i]) \/ rs[i] = h
      BY <1>19, <2>2
    <3>2. QED
      BY <1>19, <2>2, <3>1
  <2> HIDE DEF rs
  <2>5. QED
    BY <1>1, <1>a, <1>4, <1>18, <2>1, <2>2, <2>3, <2>4
<1>21. CASE ComparisonNotFound
  <2>1. /\ taken' = [taken EXCEPT !.notFound = @ + 1] /\ taken' \in TakenRecord
        /\ UNCHANGED <<pos, errChan, finish>>
    BY <1>1, <1>a, <1>21, TakenTypes DEF ComparisonNotFound, EvaluationTyped
  <2>2. CASE Return(ComparisonDefault)
    <3>1. ComparisonDefault \in Results
      BY ResultTypes
    <3>2. QED
      BY <1>1, <1>a, <1>2, <2>1, <2>2, <3>1
  <2>3. CASE UNCHANGED <<phase, result, done>>
    BY <1>1, <1>a, <1>4, <2>1, <2>3
  <2>4. CASE taken'.notFound < N /\ Len(taken.results) + taken'.notFound = N /\ Compare(taken.results)
    <3>1. taken.results # <<>>
      BY <1>1, <1>a, <1>19, <2>1, <2>4 DEF TakenRecord
    <3>2. QED
      BY <1>1, <1>a, <1>18, <1>19, <2>1, <2>4, <3>1
  <2>5. QED
    BY <1>21, <2>2, <2>3, <2>4 DEF ComparisonNotFound
<1>22. QED
  BY <1>5, <1>6, <1>7, <1>8, <1>9, <1>11, <1>12, <1>13, <1>14, <1>15, <1>16, <1>17, <1>20, <1>21
     DEF EvaluationStep, CollectorStep

-----------------------------------------------------------------------------
(* What was delivered, and how it is counted *)

\* Appending a newcomer to, or taking the head off, a list without repetition
LEMMA DistinctLists ==
    ASSUME NEW s \in Seq(Providers), Distinct(s)
    PROVE  /\ \A p \in Providers : (\A i \in DOMAIN s : s[i] # p) => Distinct(Append(s, p))
           /\ \A p \in Providers : \A i \in DOMAIN Append(s, p) :
                 (i \in DOMAIN s /\ Append(s, p)[i] = s[i]) \/ Append(s, p)[i] = p
           /\ s # <<>> =>
                 /\ Head(s) = s[1] /\ 1 \in DOMAIN s /\ Tail(s) \in Seq(Providers)
                 /\ Distinct(Tail(s))
                 /\ \A i \in DOMAIN Tail(s) :
                       i + 1 \in DOMAIN s /\ Tail(s)[i] = s[i + 1] /\ Tail(s)[i] # Head(s)
<1>1. Len(s) \in Nat /\ DOMAIN s = 1 .. Len(s)
  OBVIOUS
<1>2. ASSUME NEW p \in Providers
      PROVE  /\ DOMAIN Append(s, p) = 1 .. Len(s) + 1
             /\ \A i \in 1 .. Len(s) : Append(s, p)[i] = s[i]
             /\ Append(s, p)[Len(s) + 1] = p
  OBVIOUS
<1>3. ASSUME NEW p \in Providers, \A i \in DOMAIN s : s[i] # p PROVE Distinct(Append(s, p))
  BY <1>1, <1>2, <1>3 DEF Distinct
<1>4. ASSUME NEW p \in Providers, NEW i \in DOMAIN Append(s, p)
      PROVE  (i \in DOMAIN s /\ Append(s, p)[i] = s[i]) \/ Append(s, p)[i] = p
  BY <1>1, <1>2
<1>5. ASSUME s # <<>>
      PROVE  /\ Head(s) = s[1] /\ 1 \in DOMAIN s /\ Tail(s) \in Seq(Providers)
             /\ Distinct(Tail(s))
             /\ \A i \in DOMAIN Tail(s) :
                   i + 1 \in DOMAIN s /\ Tail(s)[i] = s[i + 1] /\ Tail(s)[i] # Head(s)
  <2>1. Head(s) = s[1] /\ 1 \in DOMAIN s /\ Tail(s) \in Seq(Providers)
    BY <1>5
  <2>2. \A i \in DOMAIN Tail(s) : i \in Nat /\ i > 0 /\ i + 1 \in DOMAIN s /\ Tail(s)[i] = s[i + 1]
    BY <1>5
  <2>3. QED
    BY <2>1, <2>2 DEF Distinct
<1>6. QED
  BY <1>3, <1>4, <1>5

\* The same of the state after the step
GaveNext(p, kind) == p \in Providers /\ pc'[p] = "done" /\ answer'[p].kind = kind

\* The lists and sets of what was delivered change in five ways
LEMMA DeliveredStep ==
    ASSUME Typed, CallsInv, Delivered, PhaseInv, MatchInv, EvaluationStep
    PROVE  Delivered'
<1>1. /\ finish \in Seq(Providers) /\ taken.results \in Seq(Providers)
      /\ errChan \in SUBSET Providers /\ taken.errors \in SUBSET Providers /\ taken \in TakenRecord
  BY DEF Typed, TakenRecord
<1>2. \A p \in Providers, k \in {"ok", "notFound", "error"} : Gave(p, k) => Gave(p, k)'
  BY AnswersStay
<1>a. \A p \in Providers, k \in {"ok", "notFound", "error"} : Gave(p, k) => GaveNext(p, k)
  BY <1>2 DEF Gave, GaveNext
<1>3. /\ \A i \in DOMAIN finish : finish[i] \in Providers /\ GaveNext(finish[i], "ok")
      /\ \A i \in DOMAIN taken.results :
            taken.results[i] \in Providers /\ GaveNext(taken.results[i], "ok")
      /\ \A p \in errChan \cup taken.errors : GaveNext(p, "error")
  <2>1. ASSUME NEW i \in DOMAIN finish PROVE finish[i] \in Providers /\ GaveNext(finish[i], "ok")
    BY <1>1, <1>a DEF Delivered
  <2>2. ASSUME NEW i \in DOMAIN taken.results
        PROVE  taken.results[i] \in Providers /\ GaveNext(taken.results[i], "ok")
    BY <1>1, <1>a DEF Delivered
  <2>3. ASSUME NEW p \in errChan \cup taken.errors PROVE GaveNext(p, "error")
    BY <1>1, <1>a DEF Delivered
  <2>4. QED
    BY <2>1, <2>2, <2>3
<1>4. ASSUME UNCHANGED <<finish, errChan>>, taken'.results = taken.results,
             taken'.errors = taken.errors
      PROVE  Delivered'
  BY <1>3, <1>4 DEF Delivered, Gave, GaveNext
<1>5. CASE \/ Evaluate \/ (\E p \in Providers : Answer(p)) \/ CallerCancels \/ TimeoutElapses
           \/ EvaluateFirstMatch
  BY <1>4, <1>5 DEF Evaluate, FirstMatchCalled, FirstSuccessCalled, ComparisonCalled,
     ComparisonObjectEvaluation, Called, Answer, CallerCancels, TimeoutElapses, EvaluateFirstMatch
<1>6. CASE FirstSuccessDone \/ ComparisonSingle \/ ComparisonDone \/ ComparisonFallback
  BY <1>4, <1>6 DEF FirstSuccessDone, ComparisonSingle, ComparisonDone, ComparisonFallback
<1>7. CASE FirstSuccessNotFound \/ ComparisonNotFound
  <2>1. UNCHANGED <<finish, errChan>> /\ taken' = [taken EXCEPT !.notFound = @ + 1]
    BY <1>7 DEF FirstSuccessNotFound, ComparisonNotFound
  <2>2. taken'.results = taken.results /\ taken'.errors = taken.errors
    BY <1>1, <2>1 DEF TakenRecord
  <2>3. QED
    BY <1>4, <2>1, <2>2
<1>8. CASE FirstSuccessError
  <2>1. PICK p \in errChan : errChan' = errChan \ {p} /\ taken' = [taken EXCEPT !.errors = @ \cup {p}]
    BY <1>8 DEF FirstSuccessError
  <2>2. UNCHANGED finish /\ taken'.results = taken.results /\ taken'.errors = taken.errors \cup {p}
    BY <1>1, <1>8, <2>1 DEF FirstSuccessError, TakenRecord
  <2>3. QED
    BY <1>3, <2>1, <2>2 DEF Delivered, Gave, GaveNext
<1>9. CASE FirstSuccessFinish
  <2>1. finish # <<>> /\ finish' = Tail(finish) /\ UNCHANGED <<errChan, taken>>
    BY <1>9 DEF FirstSuccessFinish
  <2>2. /\ Distinct(Tail(finish))
        /\ \A i \in DOMAIN Tail(finish) : i + 1 \in DOMAIN finish /\ Tail(finish)[i] = finish[i + 1]
    BY <1>1, <2>1, DistinctLists DEF Delivered
  <2>3. QED
    BY <1>3, <2>1, <2>2 DEF Delivered, Gave, GaveNext
<1>10. CASE ComparisonResult
  <2> DEFINE h == Head(finish)
             rs == Append(taken.results, h)
  <2>1. /\ finish # <<>> /\ finish' = Tail(finish) /\ UNCHANGED errChan
        /\ taken' = [taken EXCEPT !.results = Append(@, Head(finish))]
    BY <1>10 DEF ComparisonResult
  <2>2. taken'.results = rs /\ taken'.errors = taken.errors
    BY <1>1, <2>1 DEF TakenRecord
  <2>3. /\ Distinct(finish') /\ h = finish[1] /\ 1 \in DOMAIN finish
        /\ \A i \in DOMAIN finish' :
              i + 1 \in DOMAIN finish /\ finish'[i] = finish[i + 1] /\ finish'[i] # h
    BY <1>1, <2>1, DistinctLists DEF Delivered
  <2>4. h \in Providers /\ GaveNext(h, "ok") /\ \A i \in DOMAIN taken.results : taken.results[i] # h
    BY <1>3, <2>3 DEF Delivered
  <2> HIDE DEF h
  <2>5. /\ Distinct(rs)
        /\ \A i \in DOMAIN rs : (i \in DOMAIN taken.results /\ rs[i] = taken.results[i]) \/ rs[i] = h
    BY <1>1, <2>4, DistinctLists DEF Delivered
  <2> HIDE DEF rs
  <2>6. \A i \in DOMAIN finish' : GaveNext(finish'[i], "ok")
    BY <1>3, <2>3
  <2>7. \A i \in DOMAIN rs : GaveNext(rs[i], "ok")
    BY <1>3, <2>4, <2>5
  <2>8. \A i \in DOMAIN finish', j \in DOMAIN rs : finish'[i] # rs[j]
    BY <2>3, <2>5 DEF Delivered
  <2>9. \A p \in errChan' \cup taken'.errors : GaveNext(p, "error")
    BY <1>3, <2>1, <2>2
  <2>10. /\ Distinct(taken'.results) /\ \A i \in DOMAIN taken'.results : GaveNext(taken'.results[i], "ok")
         /\ \A i \in DOMAIN finish', j \in DOMAIN taken'.results : finish'[i] # taken'.results[j]
    BY <2>2, <2>5, <2>7, <2>8
  <2>11. QED
    BY <2>3, <2>6, <2>9, <2>10 DEF Delivered, Gave, GaveNext, Distinct
<1>11. ASSUME NEW p \in Providers, Goroutine(p) PROVE Delivered'
  <2>1. CASE Leave(p)
    BY <1>4, <2>1 DEF Leave, Running
  <2>2. CASE FirstSuccessDeliver(p) \/ ComparisonDeliver(p)
    <3>1. /\ pc[p] = "answered" /\ answer' = answer /\ taken' = taken
          /\ finish' \in {finish, Append(finish, p)} /\ errChan' \in {errChan, errChan \cup {p}}
          /\ finish' # finish => answer[p].kind = "ok"
          /\ errChan' # errChan => answer[p].kind = "error"
          /\ pc' = [pc EXCEPT ![p] = IF answer[p].kind = "notFound" THEN "blocked" ELSE "done"]
      BY <2>2 DEF FirstSuccessDeliver, ComparisonDeliver, Running
    <3>2. /\ finish' # finish => GaveNext(p, "ok")
          /\ errChan' # errChan => GaveNext(p, "error")
      BY <3>1 DEF GaveNext, Typed
    <3>3. /\ \A i \in DOMAIN finish : finish[i] # p
          /\ \A i \in DOMAIN taken.results : taken.results[i] # p
      BY <3>1 DEF Delivered, Gave
    <3>4. CASE finish' = finish
      BY <1>3, <3>1, <3>2, <3>4 DEF Delivered, Gave, GaveNext
    <3>5. CASE finish' # finish
      <4>1. finish' = Append(finish, p) /\ UNCHANGED taken /\ GaveNext(p, "ok")
        BY <3>1, <3>2, <3>5
      <4>2. /\ Distinct(finish')
            /\ \A i \in DOMAIN finish' : (i \in DOMAIN finish /\ finish'[i] = finish[i]) \/ finish'[i] = p
        BY <1>1, <3>3, <4>1, DistinctLists DEF Delivered
      <4>3. \A i \in DOMAIN finish' : GaveNext(finish'[i], "ok")
        BY <1>3, <4>1, <4>2
      <4>4. \A i \in DOMAIN finish', j \in DOMAIN taken.results : finish'[i] # taken.results[j]
        BY <3>3, <4>2 DEF Delivered
      <4>5. \A q \in errChan' \cup taken.errors : GaveNext(q, "error")
        BY <1>3, <3>1, <3>2
      <4>6. QED
        BY <1>3, <4>1, <4>2, <4>3, <4>4, <4>5 DEF Delivered, Gave, GaveNext
    <3>6. QED
      BY <3>4, <3>5
  <2>3. QED
    BY <1>11, <2>1, <2>2 DEF Goroutine
<1>12. QED
  BY <1>5, <1>6, <1>7, <1>8, <1>9, <1>10, <1>11 DEF EvaluationStep, CollectorStep

\* "Not found" is counted once for every provider that gave it
LEMMA CountedStep ==
    ASSUME Typed, CallsInv, Counted, PhaseInv, MatchInv, EvaluationStep
    PROVE  Counted'
<1>1. \A p \in Providers : Moves(p)
  BY GoroutinesMove
<1>2. UNCHANGED Counting
  BY EvaluationKeeps
<1>3. taken \in TakenRecord /\ IsFiniteSet(GaveNotFound)
  BY ProvidersAssumption, FS_Subset DEF Typed, GaveNotFound
<1>4. CASE FirstSuccessNotFound \/ ComparisonNotFound
  <2>1. PICK p \in Members : pc[p] = "blocked" /\ pc' = [pc EXCEPT ![p] = "done"]
    BY <1>4 DEF FirstSuccessNotFound, ComparisonNotFound
  <2>2. /\ UNCHANGED answer /\ taken' = [taken EXCEPT !.notFound = @ + 1] /\ Counting
        /\ p \in Providers /\ answer[p].kind = "notFound"
    BY <1>4, <2>1, MembersFacts DEF FirstSuccessNotFound, ComparisonNotFound, PhaseInv, CallsInv
  <2>3. GaveNotFound' = GaveNotFound \cup {p} /\ p \notin GaveNotFound
    BY <2>1, <2>2 DEF GaveNotFound, Gave, Typed
  <2>4. Cardinality(GaveNotFound') = Cardinality(GaveNotFound) + 1
    BY <1>3, <2>3, FS_AddElement
  <2>5. taken'.notFound = taken.notFound + 1
    BY <1>3, <2>2 DEF TakenRecord
  <2>6. QED
    BY <1>2, <2>2, <2>4, <2>5 DEF Counted
<1>5. CASE ~(FirstSuccessNotFound \/ ComparisonNotFound)
  <2>1. Counting => GaveNotFound' = GaveNotFound
    <3>1. ASSUME Counting, NEW p \in Providers PROVE Gave(p, "notFound")' <=> Gave(p, "notFound")
      BY <1>1, <1>5, <3>1 DEF Moves, Gave
    <3>2. QED
      BY <3>1 DEF GaveNotFound
  <2>2. taken'.notFound = taken.notFound
    <3>1. CASE \/ Evaluate \/ (\E p \in Providers : Answer(p)) \/ CallerCancels \/ TimeoutElapses
               \/ EvaluateFirstMatch
      BY <3>1 DEF Evaluate, FirstMatchCalled, FirstSuccessCalled, ComparisonCalled,
         ComparisonObjectEvaluation, Called, Answer, CallerCancels, TimeoutElapses, EvaluateFirstMatch
    <3>2. CASE \E p \in Providers : Goroutine(p)
      BY <3>2 DEF Goroutine, FirstSuccessDeliver, ComparisonDeliver, Leave, Running
    <3>3. CASE \/ FirstSuccessFinish \/ FirstSuccessDone \/ ComparisonSingle \/ ComparisonDone
               \/ ComparisonFallback
      BY <3>3 DEF FirstSuccessFinish, FirstSuccessDone, ComparisonSingle, ComparisonDone,
         ComparisonFallback
    <3>4. CASE FirstSuccessError \/ ComparisonResult
      BY <1>3, <3>4 DEF FirstSuccessError, ComparisonResult, TakenRecord
    <3>5. QED
      BY <1>5, <3>1, <3>2, <3>3, <3>4 DEF EvaluationStep, CollectorStep
  <2>3. QED
    BY <1>2, <2>1, <2>2 DEF Counted
<1>6. QED
  BY <1>4, <1>5

-----------------------------------------------------------------------------
(* The phases of an evaluation *)

\* Whoever has answered is a provider of the map, and the answers grow
LEMMA AnsweredFacts ==
    ASSUME Typed, CallsInv, PhaseInv, MatchInv, EvaluationStep
    PROVE  /\ \A p \in Providers : answer[p] # NoOne => p \in Members
           /\ \A p \in Providers : answer'[p] # NoOne => p \in Members
           /\ \A k \in {"ok", "notFound", "error"} : Answered(k) \subseteq Answered(k)'
           /\ (\A p \in Members : answer[p] # NoOne) => answer' = answer
<1>1. CallsInv' /\ \A p \in Providers : answer[p] # NoOne => answer'[p] = answer[p]
  BY AnswersStay
<1>2. UNCHANGED Members
  BY EvaluationKeeps
<1>3. /\ \A p \in Providers : answer[p] # NoOne => p \in Members
      /\ \A p \in Providers : answer'[p] # NoOne => p \in Members
  BY <1>1, <1>2 DEF CallsInv
<1>4. \A k \in {"ok", "notFound", "error"} : Answered(k) \subseteq Answered(k)'
  BY <1>1 DEF Answered
<1>5. ASSUME \A p \in Members : answer[p] # NoOne PROVE answer' = answer
  <2>1. /\ answer \in [Providers -> Answers \cup {NoOne}]
        /\ answer' \in [Providers -> Answers \cup {NoOne}]
    BY MovesType DEF Typed
  <2>2. \A p \in Providers : answer'[p] = answer[p]
    BY <1>1, <1>3, <1>5
  <2>3. QED
    BY <2>1, <2>2
<1>6. QED
  BY <1>3, <1>4, <1>5

\* After the end only goroutines go on, which may still fail the group
LEMMA EndedStays ==
    ASSUME Typed, CallsInv, PhaseInv, MatchInv, Ended, EvaluationStep
    PROVE  /\ UNCHANGED <<phase, result, object>> /\ (strategy # "first_match")
           /\ \/ done' = done
              \/ /\ strategy = "comparison" /\ done = "no" /\ done' = "failed"
                 /\ \E p \in Members : answer[p] \in Answers /\ answer[p].kind = "error"
<1>1. phase \in {"returned", "panicked"}
  BY DEF Ended
<1>2. (\E p \in Providers : Answer(p)) \/ (\E p \in Providers : Goroutine(p))
  BY <1>1 DEF EvaluationStep, Evaluate, FirstMatchCalled, FirstSuccessCalled, ComparisonCalled,
     ComparisonObjectEvaluation, Called, CallerCancels, TimeoutElapses, EvaluateFirstMatch,
     CollectorStep, FirstSuccessFinish, FirstSuccessError, FirstSuccessNotFound, FirstSuccessDone,
     ComparisonSingle, ComparisonResult, ComparisonNotFound, ComparisonDone, ComparisonFallback
<1>3. \E p \in Providers : pc[p] \in {"calling", "answered"}
  BY <1>2 DEF Answer, Goroutine, FirstSuccessDeliver, ComparisonDeliver, Leave, Running
<1>4. strategy # "first_match"
  BY <1>1, <1>3 DEF PhaseInv, Counting
<1>5. CASE \E p \in Providers : Answer(p)
  BY <1>4, <1>5 DEF Answer
<1>6. ASSUME NEW p \in Providers, Goroutine(p)
      PROVE  /\ UNCHANGED <<phase, result, object>>
             /\ \/ done' = done
                \/ /\ strategy = "comparison" /\ done = "no" /\ done' = "failed"
                   /\ p \in Members /\ answer[p] \in Answers /\ answer[p].kind = "error"
  <2>1. UNCHANGED <<phase, result, object>>
    BY <1>6 DEF Goroutine, FirstSuccessDeliver, ComparisonDeliver, Leave, Running
  <2>2. CASE FirstSuccessDeliver(p) \/ Leave(p)
    BY <2>1, <2>2 DEF FirstSuccessDeliver, Leave
  <2>3. CASE ComparisonDeliver(p)
    <3>1. /\ strategy = "comparison" /\ pc[p] = "answered"
          /\ done' = IF answer[p].kind = "error" /\ done = "no" THEN "failed" ELSE done
      BY <2>3 DEF ComparisonDeliver
    <3>2. p \in Members /\ answer[p] \in Answers
      BY <3>1 DEF CallsInv
    <3>3. QED
      BY <2>1, <3>1, <3>2
  <2>4. QED
    BY <1>6, <2>2, <2>3 DEF Goroutine
<1>7. QED
  BY <1>2, <1>4, <1>5, <1>6

\* The steps that stay in their phase
LEMMA PhaseKept ==
    ASSUME Typed, CallsInv, PhaseInv, MatchInv, EvaluationStep,
           UNCHANGED <<phase, done, object>>
    PROVE  PhaseInv'
<1>1. UNCHANGED <<strategy, order, fallback, N, Members, Counting>>
  BY EvaluationKeeps
<1>2. \A p \in Providers : Moves(p)
  BY GoroutinesMove
<1>3. phase' = "returned" /\ ~Counting' => \A p \in Providers : pc'[p] \in {"idle", "done"}
  BY <1>1, <1>2 DEF PhaseInv, Moves
<1>4. done' = "failed" => Answered("error")' # {}
  BY AnsweredFacts DEF PhaseInv
<1>5. QED
  BY <1>1, <1>3, <1>4 DEF PhaseInv

\* The collector of a parallel strategy returns
LEMMA PhaseReturn ==
    ASSUME Typed, CallsInv, PhaseInv, MatchInv, EvaluationStep,
           phase = "collecting" \/ phase = "fallback", NEW r, Return(r), UNCHANGED object
    PROVE  PhaseInv'
<1>1. UNCHANGED <<strategy, order, fallback, N, Members, Counting>>
  BY EvaluationKeeps
<1>2. Counting /\ phase' = "returned"
  BY DEF PhaseInv, Counting, Return
<1>3. done' = done \/ (strategy = "first_success" /\ done' = "over")
  BY DEF Return
<1>4. done' = "failed" => Answered("error")' # {}
  BY <1>3, AnsweredFacts DEF PhaseInv
<1>5. QED
  BY <1>1, <1>2, <1>3, <1>4 DEF PhaseInv, Counting

\* Every step of an evaluation keeps to the phases of its strategy
LEMMA PhaseStep ==
    ASSUME Typed, CallsInv, PhaseInv, MatchInv, EvaluationStep
    PROVE  PhaseInv'
<1>1. UNCHANGED <<strategy, order, fallback, N, Members, Counting>> /\ N \in Nat /\ N > 0
  BY EvaluationKeeps, MembersFacts
<1>2. \A p \in Providers : Moves(p)
  BY GoroutinesMove
<1>3. CASE Evaluate
  <2>1. phase = "idle" /\ done = "no" /\ done' = "no" /\ \A p \in Providers : pc[p] = "idle"
    BY <1>3 DEF Evaluate, FirstMatchCalled, FirstSuccessCalled, ComparisonCalled,
       ComparisonObjectEvaluation, Called, CallsInv, PhaseInv
  <2>2. CASE \E o \in BOOLEAN : FirstMatchCalled(o) \/ FirstSuccessCalled(o)
    <3>1. \/ strategy = "first_match" /\ phase' = "matching"
          \/ strategy = "first_success" /\ phase' = "collecting"
      BY <2>2 DEF FirstMatchCalled, FirstSuccessCalled
    <3>2. QED
      BY <1>1, <2>1, <3>1 DEF PhaseInv, Counting
  <2>3. CASE ComparisonCalled
    <3>1. /\ strategy = "comparison" /\ object' = FALSE
          /\ phase' = IF N = 1 THEN "single" ELSE "collecting"
      BY <2>3 DEF ComparisonCalled, Called
    <3>2. QED
      BY <1>1, <2>1, <3>1 DEF PhaseInv, Counting
  <2>4. CASE ComparisonObjectEvaluation
    <3>1. strategy = "comparison" /\ phase' = "returned" /\ pc' = pc
      BY <2>4 DEF ComparisonObjectEvaluation
    <3>2. QED
      BY <1>1, <2>1, <3>1 DEF PhaseInv, Counting
  <2>5. QED
    BY <1>3, <2>2, <2>3, <2>4 DEF Evaluate
<1>4. CASE \E p \in Providers : Answer(p)
  BY <1>4, PhaseKept DEF Answer
<1>5. CASE CallerCancels \/ TimeoutElapses
  <2>1. /\ phase = "collecting" /\ Counting /\ UNCHANGED <<phase, object>>
        /\ \/ done' = done \/ done' = "cancelled"
           \/ strategy = "first_success" /\ done' = "timeout"
    BY <1>5 DEF CallerCancels, TimeoutElapses, PhaseInv
  <2>2. done' = done \/ (done' # "failed" /\ done' # "over")
    BY <2>1
  <2>3. CASE done' = done
    BY <2>1, <2>3, PhaseKept
  <2>4. CASE done' # done
    BY <1>1, <2>1, <2>4 DEF PhaseInv, Counting
  <2>5. QED
    BY <2>3, <2>4
<1>6. CASE EvaluateFirstMatch
  <2>1. /\ phase = "matching" /\ strategy = "first_match" /\ done = "no" /\ UNCHANGED object
        /\ done' = "no" /\ pos \in 1 .. N
    <3>1. phase = "matching" /\ strategy = "first_match" /\ done = "no" /\ UNCHANGED object
      BY <1>6 DEF EvaluateFirstMatch, PhaseInv
    <3>2. done' = "no"
      BY <1>6, <3>1 DEF EvaluateFirstMatch, Return
    <3>3. pos \in 1 .. N
      BY <1>1, <3>1 DEF MatchInv, Typed
    <3>4. QED
      BY <3>1, <3>2, <3>3
  <2>2. CASE phase' = phase
    BY <2>1, <2>2, PhaseKept
  <2>3. CASE phase' # phase
    <3>1. phase' = "returned" /\ pc' = [pc EXCEPT ![order[pos]] = "done"]
      BY <1>6, <2>3 DEF EvaluateFirstMatch, Return
    <3>2. ASSUME NEW p \in Providers PROVE pc'[p] \in {"idle", "done"}
      <4>1. CASE p \notin Members
        BY <2>1, <3>1, <4>1 DEF CallsInv, Typed
      <4>2. CASE p \in Members
        <5>1. PICK j \in 1 .. N : p = order[j]
          BY <4>2 DEF Members
        <5>2. j \in 1 .. pos - 1 \/ j = pos \/ j \in pos + 1 .. N
          BY <1>1, <2>1, <5>1
        <5>3. pc[p] \in {"idle", "done"} \/ p = order[pos]
          BY <2>1, <5>1, <5>2 DEF MatchInv, Gave
        <5>4. QED
          BY <3>1, <5>3 DEF Typed
      <4>3. QED
        BY <4>1, <4>2
    <3>3. QED
      BY <1>1, <2>1, <3>1, <3>2 DEF PhaseInv
  <2>4. QED
    BY <2>2, <2>3
<1>7. ASSUME NEW p \in Providers, Goroutine(p) PROVE PhaseInv'
  <2>1. UNCHANGED <<phase, object>> /\ phase \notin {"idle", "matching", "single"}
    BY <1>7 DEF Goroutine, FirstSuccessDeliver, ComparisonDeliver, Leave, Running
  <2>2. CASE UNCHANGED done
    BY <2>1, <2>2, PhaseKept
  <2>3. CASE done' # done
    <3>1. /\ ComparisonDeliver(p) /\ strategy = "comparison" /\ done' = "failed"
          /\ pc[p] = "answered" /\ answer[p].kind = "error" /\ UNCHANGED answer
      BY <1>7, <2>3 DEF Goroutine, FirstSuccessDeliver, ComparisonDeliver, Leave, Running
    <3>2. p \in Answered("error")'
      <4>1. answer[p] \in Answers
        BY <3>1 DEF CallsInv
      <4>2. answer[p] # NoOne
        BY <4>1, AnswerFacts
      <4>3. QED
        BY <3>1, <4>2 DEF Answered
    <3>3. phase' = "returned" /\ ~Counting' => \A q \in Providers : pc'[q] \in {"idle", "done"}
      BY <1>1, <1>2, <2>1 DEF PhaseInv, Moves
    <3>4. QED
      BY <1>1, <2>1, <3>1, <3>2, <3>3 DEF PhaseInv
  <2>4. QED
    BY <2>2, <2>3
<1>8. CASE FirstSuccessFinish \/ FirstSuccessDone \/ ComparisonDone
  <2>1. phase = "collecting" /\ UNCHANGED object /\ \E r : Return(r)
    BY <1>8 DEF FirstSuccessFinish, FirstSuccessDone, ComparisonDone
  <2>2. QED
    BY <2>1, PhaseReturn
<1>9. CASE FirstSuccessError \/ FirstSuccessNotFound
  <2>1. /\ phase = "collecting" /\ UNCHANGED object
        /\ UNCHANGED <<phase, done>> \/ \E r : Return(r)
    BY <1>9 DEF FirstSuccessError, FirstSuccessNotFound
  <2>2. QED
    BY <2>1, PhaseReturn, PhaseKept
<1>10. CASE ComparisonSingle
  <2>1. PICK q \in Members : pc' = [pc EXCEPT ![q] = "done"]
    BY <1>10 DEF ComparisonSingle
  <2>2. /\ phase = "single" /\ strategy = "comparison" /\ N = 1 /\ phase' = "returned"
        /\ done' = done /\ done = "no"
    BY <1>10 DEF ComparisonSingle, PhaseInv, Return
  <2>3. Members = {q} /\ q \in Providers
    <3>1. \E x : Members = {x}
      BY <2>2, MembersFacts, FS_Singleton
    <3>2. QED
      BY <2>1, <3>1, MembersFacts
  <2>4. \A p \in Providers : pc'[p] \in {"idle", "done"}
    BY <2>1, <2>3 DEF CallsInv, Typed
  <2>5. QED
    BY <1>1, <2>2, <2>4 DEF PhaseInv
<1>11. ASSUME NEW rs, Compare(rs), phase = "collecting", strategy = "comparison", UNCHANGED object
       PROVE  PhaseInv'
  <2>1. CASE \E r : Return(r)
    BY <1>11, <2>1, PhaseReturn
  <2>2. CASE fallback /\ phase' = "fallback" /\ UNCHANGED done
    <3>1. Counting /\ N > 1 /\ ~object
      BY <1>11 DEF PhaseInv, Counting
    <3>2. done' = "failed" => Answered("error")' # {}
      BY <2>2, AnsweredFacts DEF PhaseInv
    <3>3. QED
      BY <1>1, <1>11, <2>2, <3>1, <3>2 DEF PhaseInv
  <2>3. QED
    BY <1>11, <2>1, <2>2 DEF Compare
<1>12. CASE ComparisonResult \/ ComparisonNotFound
  <2>1. /\ phase = "collecting" /\ strategy = "comparison" /\ UNCHANGED object
    BY <1>12 DEF ComparisonResult, ComparisonNotFound
  <2>2. UNCHANGED <<phase, done>> \/ (\E r : Return(r)) \/ \E rs : Compare(rs)
    BY <1>12 DEF ComparisonResult, ComparisonNotFound
  <2>3. QED
    BY <1>11, <2>1, <2>2, PhaseReturn, PhaseKept
<1>13. CASE ComparisonFallback
  <2>1. phase = "fallback" /\ UNCHANGED object
    BY <1>13 DEF ComparisonFallback
  <2>2. CASE \E r : Return(r)
    BY <2>1, <2>2, PhaseReturn
  <2>3. CASE phase' = "panicked" /\ UNCHANGED done
    <3>1. done' = "failed" => Answered("error")' # {}
      BY <2>3, AnsweredFacts DEF PhaseInv
    <3>2. QED
      BY <1>1, <2>1, <2>3, <3>1 DEF PhaseInv
  <2>4. QED
    BY <1>13, <2>2, <2>3 DEF ComparisonFallback
<1>14. QED
  BY <1>3, <1>4, <1>5, <1>6, <1>7, <1>8, <1>9, <1>10, <1>12, <1>13 DEF EvaluationStep, CollectorStep

-----------------------------------------------------------------------------
(* First match *)

\* The loop keeps what it has seen
LEMMA MatchStep ==
    ASSUME Typed, CallsInv, PhaseInv, MatchInv, EvaluationStep
    PROVE  MatchInv'
<1> SUFFICES ASSUME phase' = "matching" PROVE MatchInv'
  BY DEF MatchInv
<1>1. /\ UNCHANGED <<order, strategy, N, Members>> /\ N \in Nat /\ N > 0 /\ Distinct(order)
      /\ order \in Seq(Providers) /\ Members \in SUBSET Providers
      /\ \A i \in 1 .. N : order[i] \in Providers /\ order[i] \in Members
      /\ DOMAIN order = 1 .. N
  <2>1. \A i \in 1 .. N : order[i] \in Members
    BY MembersFacts
  <2>2. QED
    BY <2>1, EvaluationKeeps, MembersFacts DEF N
<1>2. \A p \in Providers : (Gave(p, "notFound") => GaveNext(p, "notFound"))
  BY AnswersStay DEF Gave, GaveNext
<1>3. Evaluate \/ (\E p \in Providers : Answer(p)) \/ EvaluateFirstMatch
  <2>1. ~(CallerCancels \/ TimeoutElapses)
    BY DEF CallerCancels, TimeoutElapses
  <2>2. ~(\E p \in Providers : Goroutine(p))
    BY DEF Goroutine, FirstSuccessDeliver, ComparisonDeliver, Leave, Running
  <2>3. \A rs : ~Compare(rs)
    BY DEF Compare, Return
  <2>4. ~(FirstSuccessFinish \/ FirstSuccessError \/ FirstSuccessNotFound \/ FirstSuccessDone)
    BY DEF FirstSuccessFinish, FirstSuccessError, FirstSuccessNotFound, FirstSuccessDone, Return
  <2>5. ~(ComparisonSingle \/ ComparisonDone \/ ComparisonFallback)
    BY DEF ComparisonSingle, ComparisonDone, ComparisonFallback, Return
  <2>6. ~(ComparisonResult \/ ComparisonNotFound)
    BY <2>3 DEF ComparisonResult, ComparisonNotFound, Return
  <2>7. QED
    BY <2>1, <2>2, <2>4, <2>5, <2>6 DEF EvaluationStep, CollectorStep
<1>4. SUFFICES /\ pos' > 0 /\ pc'[order[pos']] \in {"calling", "answered"}
               /\ \A j \in 1 .. pos' - 1 : GaveNext(order[j], "notFound")
               /\ \A j \in pos' + 1 .. N : pc'[order[j]] = "idle"
  BY <1>1 DEF MatchInv, Gave, GaveNext
<1>5. CASE Evaluate
  <2>1. PICK o \in BOOLEAN : FirstMatchCalled(o)
    BY <1>5 DEF Evaluate, FirstSuccessCalled, ComparisonCalled, ComparisonObjectEvaluation
  <2>2. /\ pos' = 1 /\ pc' = [pc EXCEPT ![order[1]] = "calling"]
        /\ \A p \in Providers : pc[p] = "idle"
    BY <2>1 DEF FirstMatchCalled, Called, CallsInv
  <2>3. \A j \in 2 .. N : order[j] # order[1] /\ order[j] \in Providers
    BY <1>1 DEF Distinct
  <2>4. order[1] \in Providers
    BY <1>1
  <2>5. pc'[order[1]] = "calling" /\ \A j \in 2 .. N : pc'[order[j]] = "idle"
    BY <2>2, <2>3, <2>4 DEF Typed
  <2>6. pos' + 1 = 2 /\ 1 .. pos' - 1 = {}
    BY <2>2
  <2>7. QED
    BY <2>2, <2>5, <2>6
<1>6. ASSUME NEW p \in Providers, Answer(p)
      PROVE  /\ pos' > 0 /\ pc'[order[pos']] \in {"calling", "answered"}
             /\ \A j \in 1 .. pos' - 1 : GaveNext(order[j], "notFound")
             /\ \A j \in pos' + 1 .. N : pc'[order[j]] = "idle"
  <2>1. /\ phase = "matching" /\ pos' = pos /\ pc[p] = "calling"
        /\ pc' = [pc EXCEPT ![p] = "answered"] /\ pos \in 1 .. N
    BY <1>1, <1>6 DEF Answer, MatchInv, Typed
  <2>2. /\ pc[order[pos]] \in {"calling", "answered"}
        /\ \A j \in 1 .. pos - 1 : Gave(order[j], "notFound")
        /\ \A j \in pos + 1 .. N : pc[order[j]] = "idle"
    BY <2>1 DEF MatchInv
  <2>3. \A j \in 1 .. pos - 1 : order[j] \in Providers
    BY <1>1, <2>1
  <2>4. \A j \in pos + 1 .. N : order[j] \in Providers /\ order[j] # p
    BY <1>1, <2>1, <2>2
  <2>5. \A j \in pos + 1 .. N : pc'[order[j]] = "idle"
    BY <2>1, <2>2, <2>4 DEF Typed
  <2>6. order[pos] \in Providers
    BY <1>1, <2>1
  <2>7. pc'[order[pos]] \in {"calling", "answered"}
    BY <2>1, <2>2, <2>6 DEF Typed
  <2>8. QED
    BY <1>2, <2>1, <2>2, <2>3, <2>5, <2>7
<1>7. CASE EvaluateFirstMatch
  <2> DEFINE a == order[pos]
             b == order[pos + 1]
  <2>1. phase = "matching" /\ pc[a] = "answered" /\ pos \in 1 .. N
    BY <1>1, <1>7 DEF EvaluateFirstMatch, MatchInv, Typed
  <2>2. /\ answer[a].kind = "notFound" /\ pos < N /\ pos' = pos + 1 /\ UNCHANGED answer
        /\ pc' = [pc EXCEPT ![a] = "done", ![b] = "calling"]
    BY <1>7, <2>1 DEF EvaluateFirstMatch, Return
  <2>3. /\ \A j \in 1 .. pos - 1 : Gave(order[j], "notFound") /\ order[j] \in Providers
        /\ \A j \in pos + 1 .. N : pc[order[j]] = "idle" /\ order[j] \in Providers
    BY <1>1, <2>1 DEF MatchInv
  <2>4. pos + 1 \in 1 .. N /\ a \in Providers /\ b \in Providers /\ pc[b] = "idle" /\ a # b
    <3>1. pos + 1 \in 1 .. N /\ pos + 1 \in pos + 1 .. N
      BY <1>1, <2>1, <2>2
    <3>2. QED
      BY <1>1, <2>1, <2>3, <3>1
  <2>5. GaveNext(a, "notFound")
    BY <2>2, <2>4 DEF GaveNext, Typed
  <2>6. \A j \in 1 .. pos' - 1 : GaveNext(order[j], "notFound")
    <3>1. \A j \in 1 .. pos' - 1 : j \in 1 .. pos - 1 \/ j = pos
      BY <2>1, <2>2
    <3>2. QED
      BY <1>2, <2>3, <2>5, <3>1
  <2>7. \A j \in pos' + 1 .. N : pc'[order[j]] = "idle"
    <3>1. \A j \in pos' + 1 .. N : j \in pos + 1 .. N /\ j \in 1 .. N /\ j # pos + 1
      BY <2>1, <2>2
    <3>2. \A j \in pos' + 1 .. N : order[j] # a /\ order[j] # b /\ order[j] \in Providers
      BY <1>1, <2>1, <2>3, <2>4, <3>1 DEF Distinct
    <3>3. QED
      BY <2>2, <2>3, <3>1, <3>2 DEF Typed
  <2>8. pc'[order[pos']] = "calling" /\ pos' > 0
    BY <2>1, <2>2, <2>4 DEF Typed
  <2>9. QED
    BY <2>6, <2>7, <2>8
<1>8. QED
  BY <1>3, <1>5, <1>6, <1>7

\* The loop ends with the answer of the first provider that knows the flag
LEMMA FirstMatchStep ==
    ASSUME Typed, CallsInv, PhaseInv, MatchInv, FirstMatchInOrder, EvaluationStep
    PROVE  FirstMatchInOrder'
<1> SUFFICES ASSUME strategy' = "first_match", Ended' PROVE FirstMatchInOrder'
  BY DEF FirstMatchInOrder
<1>1. /\ UNCHANGED <<order, strategy, N, Members>> /\ N \in Nat /\ N > 0
      /\ Members \in SUBSET Providers
      /\ \A i \in 1 .. N : order[i] \in Providers /\ order[i] \in Members
  <2>1. \A i \in 1 .. N : order[i] \in Members
    BY MembersFacts
  <2>2. QED
    BY <2>1, EvaluationKeeps, MembersFacts
<1>2. ~Ended
  BY <1>1, EndedStays
<1>3. EvaluateFirstMatch
  <2>1. /\ ~(CallerCancels \/ TimeoutElapses \/ \E p \in Providers : Answer(p))
        /\ ~(\E p \in Providers : Goroutine(p))
    BY <1>2 DEF CallerCancels, TimeoutElapses, Answer, Ended, Goroutine, FirstSuccessDeliver,
       ComparisonDeliver, Leave, Running
  <2>2. ~Evaluate
    BY <1>1 DEF Evaluate, FirstMatchCalled, FirstSuccessCalled, ComparisonCalled,
       ComparisonObjectEvaluation, Ended
  <2>3. ~CollectorStep
    BY <1>1 DEF CollectorStep, FirstSuccessFinish, FirstSuccessError, FirstSuccessNotFound,
       FirstSuccessDone, ComparisonSingle, ComparisonResult, ComparisonNotFound, ComparisonDone,
       ComparisonFallback, PhaseInv
  <2>4. QED
    BY <2>1, <2>2, <2>3 DEF EvaluationStep
<1> DEFINE a == order[pos]
<1>4. /\ phase = "matching" /\ pc[a] = "answered" /\ pos \in 1 .. N /\ UNCHANGED answer
      /\ a \in Providers /\ answer[a] \in Answers
  <2>1. phase = "matching" /\ pc[a] = "answered" /\ UNCHANGED answer
    BY <1>3 DEF EvaluateFirstMatch
  <2>2. pos \in 1 .. N
    BY <1>1, <2>1 DEF MatchInv, Typed
  <2>3. QED
    BY <1>1, <2>1, <2>2 DEF CallsInv
<1>5. \/ answer[a].kind = "notFound" /\ pos = N /\ result' = BuildDefaultResult(FALSE)
      \/ answer[a].kind # "notFound" /\ result' = AnswerOf(a)
  BY <1>2, <1>3 DEF EvaluateFirstMatch, Return, Ended
<1>6. /\ \A j \in 1 .. pos - 1 : Gave(order[j], "notFound")
      /\ \A j \in pos + 1 .. N : pc[order[j]] = "idle" /\ order[j] \in Providers
  BY <1>1, <1>4 DEF MatchInv
<1>7. /\ \A j \in 1 .. pos - 1 : order[j] \in Answered("notFound")
      /\ \A j \in pos + 1 .. N : answer[order[j]] = NoOne
      /\ a \in Answered(answer[a].kind) /\ answer[a].kind \in {"ok", "notFound", "error"}
  <2>1. ASSUME NEW j \in 1 .. pos - 1 PROVE order[j] \in Answered("notFound")
    <3>1. /\ order[j] \in Providers /\ pc[order[j]] = "done"
          /\ answer[order[j]].kind = "notFound"
      BY <1>6 DEF Gave
    <3>2. answer[order[j]] # NoOne
      BY <3>1, AnswerFacts DEF CallsInv
    <3>3. QED
      BY <3>1, <3>2 DEF Answered
  <2>2. \A j \in pos + 1 .. N : answer[order[j]] = NoOne
    BY <1>6 DEF CallsInv
  <2>3. a \in Answered(answer[a].kind) /\ answer[a].kind \in {"ok", "notFound", "error"}
    BY <1>4, AnswerFacts DEF Answered
  <2>4. QED
    BY <2>1, <2>2, <2>3
<1>8. CASE answer[a].kind = "notFound" /\ pos = N /\ result' = BuildDefaultResult(FALSE)
  <2>1. \A j \in 1 .. N : order[j] \in Answered("notFound")
    <3>1. \A j \in 1 .. N : j \in 1 .. pos - 1 \/ j = pos
      BY <1>1, <1>4, <1>8
    <3>2. QED
      BY <1>7, <1>8, <3>1
  <2>2. Members \subseteq Answered("notFound")
    BY <2>1 DEF Members
  <2>3. Answered("notFound") \subseteq Members
    BY AnsweredFacts DEF Answered
  <2>4. Answered("notFound")' = Members'
    BY <1>1, <1>4, <2>2, <2>3 DEF Answered
  <2>5. QED
    BY <1>8, <2>4 DEF FirstMatchInOrder, BuildDefaultResult
<1>9. CASE answer[a].kind # "notFound" /\ result' = AnswerOf(a)
  <2>1. \A k : Answered(k)' = Answered(k)
    BY <1>4 DEF Answered
  <2>2. a \in Answered("ok") \cup Answered("error")
    BY <1>7, <1>9
  <2>3. result' = AnswerOf(order[pos])
    BY <1>9
  <2>4. \A p : [value |-> answer'[p].value, code |-> CodeOf(answer'[p]), reason |-> "PROVIDER",
               variant |-> p] = AnswerOf(p)
    BY <1>4 DEF AnswerOf
  <2>5. \E i \in 1 .. N' :
              /\ \A j \in 1 .. i - 1 : order'[j] \in Answered("notFound")'
              /\ order'[i] \in Answered("ok")' \cup Answered("error")'
              /\ \A j \in i + 1 .. N' : answer'[order'[j]] = NoOne
              /\ result' = [value |-> answer'[order'[i]].value, code |-> CodeOf(answer'[order'[i]]),
                            reason |-> "PROVIDER", variant |-> order'[i]]
    BY <1>1, <1>4, <1>7, <2>1, <2>2, <2>3, <2>4
  <2>6. QED
    BY <2>5 DEF FirstMatchInOrder, AnswerOf
<1>10. QED
  BY <1>5, <1>8, <1>9

-----------------------------------------------------------------------------
(* First success and comparison: when everyone is accounted for *)

\* All providers have answered, those of the collector's list a value
AllSaid ==
    /\ Answered("ok") \cup Answered("notFound") = Members /\ Answered("error") = {}
    /\ \A p \in Answered("ok") : \E i \in DOMAIN taken.results : taken.results[i] = p
    /\ \A i \in DOMAIN taken.results : taken.results[i] \in Answered("ok")

\* Results and not founds add up to the number of providers only when every
\* provider has answered, none with an error
LEMMA Accounted ==
    Typed /\ CallsInv /\ Delivered /\ Counted /\ Counting =>
        /\ Len(taken.results) <= N /\ Len(finish) <= N /\ taken.notFound <= N
        /\ Len(taken.results) + taken.notFound = N => AllSaid
        /\ taken.notFound = N => Answered("notFound") = Members
        /\ Cardinality(taken.errors) = N => Answered("error") = Members
<1> SUFFICES ASSUME Typed, CallsInv, Delivered, Counted, Counting
             PROVE  /\ Len(taken.results) <= N /\ Len(finish) <= N /\ taken.notFound <= N
                    /\ Len(taken.results) + taken.notFound = N => AllSaid
                    /\ taken.notFound = N => Answered("notFound") = Members
                    /\ Cardinality(taken.errors) = N => Answered("error") = Members
  OBVIOUS
<1>1. /\ N \in Nat /\ Members \in SUBSET Providers /\ IsFiniteSet(Members) /\ Cardinality(Members) = N
  BY MembersFacts
<1>2. taken.results \in Seq(Providers) /\ taken.errors \in SUBSET Providers /\ finish \in Seq(Providers)
  BY DEF Typed, TakenRecord
<1>3. ASSUME NEW p \in Providers, NEW k \in {"ok", "notFound", "error"}, Gave(p, k)
      PROVE  p \in Members /\ p \in Answered(k)
  <2>1. pc[p] = "done" /\ answer[p] \in Answers /\ answer[p].kind = k
    BY <1>3 DEF Gave, CallsInv
  <2>2. QED
    BY <2>1, AnswerFacts DEF CallsInv, Answered
<1>4. \A k \in {"ok", "notFound", "error"} : Answered(k) \subseteq Members
  BY DEF Answered, CallsInv
<1>5. ASSUME NEW p, p \in Answered("ok") \/ p \in Answered("notFound") \/ p \in Answered("error")
      PROVE  /\ ~(p \in Answered("ok") /\ p \in Answered("notFound"))
             /\ ~(p \in Answered("error") /\ p \in Answered("notFound"))
             /\ ~(p \in Answered("ok") /\ p \in Answered("error"))
  BY <1>5 DEF Answered
<1>6. GaveNotFound \subseteq Members /\ GaveNotFound \subseteq Answered("notFound")
  BY <1>3 DEF GaveNotFound
<1>7. taken.notFound = Cardinality(GaveNotFound)
  BY DEF Counted
<1>8. /\ \A i \in DOMAIN taken.results :
            taken.results[i] \in Members /\ taken.results[i] \in Answered("ok")
      /\ \A i \in DOMAIN finish : finish[i] \in Members
      /\ \A p \in taken.errors : p \in Members /\ p \in Answered("error")
  <2>1. ASSUME NEW i \in DOMAIN taken.results
        PROVE  taken.results[i] \in Members /\ taken.results[i] \in Answered("ok")
    BY <1>2, <1>3 DEF Delivered
  <2>2. ASSUME NEW i \in DOMAIN finish PROVE finish[i] \in Members
    BY <1>2, <1>3 DEF Delivered
  <2>3. ASSUME NEW p \in taken.errors PROVE p \in Members /\ p \in Answered("error")
    BY <1>2, <1>3 DEF Delivered
  <2>4. QED
    BY <2>1, <2>2, <2>3
<1>9. taken.results \in Seq(Members) /\ finish \in Seq(Members)
  BY <1>2, <1>8
<1>10. \A i \in DOMAIN taken.results : taken.results[i] \notin GaveNotFound
  BY <1>5, <1>6, <1>8
<1>11. /\ Cardinality(GaveNotFound) \in Nat
       /\ Len(taken.results) + Cardinality(GaveNotFound) <= N
       /\ Len(taken.results) + Cardinality(GaveNotFound) = N =>
             \A x \in Members : x \in GaveNotFound \/ \E i \in DOMAIN taken.results : taken.results[i] = x
  BY <1>1, <1>6, <1>9, <1>10, Fits DEF Delivered
<1>12. Len(finish) <= N
  <2>1. Len(finish) + Cardinality({}) <= Cardinality(Members) /\ Cardinality({}) = 0
    BY <1>1, <1>9, Fits, FS_EmptySet DEF Delivered
  <2>2. QED
    BY <1>1, <1>2, <2>1
<1>13. Len(taken.results) <= N /\ taken.notFound <= N
  BY <1>1, <1>2, <1>7, <1>11
<1>14. ASSUME Len(taken.results) + taken.notFound = N PROVE AllSaid
  <2>1. \A x \in Members : x \in Answered("notFound") \/ \E i \in DOMAIN taken.results : taken.results[i] = x
    BY <1>6, <1>7, <1>11, <1>14
  <2>2. Answered("ok") \cup Answered("notFound") = Members
    BY <1>4, <1>8, <2>1
  <2>3. Answered("error") = {}
    BY <1>4, <1>5, <2>2
  <2>4. \A p \in Answered("ok") : \E i \in DOMAIN taken.results : taken.results[i] = p
    BY <1>4, <1>5, <2>1
  <2>5. QED
    BY <1>8, <2>2, <2>3, <2>4 DEF AllSaid
<1>15. ASSUME taken.notFound = N PROVE Answered("notFound") = Members
  <2>1. GaveNotFound = Members
    BY <1>1, <1>6, <1>7, <1>15, FS_Subset
  <2>2. QED
    BY <1>4, <1>6, <2>1
<1>16. ASSUME Cardinality(taken.errors) = N PROVE Answered("error") = Members
  <2>1. taken.errors \in SUBSET Members
    BY <1>8
  <2>2. taken.errors = Members
    BY <1>1, <1>16, <2>1, FS_Subset
  <2>3. QED
    BY <1>4, <1>8, <2>2
<1>17. QED
  BY <1>12, <1>13, <1>14, <1>15, <1>16

\* The same of the state after a step
LEMMA AccountedNext ==
    ASSUME Typed, CallsInv, Delivered, Counted, PhaseInv, MatchInv, EvaluationStep, Counting
    PROVE  /\ Len(taken'.results) + taken'.notFound = N => AllSaid'
           /\ taken'.notFound = N => Answered("notFound")' = Members
           /\ Cardinality(taken'.errors) = N => Answered("error")' = Members
<1>1. /\ Typed' /\ CallsInv' /\ Delivered' /\ Counted'
  BY EvaluationType, AnswersStay, DeliveredStep, CountedStep
<1>2. UNCHANGED <<N, Members, Counting>>
  BY EvaluationKeeps
<1>3. (Typed /\ CallsInv /\ Delivered /\ Counted /\ Counting)' =>
        (/\ Len(taken.results) <= N /\ Len(finish) <= N /\ taken.notFound <= N
         /\ Len(taken.results) + taken.notFound = N => AllSaid
         /\ taken.notFound = N => Answered("notFound") = Members
         /\ Cardinality(taken.errors) = N => Answered("error") = Members)'
  BY Accounted, PTL
<1>4. QED
  BY <1>1, <1>2, <1>3

\* The parts of the results that the properties speak of
LEMMA ResultFields ==
    /\ BuildDefaultResult(TRUE).code = "GENERAL"
    /\ BuildDefaultResult(FALSE).code = "FLAG_NOT_FOUND"
    /\ ComparisonDefault.code = "GENERAL"
    /\ \A p : /\ AnswerOf(p).code = CodeOf(answer[p]) /\ AnswerOf(p).variant = p
              /\ AnswerOf(p).value = answer[p].value
    /\ \A a \in Answers : CodeOf(a) = "none" <=> a.kind = "ok"
<1>1. /\ BuildDefaultResult(TRUE).code = "GENERAL"
      /\ BuildDefaultResult(FALSE).code = "FLAG_NOT_FOUND"
  BY DEF BuildDefaultResult
<1>2. ComparisonDefault.code = "GENERAL"
  BY DEF ComparisonDefault, ComparisonDetail, ComparisonResolutionError
<1>3. \A p : /\ AnswerOf(p).code = CodeOf(answer[p]) /\ AnswerOf(p).variant = p
             /\ AnswerOf(p).value = answer[p].value
  BY DEF AnswerOf
<1>4. \A a \in Answers : CodeOf(a) = "none" <=> a.kind = "ok"
  BY AnswerFacts DEF CodeOf
<1>5. QED
  BY <1>1, <1>2, <1>3, <1>4

\* First match: the success of an evaluation is that of the provider in order
LEMMA FirstMatchSuccess ==
    Typed /\ FirstMatchInOrder /\ strategy = "first_match" => SuccessIsAnAnswer
<1> SUFFICES ASSUME Typed, FirstMatchInOrder, strategy = "first_match",
                    phase = "returned", result.code = "none"
             PROVE  result.variant \in Answered("ok") /\ answer[result.variant].value = result.value
  BY DEF SuccessIsAnAnswer
<1>1. PICK i \in 1 .. N : /\ order[i] \in Answered("ok") \cup Answered("error")
                          /\ result = AnswerOf(order[i])
  <2>1. result # BuildDefaultResult(FALSE)
    BY ResultFields
  <2>2. QED
    BY <2>1 DEF FirstMatchInOrder, Ended
<1>2. order[i] \in Providers /\ answer[order[i]] \in Answers
  BY <1>1 DEF Answered, Typed
<1>3. /\ CodeOf(answer[order[i]]) = "none" /\ result.variant = order[i]
      /\ result.value = answer[order[i]].value
  BY <1>1, ResultFields
<1>4. answer[order[i]].kind = "ok"
  BY <1>2, <1>3, ResultFields
<1>5. order[i] \in Answered("ok")
  BY <1>1, <1>2, <1>4 DEF Answered
<1>6. QED
  BY <1>3, <1>5

\* A success that was justified stays so
LEMMA SuccessStays ==
    ASSUME Typed, CallsInv, PhaseInv, MatchInv, SuccessIsAnAnswer, EvaluationStep, Ended
    PROVE  SuccessIsAnAnswer'
<1>1. UNCHANGED <<phase, result, strategy, N>>
  BY EndedStays, EvaluationKeeps
<1>2. Answered("ok") \subseteq Answered("ok")'
  BY AnsweredFacts
<1>3. \A p \in Answered("ok") : answer'[p] = answer[p]
  BY AnswersStay DEF Answered
<1>4. ASSUME phase' = "returned", result'.code = "none"
      PROVE  \/ /\ result.variant \in Answered("ok")
                /\ answer[result.variant].value = result.value
             \/ strategy = "comparison" /\ N = 1
             \/ strategy = "comparison" /\ result.variant = "fallback"
  BY <1>1, <1>4 DEF SuccessIsAnAnswer
<1>5. ASSUME result.variant \in Answered("ok"), answer[result.variant].value = result.value
      PROVE  result'.variant \in Answered("ok")' /\ answer'[result'.variant].value = result'.value
  <2>1. result' = result /\ answer'[result.variant] = answer[result.variant]
    BY <1>1, <1>3, <1>5
  <2>2. result.variant \in Answered("ok")'
    BY <1>2, <1>5
  <2>3. QED
    BY <1>5, <2>1, <2>2
<1>6. QED
  BY <1>1, <1>4, <1>5 DEF SuccessIsAnAnswer

\* First success: the verdict, and the provider a success comes from
LEMMA FirstSuccessStep ==
    ASSUME Typed, CallsInv, Delivered, Counted, PhaseInv, MatchInv, FirstSuccessVerdict,
           SuccessIsAnAnswer, EvaluationStep, strategy = "first_success"
    PROVE  FirstSuccessVerdict' /\ SuccessIsAnAnswer'
<1>1. UNCHANGED <<strategy, N, Members, Counting>> /\ Counting
  BY EvaluationKeeps DEF Counting
<1>2. CASE Ended
  <2>1. UNCHANGED <<phase, result, done>>
    BY <1>2, EndedStays
  <2>2. CASE \E k \in {"notFound", "error"} : Answered(k) = Members
    <3>1. \A p \in Members : answer[p] # NoOne
      BY <2>2 DEF Answered
    <3>2. answer' = answer
      BY <3>1, AnsweredFacts
    <3>3. QED
      BY <1>1, <1>2, <2>1, <3>2, SuccessStays DEF FirstSuccessVerdict, Ended, Answered
  <2>3. CASE ~ \E k \in {"notFound", "error"} : Answered(k) = Members
    <3>1. result.code = "none" \/ (result.code = "GENERAL" /\ done \in {"timeout", "cancelled"})
      BY <1>2, <2>3 DEF FirstSuccessVerdict
    <3>2. QED
      BY <1>2, <2>1, <3>1, SuccessStays DEF FirstSuccessVerdict
  <2>4. QED
    BY <2>2, <2>3
<1>3. CASE ~Ended
  <2>1. CASE ~Ended'
    BY <2>1 DEF FirstSuccessVerdict, SuccessIsAnAnswer, Ended
  <2>2. CASE FirstSuccessFinish
    <3> DEFINE h == Head(finish)
    <3>1. UNCHANGED answer /\ result' = AnswerOf(h) /\ finish # <<>>
      BY <2>2 DEF FirstSuccessFinish, Return, FirstSuccessDetail
    <3>2. h = finish[1] /\ 1 \in DOMAIN finish /\ h \in Providers
      BY <3>1 DEF Typed
    <3>3. Gave(h, "ok")
      BY <3>2 DEF Delivered
    <3>4. answer[h] \in Answers /\ answer[h].kind = "ok"
      BY <3>3 DEF Gave, CallsInv
    <3>5. h \in Answered("ok")
      BY <3>2, <3>4, AnswerFacts DEF Answered
    <3> HIDE DEF h
    <3>6. result'.code = "none" /\ result'.variant = h /\ result'.value = answer[h].value
      BY <3>1, <3>4, ResultFields
    <3>7. h \in Answered("ok")' /\ answer'[h].value = result'.value
      BY <3>1, <3>5, <3>6 DEF Answered
    <3>8. FirstSuccessVerdict'
      BY <3>6 DEF FirstSuccessVerdict
    <3>9. SuccessIsAnAnswer'
      BY <3>6, <3>7 DEF SuccessIsAnAnswer
    <3>10. QED
      BY <3>8, <3>9
  <2>3. CASE FirstSuccessError /\ Ended'
    <3>1. Cardinality(taken'.errors) = N /\ result' = BuildDefaultResult(TRUE)
      BY <1>3, <2>3 DEF FirstSuccessError, Return, Ended
    <3>2. Answered("error")' = Members' /\ result'.code = "GENERAL"
      BY <1>1, <3>1, AccountedNext, ResultFields
    <3>3. QED
      BY <3>2 DEF FirstSuccessVerdict, SuccessIsAnAnswer
  <2>4. CASE FirstSuccessNotFound /\ Ended'
    <3>1. taken'.notFound = N /\ result' = BuildDefaultResult(FALSE)
      BY <1>3, <2>4 DEF FirstSuccessNotFound, Return, Ended
    <3>2. Answered("notFound")' = Members' /\ result'.code = "FLAG_NOT_FOUND"
      BY <1>1, <3>1, AccountedNext, ResultFields
    <3>3. QED
      BY <3>2 DEF FirstSuccessVerdict, SuccessIsAnAnswer
  <2>5. CASE FirstSuccessDone
    <3>1. done # "no" /\ done' = done /\ result' = BuildDefaultResult(TRUE) /\ phase = "collecting"
      BY <2>5 DEF FirstSuccessDone, Return
    <3>2. done' \in {"timeout", "cancelled"} /\ result'.code = "GENERAL"
      BY <3>1, ResultFields DEF PhaseInv, Typed
    <3>3. QED
      BY <3>2 DEF FirstSuccessVerdict, SuccessIsAnAnswer
  <2>6. ASSUME Ended'
        PROVE  FirstSuccessFinish \/ FirstSuccessError \/ FirstSuccessNotFound \/ FirstSuccessDone
    <3>1. ~(CallerCancels \/ TimeoutElapses \/ \E p \in Providers : Answer(p))
      BY <1>3, <2>6 DEF CallerCancels, TimeoutElapses, Answer, Ended
    <3>2. ~(\E p \in Providers : Goroutine(p))
      BY <1>3, <2>6 DEF Goroutine, FirstSuccessDeliver, ComparisonDeliver, Leave, Running, Ended
    <3>3. ~Evaluate
      BY <2>6 DEF Evaluate, FirstMatchCalled, FirstSuccessCalled, ComparisonCalled,
         ComparisonObjectEvaluation, Ended
    <3>4. ~EvaluateFirstMatch
      BY DEF EvaluateFirstMatch, PhaseInv
    <3>5. ~(ComparisonSingle \/ ComparisonResult \/ ComparisonNotFound \/ ComparisonDone)
      BY DEF ComparisonSingle, ComparisonResult, ComparisonNotFound, ComparisonDone, PhaseInv
    <3>6. ~ComparisonFallback
      BY DEF ComparisonFallback, PhaseInv
    <3>7. QED
      BY <3>1, <3>2, <3>3, <3>4, <3>5, <3>6 DEF EvaluationStep, CollectorStep
  <2>7. QED
    BY <2>1, <2>2, <2>3, <2>4, <2>5, <2>6
<1>4. QED
  BY <1>2, <1>3

-----------------------------------------------------------------------------
(* The comparison *)

\* The collected results agree exactly when one value was said
LEMMA Compared ==
    Typed /\ AllSaid /\ taken.results # <<>> =>
        /\ answer[taken.results[1]].value \in Said
        /\ Agree(taken.results) => Cardinality(Said) = 1
        /\ ~Agree(taken.results) => Cardinality(Said) > 1
<1> SUFFICES ASSUME Typed, AllSaid, taken.results # <<>>
             PROVE  /\ answer[taken.results[1]].value \in Said
                    /\ Agree(taken.results) => Cardinality(Said) = 1
                    /\ ~Agree(taken.results) => Cardinality(Said) > 1
  OBVIOUS
<1> DEFINE r == taken.results
           S == Answered("ok")
<1>1. r \in Seq(Providers) /\ 1 \in DOMAIN r
  BY DEF Typed, TakenRecord
<1>2. S \subseteq Providers
  BY DEF Answered
<1>3. IsFiniteSet(Said)
  <2> DEFINE f == [p \in S |-> answer[p].value]
  <2>1. f \in [S -> Said] /\ \A v \in Said : \E p \in S : f[p] = v
    BY DEF Said
  <2>2. f \in Surjection(S, Said)
    BY <2>1 DEF Surjection
  <2>3. IsFiniteSet(S)
    BY <1>2, ProvidersAssumption, FS_Subset
  <2> HIDE DEF f, S
  <2>4. QED
    BY <2>2, <2>3, FS_Surjection
<1>4. /\ \A i \in DOMAIN r : r[i] \in S
      /\ \A p \in S : \E i \in DOMAIN r : r[i] = p
  BY DEF AllSaid
<1>5. /\ \A i \in DOMAIN r : answer[r[i]].value \in Said
      /\ \A v \in Said : \E i \in DOMAIN r : answer[r[i]].value = v
  BY <1>4 DEF Said
<1>6. Cardinality(Said) \in Nat
  BY <1>3, FS_CardinalityType
<1>7. ASSUME Agree(r) PROVE Cardinality(Said) = 1
  <2>1. Said = {answer[r[1]].value}
    BY <1>1, <1>5, <1>7 DEF Agree
  <2>2. QED
    BY <2>1, FS_Singleton
<1>8. ASSUME ~Agree(r) PROVE Cardinality(Said) > 1
  <2>1. PICK i \in DOMAIN r : answer[r[i]].value # answer[r[1]].value
    BY <1>8 DEF Agree
  <2>2. \A x : Said # {x}
    BY <1>1, <1>5, <2>1
  <2>3. Said # {}
    BY <1>1, <1>5
  <2>4. Cardinality(Said) # 1 /\ Cardinality(Said) # 0
    BY <1>3, <2>2, <2>3, FS_Singleton, FS_EmptySet
  <2>5. QED
    BY <1>6, <2>4
<1>9. QED
  BY <1>1, <1>5, <1>7, <1>8

\* Once every provider of a comparison has answered without an error, neither
\* the answers nor the context of the evaluation change
LEMMA Settled ==
    ASSUME Typed, CallsInv, PhaseInv, MatchInv, EvaluationStep, strategy = "comparison",
           phase \in {"fallback", "returned", "panicked"},
           Answered("ok") \cup Answered("notFound") = Members
    PROVE  UNCHANGED <<answer, done, Said>> /\ \A k : Answered(k)' = Answered(k)
<1>1. answer' = answer
  <2>1. \A p \in Members : answer[p] # NoOne
    BY DEF Answered
  <2>2. QED
    BY <2>1, AnsweredFacts
<1>2. \A p \in Providers : answer[p] \in Answers => answer[p].kind # "error"
  BY AnsweredFacts, AnswerFacts DEF Answered
<1>3. done' = done
  <2>1. CASE Evaluate \/ CallerCancels \/ TimeoutElapses \/ EvaluateFirstMatch
    BY <2>1 DEF Evaluate, FirstMatchCalled, FirstSuccessCalled, ComparisonCalled,
       ComparisonObjectEvaluation, Called, CallerCancels, TimeoutElapses, EvaluateFirstMatch
  <2>2. CASE \E p \in Providers : Answer(p)
    BY <2>2 DEF Answer
  <2>3. ASSUME NEW p \in Providers, Goroutine(p) PROVE done' = done
    <3>1. CASE FirstSuccessDeliver(p) \/ Leave(p)
      BY <3>1 DEF FirstSuccessDeliver, Leave
    <3>2. CASE ComparisonDeliver(p)
      <4>1. pc[p] = "answered"
        BY <3>2 DEF ComparisonDeliver
      <4>2. answer[p].kind # "error"
        BY <1>2, <4>1 DEF CallsInv
      <4>3. QED
        BY <3>2, <4>2 DEF ComparisonDeliver
    <3>3. QED
      BY <2>3, <3>1, <3>2 DEF Goroutine
  <2>4. CASE CollectorStep
    BY <2>4 DEF CollectorStep, FirstSuccessFinish, FirstSuccessError, FirstSuccessNotFound,
       FirstSuccessDone, ComparisonSingle, ComparisonResult, ComparisonNotFound, ComparisonDone,
       ComparisonFallback, Return
  <2>5. QED
    BY <2>1, <2>2, <2>3, <2>4 DEF EvaluationStep
<1>4. \A k : Answered(k)' = Answered(k)
  BY <1>1 DEF Answered
<1>5. Said' = Said
  BY <1>1, <1>4 DEF Said
<1>6. QED
  BY <1>1, <1>3, <1>4, <1>5

\* Names that do not depend on the state
LEMMA DefaultKept == ComparisonDefault' = ComparisonDefault
BY DEF ComparisonDefault, ComparisonDetail, ComparisonResolutionError, ComparisonResolutionReason

\* What the collector of a comparison decides when the last answer is in
Decision ==
    /\ done' # "failed" /\ Answered("ok")' \cup Answered("notFound")' = Members'
    /\ \/ Said' = {} /\ result' = ComparisonDefault /\ phase' = "returned"
       \/ /\ Cardinality(Said') = 1 /\ phase' = "returned"
          /\ result'.value \in Said' /\ result'.reason = "AGGREGATED" /\ result'.code = "none"
          /\ result'.variant \in Answered("ok")' /\ answer'[result'.variant].value = result'.value
       \/ Cardinality(Said') > 1 /\ fallback' /\ phase' = "fallback"
       \/ Cardinality(Said') > 1 /\ ~fallback' /\ result' = ComparisonDefault /\ phase' = "returned"

\* The collector compares the results it has when they and the not founds are all
LEMMA Compares ==
    ASSUME Typed, CallsInv, Delivered, Counted, PhaseInv, MatchInv, EvaluationStep,
           strategy = "comparison", Counting, answer' = answer,
           taken'.results # <<>>, Len(taken'.results) + taken'.notFound = N,
           Compare(taken'.results)
    PROVE  Decision
<1>1. AllSaid' /\ Typed' /\ PhaseInv'
  BY AccountedNext, EvaluationType, PhaseStep
<1>2. UNCHANGED <<strategy, fallback, N, Members>> /\ fallback \in BOOLEAN
  BY EvaluationKeeps DEF Typed
<1>3. (Typed /\ AllSaid /\ taken.results # <<>>)' =>
        (/\ answer[taken.results[1]].value \in Said
         /\ Agree(taken.results) => Cardinality(Said) = 1
         /\ ~Agree(taken.results) => Cardinality(Said) > 1)'
  BY Compared, PTL
<1> DEFINE r == taken'.results
<1>4. Agree(taken.results)' <=> Agree(r)
  BY DEF Agree
<1>5. /\ answer[r[1]].value \in Said'
      /\ Agree(r) => Cardinality(Said') = 1
      /\ ~Agree(r) => Cardinality(Said') > 1
  BY <1>1, <1>3, <1>4
<1>6. done' # "failed" /\ Answered("ok")' \cup Answered("notFound")' = Members'
  BY <1>1 DEF AllSaid, PhaseInv
<1>7. r[1] \in Answered("ok")'
  <2>1. 1 \in DOMAIN r
    BY <1>1 DEF Typed, TakenRecord
  <2>2. QED
    BY <1>1, <2>1 DEF AllSaid
<1> HIDE DEF r
<1>8. Compare(r)
  BY DEF r
<1>9. CASE Agree(r) /\ Return(ComparisonDetail(answer[r[1]].value, r[1], FALSE, FALSE))
  <2>1. result' = ComparisonDetail(answer[r[1]].value, r[1], FALSE, FALSE) /\ phase' = "returned"
    BY <1>9 DEF Return
  <2>2. /\ result'.value = answer[r[1]].value /\ result'.variant = r[1]
        /\ result'.reason = "AGGREGATED" /\ result'.code = "none"
    BY <2>1 DEF ComparisonDetail, ComparisonResolutionReason, ComparisonResolutionError
  <2>3. answer'[result'.variant].value = result'.value
    BY <2>2
  <2>4. QED
    BY <1>5, <1>6, <1>7, <1>9, <2>1, <2>2, <2>3 DEF Decision
<1>10. CASE ~Agree(r) /\ fallback /\ phase' = "fallback"
  BY <1>2, <1>5, <1>6, <1>10 DEF Decision
<1>11. CASE ~Agree(r) /\ ~fallback /\ Return(ComparisonDefault)
  BY <1>2, <1>5, <1>6, <1>11 DEF Decision, Return
<1>12. QED
  BY <1>8, <1>9, <1>10, <1>11 DEF Compare

\* It decides or goes on collecting
LEMMA Decides ==
    ASSUME Typed, CallsInv, Delivered, Counted, PhaseInv, MatchInv, EvaluationStep,
           strategy = "comparison", ComparisonResult \/ ComparisonNotFound
    PROVE  Decision \/ phase' = "collecting"
<1>1. Counting /\ N \in Nat /\ phase = "collecting"
  BY MembersFacts DEF ComparisonResult, ComparisonNotFound, PhaseInv
<1>2. UNCHANGED answer
  BY DEF ComparisonResult, ComparisonNotFound
<1>3. /\ taken \in TakenRecord /\ taken' \in TakenRecord
      /\ taken.results \in Seq(Providers) /\ finish \in Seq(Providers) /\ taken.notFound \in Nat
  BY EvaluationType DEF Typed, TakenRecord
<1>4. CASE ComparisonResult
  <2>1. CASE Len(taken'.results) + taken.notFound = N
    <3>1. Compare(taken'.results)
      BY <1>4, <2>1 DEF ComparisonResult
    <3>2. /\ finish # <<>> /\ taken' = [taken EXCEPT !.results = Append(@, Head(finish))]
      BY <1>4 DEF ComparisonResult
    <3>3. taken'.results = Append(taken.results, Head(finish)) /\ taken'.notFound = taken.notFound
      BY <1>3, <3>2 DEF TakenRecord
    <3>4. taken'.results # <<>>
      BY <1>3, <3>2, <3>3
    <3>5. QED
      BY <1>1, <1>2, <2>1, <3>1, <3>3, <3>4, Compares
  <2>2. CASE Len(taken'.results) + taken.notFound # N
    BY <1>1, <1>4, <2>2 DEF ComparisonResult
  <2>3. QED
    BY <2>1, <2>2
<1>5. CASE ComparisonNotFound
  <2>1. taken' = [taken EXCEPT !.notFound = @ + 1]
    BY <1>5 DEF ComparisonNotFound
  <2>2. taken'.notFound = taken.notFound + 1 /\ taken'.results = taken.results
    BY <1>3, <2>1 DEF TakenRecord
  <2>3. CASE taken'.notFound = N
    <3>1. Return(ComparisonDefault)
      <4>1. ~(taken'.notFound < N)
        BY <1>1, <2>3
      <4>2. QED
        BY <1>5, <2>3, <4>1 DEF ComparisonNotFound
    <3>2. Answered("notFound")' = Members
      BY <1>1, <2>3, AccountedNext
    <3>3. Answered("ok")' = {} /\ Answered("error")' = {}
      BY <3>2, AnsweredFacts DEF Answered
    <3>4. Said' = {}
      BY <3>3 DEF Said
    <3>5. done' # "failed"
      BY <3>3, PhaseStep DEF PhaseInv
    <3>6. Answered("ok")' \cup Answered("notFound")' = Members'
      BY <3>2, <3>3, EvaluationKeeps
    <3>7. QED
      BY <3>1, <3>4, <3>5, <3>6 DEF Return, Decision
  <2>4. CASE taken'.notFound < N /\ Len(taken.results) + taken'.notFound = N
    <3>1. taken'.notFound # N
      BY <1>1, <1>3, <2>2, <2>4
    <3>2. Compare(taken.results)
      BY <1>5, <2>4, <3>1 DEF ComparisonNotFound
    <3>3. taken'.results # <<>>
      BY <1>1, <1>3, <2>2, <2>4
    <3>4. QED
      BY <1>1, <1>2, <2>2, <2>4, <3>2, <3>3, Compares
  <2>5. CASE taken'.notFound # N /\ ~(taken'.notFound < N /\ Len(taken.results) + taken'.notFound = N)
    BY <1>1, <1>5, <2>5 DEF ComparisonNotFound
  <2>6. QED
    BY <2>3, <2>4, <2>5
<1>6. QED
  BY <1>4, <1>5


\* The comparison ends in one of these steps
LEMMA ComparisonEnds ==
    ASSUME Typed, PhaseInv, EvaluationStep, strategy = "comparison", ~Ended, Ended'
    PROVE  \/ ComparisonObjectEvaluation \/ ComparisonSingle \/ ComparisonResult
           \/ ComparisonNotFound \/ ComparisonDone \/ ComparisonFallback
<1>1. ~(CallerCancels \/ TimeoutElapses \/ \E p \in Providers : Answer(p))
  BY DEF CallerCancels, TimeoutElapses, Answer, Ended
<1>2. ~(\E p \in Providers : Goroutine(p))
  BY DEF Goroutine, FirstSuccessDeliver, ComparisonDeliver, Leave, Running, Ended
<1>3. ~EvaluateFirstMatch
  BY DEF EvaluateFirstMatch, PhaseInv
<1>4. ~(FirstSuccessFinish \/ FirstSuccessError \/ FirstSuccessNotFound \/ FirstSuccessDone)
  BY DEF FirstSuccessFinish, FirstSuccessError, FirstSuccessNotFound, FirstSuccessDone
<1>5. Evaluate => ComparisonObjectEvaluation
  BY DEF Evaluate, FirstMatchCalled, FirstSuccessCalled, ComparisonCalled, Ended
<1>6. QED
  BY <1>1, <1>2, <1>3, <1>4, <1>5 DEF EvaluationStep, CollectorStep

\* A comparison that has ended keeps its outcome: an answer that comes later
\* changes neither what was decided nor why
LEMMA OutcomeStays ==
    ASSUME Typed, CallsInv, PhaseInv, MatchInv, ComparisonOutcome, EvaluationStep, Ended,
           strategy = "comparison"
    PROVE  ComparisonOutcome'
<1> SUFFICES ASSUME ~object', N' > 1, done' # "cancelled" PROVE ComparisonOutcome'
  BY DEF ComparisonOutcome
<1>1. UNCHANGED <<phase, result, object, strategy, fallback, N, Members>>
  BY EndedStays, EvaluationKeeps
<1>2. done' = done \/ (done = "no" /\ done' = "failed")
  BY EndedStays
<1>3. done # "cancelled"
  BY <1>2
<1>4. CASE done = "failed" /\ Answered("error") # {} /\ result = ComparisonDefault
  <2>1. done' = "failed"
    BY <1>2, <1>4
  <2>2. Answered("error")' # {}
    BY <1>4, AnsweredFacts
  <2>3. result' = ComparisonDefault'
    BY <1>1, <1>4, DefaultKept
  <2>4. QED
    BY <2>1, <2>2, <2>3 DEF ComparisonOutcome
<1>5. CASE Answered("ok") \cup Answered("notFound") = Members
  <2>1. UNCHANGED <<answer, done, Said>> /\ \A k : Answered(k)' = Answered(k)
    BY <1>5, Settled DEF Ended
  <2>2. ComparisonDefault' = ComparisonDefault
    BY DefaultKept
  <2>3. QED
    BY <1>1, <2>1, <2>2 DEF ComparisonOutcome, Ended, Said, FallbackPanics
<1>6. QED
  BY <1>1, <1>3, <1>4, <1>5 DEF ComparisonOutcome

\* When a comparison ends, its outcome is that of the answers
LEMMA OutcomeReached ==
    ASSUME Typed, CallsInv, Delivered, Counted, PhaseInv, MatchInv, Disagreement, EvaluationStep,
           strategy = "comparison", ~Ended, Ended'
    PROVE  ComparisonOutcome' /\ SuccessIsAnAnswer'
<1>1. UNCHANGED <<strategy, fallback, N, Members>> /\ fallback \in BOOLEAN
  BY EvaluationKeeps DEF Typed
<1>2. ComparisonDefault' = ComparisonDefault /\ ComparisonDefault.code = "GENERAL"
  BY DefaultKept, ResultFields
<1>3. PhaseInv'
  BY PhaseStep
<1>4. CASE ComparisonObjectEvaluation
  <2>1. object' = TRUE /\ result'.code = "GENERAL"
    BY <1>4 DEF ComparisonObjectEvaluation, Called
  <2>2. QED
    BY <2>1 DEF ComparisonOutcome, SuccessIsAnAnswer
<1>5. CASE ComparisonSingle
  <2>1. N = 1
    BY <1>5 DEF ComparisonSingle, PhaseInv
  <2>2. QED
    BY <1>1, <2>1 DEF ComparisonOutcome, SuccessIsAnAnswer
<1>6. CASE ComparisonDone
  <2>1. done' = done /\ done # "no" /\ result' = ComparisonDefault
    BY <1>6 DEF ComparisonDone, Return
  <2>2. result'.code = "GENERAL"
    BY <1>2, <2>1
  <2>3. SuccessIsAnAnswer'
    BY <2>2 DEF SuccessIsAnAnswer
  <2>4. done = "cancelled" \/ (done = "failed" /\ Answered("error") # {})
    BY <2>1 DEF PhaseInv
  <2>5. done' = "cancelled" \/ (done' = "failed" /\ Answered("error")' # {})
    BY <2>1, <2>4, AnsweredFacts
  <2>6. QED
    BY <1>2, <2>1, <2>3, <2>5 DEF ComparisonOutcome
<1>7. CASE ComparisonResult \/ ComparisonNotFound
  <2>1. Decision
    BY <1>7, Decides DEF Ended
  <2>2. done' # "cancelled" => done' = "no"
    BY <1>1, <1>3, <2>1 DEF Decision, PhaseInv
  <2>3. Cardinality({}) = 0
    BY FS_EmptySet
  <2>4. CASE Said' = {} /\ result' = ComparisonDefault
    <3>1. SuccessIsAnAnswer'
      BY <1>2, <2>4 DEF SuccessIsAnAnswer
    <3>2. ComparisonOutcome'
      <4>1. {answer'[p].value : p \in Answered("ok")'} = {}
        BY <2>4 DEF Said
      <4>2. Answered("ok")' \cup Answered("notFound")' = Members'
        BY <2>1 DEF Decision
      <4>3. Cardinality({answer'[p].value : p \in Answered("ok")'}) = 0
        BY <2>3, <4>1
      <4>4. QED
        BY <1>2, <2>2, <2>4, <4>1, <4>2, <4>3 DEF ComparisonOutcome
    <3>3. QED
      BY <3>1, <3>2
  <2>5. CASE /\ Cardinality(Said') = 1 /\ result'.value \in Said'
             /\ result'.reason = "AGGREGATED" /\ result'.code = "none"
             /\ result'.variant \in Answered("ok")' /\ answer'[result'.variant].value = result'.value
    <3>1. SuccessIsAnAnswer'
      BY <2>5 DEF SuccessIsAnAnswer
    <3>2. Said' # {}
      BY <2>5
    <3>3. ComparisonOutcome'
      BY <2>1, <2>2, <2>5, <3>2 DEF ComparisonOutcome, Decision, Said
    <3>4. QED
      BY <3>1, <3>3
  <2>6. CASE Cardinality(Said') > 1 /\ ~fallback' /\ result' = ComparisonDefault
    <3>1. SuccessIsAnAnswer'
      BY <1>2, <2>6 DEF SuccessIsAnAnswer
    <3>2. Said' # {} /\ Cardinality(Said') # 1
      BY <2>3, <2>6
    <3>3. ComparisonOutcome'
      BY <1>2, <2>1, <2>2, <2>6, <3>2 DEF ComparisonOutcome, Decision, Said
    <3>4. QED
      BY <3>1, <3>3
  <2>7. QED
    BY <2>1, <2>4, <2>5, <2>6 DEF Decision, Ended
<1>8. CASE ComparisonFallback
  <2>1. phase = "fallback" /\ fallback
    BY <1>8 DEF ComparisonFallback, PhaseInv
  <2>2. /\ done # "failed" /\ Answered("ok") \cup Answered("notFound") = Members
        /\ Cardinality(Said) > 1
    BY <2>1 DEF Disagreement
  <2>3. UNCHANGED <<answer, done, Said>> /\ \A k : Answered(k)' = Answered(k)
    BY <2>1, <2>2, Settled
  <2>4. \/ phase' = "panicked"
        \/ /\ phase' = "returned" /\ result'.variant = "fallback"
           /\ result'.code = "none" /\ result'.reason = "AGGREGATED_FALLBACK"
    <3>1. \/ phase' = "panicked"
          \/ \E a \in Answers : Return(ComparisonDetail(a.value, "fallback", TRUE, FALSE))
      BY <1>8 DEF ComparisonFallback
    <3>2. ASSUME NEW a \in Answers, Return(ComparisonDetail(a.value, "fallback", TRUE, FALSE))
          PROVE  /\ phase' = "returned" /\ result'.variant = "fallback"
                 /\ result'.code = "none" /\ result'.reason = "AGGREGATED_FALLBACK"
      <4>1. phase' = "returned" /\ result' = ComparisonDetail(a.value, "fallback", TRUE, FALSE)
        BY <3>2 DEF Return
      <4>2. QED
        BY <4>1 DEF ComparisonDetail, ComparisonResolutionReason, ComparisonResolutionError
    <3>3. QED
      BY <3>1, <3>2
  <2>5. SuccessIsAnAnswer'
    BY <1>1, <2>4 DEF SuccessIsAnAnswer
  <2>6. Cardinality({}) = 0
    BY FS_EmptySet
  <2>7. Said' # {} /\ Cardinality(Said') # 1 /\ Cardinality(Said') > 1
    BY <2>2, <2>3, <2>6
  <2>8. done' # "cancelled" => done' = "no"
    BY <2>2, <2>3 DEF PhaseInv
  <2>9. Answered("ok")' \cup Answered("notFound")' = Members'
    BY <1>1, <2>2, <2>3
  <2>10. ComparisonOutcome'
    BY <1>1, <2>1, <2>4, <2>7, <2>8, <2>9 DEF ComparisonOutcome, Said, FallbackPanics
  <2>11. QED
    BY <2>5, <2>10
<1>9. QED
  BY <1>4, <1>5, <1>6, <1>7, <1>8, ComparisonEnds

\* The fallback is asked only after a disagreement
LEMMA DisagreementStep ==
    ASSUME Typed, CallsInv, Delivered, Counted, PhaseInv, MatchInv, Disagreement, EvaluationStep
    PROVE  Disagreement'
<1> SUFFICES ASSUME phase' \in {"fallback", "panicked"} PROVE Disagreement'
  BY DEF Disagreement
<1>1. strategy = "comparison" /\ UNCHANGED <<strategy, Members>>
  BY PhaseStep, EvaluationKeeps DEF PhaseInv
<1>2. CASE phase \in {"fallback", "panicked"}
  <2>1. /\ done # "failed" /\ Answered("ok") \cup Answered("notFound") = Members
        /\ Cardinality(Said) > 1
    BY <1>2 DEF Disagreement
  <2>2. UNCHANGED <<answer, done, Said>> /\ \A k : Answered(k)' = Answered(k)
    BY <1>1, <1>2, <2>1, Settled
  <2>3. QED
    BY <1>1, <2>1, <2>2 DEF Disagreement
<1>3. CASE phase \notin {"fallback", "panicked"}
  <2>1. ComparisonResult \/ ComparisonNotFound
    <3>1. ~(CallerCancels \/ TimeoutElapses \/ \E p \in Providers : Answer(p))
      BY <1>3 DEF CallerCancels, TimeoutElapses, Answer
    <3>2. ~(\E p \in Providers : Goroutine(p))
      BY <1>3 DEF Goroutine, FirstSuccessDeliver, ComparisonDeliver, Leave, Running
    <3>3. ~EvaluateFirstMatch
      BY <1>1 DEF EvaluateFirstMatch, PhaseInv
    <3>4. ~Evaluate
      BY DEF Evaluate, FirstMatchCalled, FirstSuccessCalled, ComparisonCalled,
         ComparisonObjectEvaluation
    <3>5. ~(FirstSuccessFinish \/ FirstSuccessError \/ FirstSuccessNotFound \/ FirstSuccessDone)
      BY <1>1 DEF FirstSuccessFinish, FirstSuccessError, FirstSuccessNotFound, FirstSuccessDone
    <3>6. ~(ComparisonSingle \/ ComparisonDone \/ ComparisonFallback)
      BY <1>3 DEF ComparisonSingle, ComparisonDone, ComparisonFallback, Return
    <3>7. QED
      BY <3>1, <3>2, <3>3, <3>4, <3>5, <3>6 DEF EvaluationStep, CollectorStep
  <2>2. Decision
    BY <1>1, <2>1, Decides
  <2>3. QED
    BY <2>2 DEF Decision, Disagreement
<1>4. QED
  BY <1>2, <1>3

\* The comparison: outcome and the provider a success comes from
LEMMA ComparisonStep ==
    ASSUME Typed, CallsInv, Delivered, Counted, PhaseInv, MatchInv, Disagreement,
           ComparisonOutcome, SuccessIsAnAnswer, EvaluationStep, strategy = "comparison"
    PROVE  ComparisonOutcome' /\ SuccessIsAnAnswer'
<1>1. CASE Ended
  BY <1>1, OutcomeStays, SuccessStays
<1>2. CASE ~Ended /\ Ended'
  BY <1>2, OutcomeReached
<1>3. CASE ~Ended'
  BY <1>3 DEF ComparisonOutcome, SuccessIsAnAnswer, Ended
<1>4. QED
  BY <1>1, <1>2, <1>3


-----------------------------------------------------------------------------
(* The invariant *)

\* The part of the invariant that is about the evaluation
EvaluationInv ==
    /\ CallsInv /\ Delivered /\ Counted /\ PhaseInv /\ MatchInv /\ Disagreement
    /\ FirstMatchInOrder /\ FirstSuccessVerdict /\ ComparisonOutcome /\ SuccessIsAnAnswer

\* It depends on the variables of the evaluation only
LEMMA EvaluationFrame ==
    ASSUME EvaluationInv, UNCHANGED <<strategy, order, fallback, evalVars>>
    PROVE  EvaluationInv'
<1>1. UNCHANGED <<N, Members, Counting, Ended, Said, GaveNotFound>>
  BY DEF N, Members, Counting, Ended, Said, GaveNotFound, Gave, Answered
<1>2. \A k : Answered(k)' = Answered(k)
  BY DEF Answered
<1>3. \A p, k : Gave(p, k)' <=> Gave(p, k)
  BY DEF Gave
<1>4. \A p : AnswerOf(p)' = AnswerOf(p)
  BY DEF AnswerOf, CodeOf
<1>5. \A b : BuildDefaultResult(b)' = BuildDefaultResult(b)
  BY DEF BuildDefaultResult
<1>6. CallsInv'
  BY <1>1 DEF EvaluationInv, CallsInv
<1>7. Delivered'
  BY DEF EvaluationInv, Delivered, Distinct, Gave
<1>8. Counted'
  BY <1>1 DEF EvaluationInv, Counted
<1>9. PhaseInv'
  BY <1>1, <1>2 DEF EvaluationInv, PhaseInv
<1>10. MatchInv'
  BY <1>1 DEF EvaluationInv, MatchInv, Gave
<1>11. Disagreement'
  BY <1>1, <1>2 DEF EvaluationInv, Disagreement
<1>12. FirstMatchInOrder'
  BY <1>1 DEF EvaluationInv, FirstMatchInOrder, Answered, AnswerOf, CodeOf, BuildDefaultResult
<1>13. FirstSuccessVerdict'
  BY <1>1, <1>2 DEF EvaluationInv, FirstSuccessVerdict
<1>14. ComparisonOutcome'
  <2>1. ComparisonDefault' = ComparisonDefault /\ ComparisonOutcome
    BY DefaultKept DEF EvaluationInv
  <2>2. QED
    BY <1>1, <1>2, <2>1 DEF ComparisonOutcome, Said, FallbackPanics
<1>15. SuccessIsAnAnswer'
  BY <1>1, <1>2 DEF EvaluationInv, SuccessIsAnAnswer
<1>16. QED
  BY <1>6, <1>7, <1>8, <1>9, <1>10, <1>11, <1>12, <1>13, <1>14, <1>15 DEF EvaluationInv

\* A step of the life cycle leaves the evaluation alone
LEMMA LifecycleStep ==
    ASSUME Typed, Lifecycle
    PROVE  Typed' /\ UNCHANGED <<strategy, order, fallback, evalVars>>
<1>1. UNCHANGED <<strategy, order, fallback, evalVars>>
  BY DEF Lifecycle, InitStart, InitReturn, ShutdownStart, ShutdownReturn, ProviderInit,
     ProviderShutdown
<1>2. UNCHANGED <<N, Members>> /\ Members \in SUBSET Providers
  BY <1>1, MembersFacts DEF N, Members
<1>3. handler \in [Providers -> {"idle", "running", "ok", "failed"}]
  BY DEF Typed
<1>4. /\ status' \in {"unset", "READY", "ERROR"}
      /\ life' \in {"new", "initialising", "initialised", "stopping", "stopped"}
      /\ handler' \in [Providers -> {"idle", "running", "ok", "failed"}]
  <2>1. CASE InitStart
    BY <1>2, <1>3, <2>1 DEF InitStart, Typed
  <2>2. CASE InitReturn
    <3>1. status' \in {"READY", "ERROR"}
      BY <2>2 DEF InitReturn
    <3>2. QED
      BY <1>3, <2>2, <3>1 DEF InitReturn, Typed
  <2>3. CASE ShutdownStart
    BY <1>2, <1>3, <2>3 DEF ShutdownStart, Typed
  <2>4. CASE ShutdownReturn
    BY <1>2, <1>3, <2>4 DEF ShutdownReturn, Typed
  <2>5. ASSUME NEW p \in Providers, ProviderInit(p)
        PROVE  /\ status' = status /\ life' = life
               /\ handler' \in [Providers -> {"idle", "running", "ok", "failed"}]
    <3>1. PICK r \in {"ok", "failed"} : handler' = [handler EXCEPT ![p] = r]
      BY <2>5 DEF ProviderInit
    <3>2. status' = status /\ life' = life
      BY <2>5 DEF ProviderInit
    <3>3. QED
      BY <1>2, <1>3, <3>1, <3>2
  <2>6. ASSUME NEW p \in Providers, ProviderShutdown(p)
        PROVE  /\ status' = status /\ life' = life
               /\ handler' \in [Providers -> {"idle", "running", "ok", "failed"}]
    BY <1>2, <1>3, <2>6 DEF ProviderShutdown
  <2>7. QED
    BY <2>1, <2>2, <2>3, <2>4, <2>5, <2>6 DEF Lifecycle, Typed
<1>5. Typed'
  BY <1>1, <1>2, <1>4 DEF Typed
<1>6. QED
  BY <1>1, <1>4, <1>5

\* The initial states satisfy the invariant
LEMMA InvInit == Init => MultiInv
<1> SUFFICES ASSUME Init PROVE MultiInv
  OBVIOUS
<1>1. PICK ps \in SUBSET Providers : ps # {} /\ order \in Orders(ps)
  <2>1. PICK ps \in SUBSET Providers :
           /\ ps # {}
           /\ IF strategy = "first_match" THEN AsNamedProviderSlice(ps)
                                          ELSE order = CHOOSE s \in Orders(ps) : TRUE
    BY DEF Init, NewMultiProvider
  <2>2. IsFiniteSet(ps)
    BY ProvidersAssumption, FS_Subset
  <2>3. (CHOOSE s \in Orders(ps) : TRUE) \in Orders(ps)
    BY <2>2, OrderExists
  <2>4. order \in Orders(ps)
    BY <2>1, <2>3 DEF AsNamedProviderSlice
  <2>5. QED
    BY <2>1, <2>4
<1>2. N \in Nat
  <2>1. IsFiniteSet(ps)
    BY ProvidersAssumption, FS_Subset
  <2>2. QED
    BY <1>1, <2>1, OrderOf DEF N
<1>3. taken \in TakenRecord /\ taken.results = <<>> /\ taken.errors = {} /\ taken.notFound = 0
  BY DEF Init, TakenRecord
<1>4. Typed
  <2>1. /\ strategy \in {"first_match", "first_success", "comparison"} /\ fallback \in BOOLEAN
        /\ status \in {"unset", "READY", "ERROR"}
    BY DEF Init, NewMultiProvider
  <2>2. /\ pc \in [Providers -> {"idle", "calling", "answered", "blocked", "done", "left"}]
        /\ answer \in [Providers -> Answers \cup {NoOne}]
        /\ handler \in [Providers -> {"idle", "running", "ok", "failed"}]
    BY DEF Init
  <2>3. /\ object \in BOOLEAN /\ elapsed \in BOOLEAN
        /\ phase = "idle" /\ pos = 0 /\ finish = <<>> /\ errChan = {} /\ done = "no" /\ result = NoOne
        /\ life = "new"
    BY DEF Init
  <2>4. pos \in 0 .. N /\ finish \in Seq(Providers) /\ errChan \in SUBSET Providers
    BY <1>2, <2>3
  <2>5. QED
    BY <1>1, <1>3, <2>1, <2>2, <2>3, <2>4 DEF Typed
<1>5. CallsInv /\ MatchInv /\ Disagreement
  BY DEF Init, CallsInv, MatchInv, Disagreement
<1>6. Delivered
  BY <1>3 DEF Init, Delivered, Distinct
<1>7. Counted
  <2>1. GaveNotFound = {}
    BY DEF Init, GaveNotFound, Gave
  <2>2. QED
    BY <1>3, <2>1, FS_EmptySet DEF Counted
<1>8. PhaseInv
  BY DEF Init, PhaseInv
<1>9. FirstMatchInOrder /\ FirstSuccessVerdict /\ ComparisonOutcome /\ SuccessIsAnAnswer
  <2>1. ~Ended /\ phase # "returned"
    BY DEF Init, Ended
  <2>2. QED
    BY <2>1 DEF FirstMatchInOrder, FirstSuccessVerdict, ComparisonOutcome, SuccessIsAnAnswer
<1>10. QED
  BY <1>4, <1>5, <1>6, <1>7, <1>8, <1>9 DEF MultiInv

\* Every step preserves it
LEMMA InvNext == MultiInv /\ [Next]_vars => MultiInv'
<1> SUFFICES ASSUME MultiInv, [Next]_vars PROVE MultiInv'
  OBVIOUS
<1>1. Typed /\ EvaluationInv
  BY DEF MultiInv, EvaluationInv
<1>2. CASE UNCHANGED vars
  <2>1. EvaluationInv'
    BY <1>1, <1>2, EvaluationFrame
  <2>2. UNCHANGED <<N, Members>>
    BY <1>2 DEF N, Members
  <2>3. Typed'
    BY <1>1, <1>2, <2>2 DEF Typed
  <2>4. QED
    BY <2>1, <2>3 DEF MultiInv, EvaluationInv
<1>3. CASE Lifecycle
  <2>1. Typed' /\ UNCHANGED <<strategy, order, fallback, evalVars>>
    BY <1>1, <1>3, LifecycleStep
  <2>2. EvaluationInv'
    BY <1>1, <2>1, EvaluationFrame
  <2>3. QED
    BY <2>1, <2>2 DEF MultiInv, EvaluationInv
<1>4. CASE EvaluationStep
  <2>1. /\ CallsInv /\ Delivered /\ Counted /\ PhaseInv /\ MatchInv /\ Disagreement
        /\ FirstMatchInOrder /\ FirstSuccessVerdict /\ ComparisonOutcome /\ SuccessIsAnAnswer
    BY <1>1 DEF EvaluationInv
  <2>2. UNCHANGED <<strategy, Members, life, handler>>
    BY <1>4, EvaluationKeeps
  <2>3. Typed' /\ CallsInv' /\ Delivered' /\ Counted'
    BY <1>1, <1>4, <2>1, EvaluationType, AnswersStay, DeliveredStep, CountedStep
  <2>4. PhaseInv' /\ MatchInv' /\ Disagreement' /\ FirstMatchInOrder'
    BY <1>1, <1>4, <2>1, PhaseStep, MatchStep, DisagreementStep, FirstMatchStep
  <2>6. FirstSuccessVerdict'
    <3>1. CASE strategy = "first_success"
      BY <1>1, <1>4, <2>1, <3>1, FirstSuccessStep
    <3>2. CASE strategy # "first_success"
      BY <2>2, <3>2 DEF FirstSuccessVerdict
    <3>3. QED
      BY <3>1, <3>2
  <2>7. ComparisonOutcome'
    <3>1. CASE strategy = "comparison"
      BY <1>1, <1>4, <2>1, <3>1, ComparisonStep
    <3>2. CASE strategy # "comparison"
      BY <2>2, <3>2 DEF ComparisonOutcome
    <3>3. QED
      BY <3>1, <3>2
  <2>8. SuccessIsAnAnswer'
    <3>1. CASE strategy = "comparison"
      BY <1>1, <1>4, <2>1, <3>1, ComparisonStep
    <3>2. CASE strategy = "first_success"
      BY <1>1, <1>4, <2>1, <3>2, FirstSuccessStep
    <3>3. CASE strategy = "first_match"
      <4>1. (Typed /\ FirstMatchInOrder /\ strategy = "first_match")' => SuccessIsAnAnswer'
        BY FirstMatchSuccess, PTL
      <4>2. QED
        BY <2>2, <2>3, <2>4, <3>3, <4>1
    <3>4. QED
      BY <1>1, <3>1, <3>2, <3>3 DEF Typed
  <2>9. QED
    BY <2>3, <2>4, <2>6, <2>7, <2>8 DEF MultiInv
<1>5. QED
  BY <1>2, <1>3, <1>4, TwoKinds

\* The bounds of the channels: no provider delivers twice, so that a buffer of
\* one place per provider is never full
LEMMA Bounded == MultiInv => TypeOK
<1> SUFFICES ASSUME MultiInv PROVE TypeOK
  OBVIOUS
<1>1. Typed /\ CallsInv /\ Delivered /\ Counted
  BY DEF MultiInv
<1>2. N \in Nat /\ IsFiniteSet(Members) /\ Cardinality(Members) = N
  BY <1>1, MembersFacts
<1>3. /\ taken.results \in Seq(Providers) /\ finish \in Seq(Providers)
      /\ taken.errors \in SUBSET Providers /\ taken.notFound \in Nat
  BY <1>1 DEF Typed, TakenRecord
<1>4. \A p \in Providers : pc[p] = "done" => p \in Members
  BY <1>1 DEF CallsInv
<1>5. finish \in Seq(Members) /\ taken.results \in Seq(Members)
  <2>1. /\ \A i \in DOMAIN finish : finish[i] \in Members
        /\ \A i \in DOMAIN taken.results : taken.results[i] \in Members
    BY <1>1, <1>3, <1>4 DEF Delivered, Gave
  <2>2. QED
    BY <1>3, <2>1
<1>6. Len(finish) <= N /\ Len(taken.results) <= N
  <2>1. Cardinality({}) = 0 /\ {} \in SUBSET Members
    BY FS_EmptySet
  <2>2. Len(finish) + Cardinality({}) <= Cardinality(Members)
    BY <1>1, <1>2, <1>5, <2>1, Fits DEF Delivered
  <2>3. Len(taken.results) + Cardinality({}) <= Cardinality(Members)
    BY <1>1, <1>2, <1>5, <2>1, Fits DEF Delivered
  <2>4. QED
    BY <1>2, <1>3, <2>1, <2>2, <2>3
<1>7. taken.notFound \in 0 .. N
  <2>1. CASE Counting
    BY <1>1, <1>2, <1>3, <2>1, Accounted
  <2>2. CASE ~Counting
    BY <1>1, <1>2, <2>2 DEF Counted
  <2>3. QED
    BY <2>1, <2>2
<1>8. QED
  BY <1>1, <1>3, <1>6, <1>7 DEF Typed, TypeOK

-----------------------------------------------------------------------------
(* The results *)

(***************************************************************************)
(* The inductive invariant holds of every behaviour of the multi-provider. *)
(***************************************************************************)
THEOREM MultiInvariant == Spec => []MultiInv
<1>1. QED
  BY InvInit, InvNext, PTL DEF Spec

(***************************************************************************)
(* Whatever the strategy and however many providers: first match answers   *)
(* what the first provider in order that knows the flag answered, a result *)
(* without an error is a provider's own, and no channel of an evaluation   *)
(* exceeds the buffer it was made with.                                    *)
(***************************************************************************)
THEOREM EvaluationJustified == Spec => []OutcomeJustified
<1>1. MultiInv => OutcomeJustified
  BY Bounded DEF MultiInv, OutcomeJustified
<1>2. QED
  BY <1>1, MultiInvariant, PTL

(***************************************************************************)
(* First success says "not found" only when every provider said so, and    *)
(* reports an error only when every provider failed or the context was     *)
(* done: results that arrive in any order do not change the verdict.       *)
(***************************************************************************)
THEOREM FirstSuccessJustified == Spec => []FirstSuccessVerdict
<1>1. MultiInv => FirstSuccessVerdict
  BY DEF MultiInv
<1>2. QED
  BY <1>1, MultiInvariant, PTL

(***************************************************************************)
(* For any number of providers: an error gives the default; otherwise a    *)
(* comparison ends when all have answered, with the value they agree on    *)
(* and the variant of one of them, with the fallback's answer or a panic   *)
(* on its nil metadata (comparison.go:331), or with the default; and what  *)
(* arrives after the end changes nothing of it.                            *)
(***************************************************************************)
THEOREM ComparisonJustified == Spec => []ComparisonOutcome
<1>1. MultiInv => ComparisonOutcome
  BY DEF MultiInv
<1>2. QED
  BY <1>1, MultiInvariant, PTL

=============================================================================
