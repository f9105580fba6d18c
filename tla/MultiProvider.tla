---------------------------- MODULE MultiProvider ----------------------------
(***************************************************************************)
(* The multi-provider of providers/multi-provider: a set of providers, one *)
(* evaluation strategy chosen at construction, and the life cycle that is  *)
(* fanned out to the providers.                                            *)
(*                                                                         *)
(* One evaluation is modelled: the strategies keep no state from one to    *)
(* the next.  First match consults the providers one after another.  First *)
(* success and comparison start a goroutine per provider, each of which    *)
(* starts another that makes the call; a collector selects on the channels *)
(* they send on and on the context.  What a provider answers, when, and    *)
(* whether it answers at all, is the environment's choice.                 *)
(*                                                                         *)
(* The five typed entry points of a strategy differ in the type only, save *)
(* that comparison refuses objects: "object" says which is asked for.      *)
(***************************************************************************)
EXTENDS Integers, Sequences, FiniteSets

CONSTANTS
    Providers,   \* the providers a ProviderMap may name
    Values,      \* what a flag may evaluate to
    Default,     \* the caller's default value
    NoOne        \* in place of a provider, of an answer or of a result

ASSUME ProvidersAssumption == IsFiniteSet(Providers) /\ Providers # {}
ASSUME ValuesAssumption == Default \in Values

VARIABLES
    strategy,  \* the strategy given to NewMultiProvider
    order,     \* the slice the strategy keeps: the map in iteration order
    fallback,  \* WithFallbackProvider was given
    status,    \* mp.status
    life,      \* what the SDK does with the provider: Init, Shutdown
    handler,   \* where each provider's own Init or Shutdown is
    phase,     \* where the evaluation is
    object,    \* ObjectEvaluation was called
    pos,       \* first match: the loop's index
    pc,        \* the goroutine of each provider
    answer,    \* what each provider returned
    finish,    \* finishChan or resultChan, buffered for every provider
    errChan,   \* errChan, buffered for every provider
    taken,     \* what the collector received: results, errors, not founds
    done,      \* why the context of the evaluation is done
    elapsed,   \* the timeout of the configuration has passed
    result     \* what the caller gets

config == <<strategy, order, fallback>>
evalVars == <<phase, object, pos, pc, answer, finish, errChan, taken, done,
              elapsed, result>>
lifeVars == <<status, life, handler>>
vars == <<config, lifeVars, evalVars>>

N == Len(order)

\* The providers of the ProviderMap.
Members == {order[i] : i \in 1 .. N}

(***************************************************************************)
(* What a provider may answer.  By the contract of a provider an error     *)
(* comes with the default value.                                           *)
(***************************************************************************)
Answers == [kind : {"ok"}, value : Values]
           \cup [kind : {"notFound", "error"}, value : {Default}]

ASSUME NoOneAssumption == NoOne \notin Providers \cup Values \cup Answers

Codes == {"none", "FLAG_NOT_FOUND", "GENERAL", "PROVIDER"}

Reasons == {"PROVIDER", "DEFAULT", "ERROR", "AGGREGATED", "AGGREGATED_FALLBACK"}

Results == [value : Values, code : Codes, reason : Reasons,
            variant : Providers \cup {NoOne, "fallback"}]

CodeOf(a) ==
    CASE a.kind = "ok" -> "none"
      [] a.kind = "notFound" -> "FLAG_NOT_FOUND"
      [] a.kind = "error" -> "PROVIDER"

Orders(ps) == {s \in [1 .. Cardinality(ps) -> ps] : \A p \in ps : \E i \in DOMAIN s : s[i] = p}

TypeOK ==
    /\ strategy \in {"first_match", "first_success", "comparison"}
    /\ \E ps \in SUBSET Providers : ps # {} /\ order \in Orders(ps)
    /\ fallback \in BOOLEAN
    /\ status \in {"unset", "READY", "ERROR"}
    /\ life \in {"new", "initialising", "initialised", "stopping", "stopped"}
    /\ handler \in [Providers -> {"idle", "running", "ok", "failed"}]
    /\ phase \in {"idle", "matching", "single", "collecting", "fallback",
                  "returned", "panicked"}
    /\ object \in BOOLEAN
    /\ pos \in 0 .. N
    /\ pc \in [Providers -> {"idle", "calling", "answered", "blocked", "done", "left"}]
    /\ answer \in [Providers -> Answers \cup {NoOne}]
    /\ finish \in Seq(Providers) /\ Len(finish) <= N
    /\ errChan \subseteq Providers
    /\ taken.results \in Seq(Providers) /\ Len(taken.results) <= N
    /\ taken.errors \subseteq Providers
    /\ taken.notFound \in 0 .. N
    /\ done \in {"no", "timeout", "cancelled", "failed", "over"}
    /\ elapsed \in BOOLEAN
    /\ result \in Results \cup {NoOne}

-----------------------------------------------------------------------------
(***************************************************************************)
(* Construction and life cycle.                                            *)
(***************************************************************************)

\* A ProviderMap is iterated in an order Go does not fix.
AsNamedProviderSlice(ps) == order \in Orders(ps)

\* Any map that is not empty; only first match depends on the order.
NewMultiProvider ==
    /\ strategy \in {"first_match", "first_success", "comparison"}
    /\ \E ps \in SUBSET Providers :
          /\ ps # {}
          /\ IF strategy = "first_match" THEN AsNamedProviderSlice(ps)
                                         ELSE order = CHOOSE s \in Orders(ps) : TRUE
    /\ fallback \in BOOLEAN
    /\ status = "unset"

Init ==
    /\ NewMultiProvider
    /\ life = "new"
    /\ handler = [p \in Providers |-> "idle"]
    /\ phase = "idle" /\ object = FALSE /\ pos = 0
    /\ pc = [p \in Providers |-> "idle"]
    /\ answer = [p \in Providers |-> NoOne]
    /\ finish = <<>> /\ errChan = {}
    /\ taken = [results |-> <<>>, errors |-> {}, notFound |-> 0]
    /\ done = "no" /\ elapsed = FALSE /\ result = NoOne

\* MultiProvider.Init starts every provider's Init in its own goroutine ...
InitStart ==
    /\ life = "new"
    /\ life' = "initialising"
    /\ handler' = [p \in Providers |-> IF p \in Members THEN "running" ELSE "idle"]
    /\ UNCHANGED <<config, status, evalVars>>

\* ... each of which ends with or without an error ...
ProviderInit(p) ==
    /\ life = "initialising" /\ handler[p] = "running"
    /\ \E r \in {"ok", "failed"} : handler' = [handler EXCEPT ![p] = r]
    /\ UNCHANGED <<config, status, life, evalVars>>

\* ... and waits for all of them: the group has no context, so that one that
\* fails stops no other.
InitReturn ==
    /\ life = "initialising"
    /\ \A p \in Members : handler[p] # "running"
    /\ status' = IF \E p \in Members : handler[p] = "failed" THEN "ERROR" ELSE "READY"
    /\ life' = "initialised"
    /\ handler' = [p \in Providers |-> "idle"]
    /\ UNCHANGED <<config, evalVars>>

\* Shutdown fans out the same way and leaves the status as it is.  It and an
\* evaluation share no variable, so their interleavings are left out.
ShutdownStart ==
    /\ life = "initialised" /\ phase = "idle"
    /\ life' = "stopping"
    /\ handler' = [p \in Providers |-> IF p \in Members THEN "running" ELSE "idle"]
    /\ UNCHANGED <<config, status, evalVars>>

ProviderShutdown(p) ==
    /\ life = "stopping" /\ handler[p] = "running"
    /\ handler' = [handler EXCEPT ![p] = "ok"]
    /\ UNCHANGED <<config, status, life, evalVars>>

ShutdownReturn ==
    /\ life = "stopping"
    /\ \A p \in Members : handler[p] # "running"
    /\ life' = "stopped"
    /\ UNCHANGED <<config, status, handler, evalVars>>

-----------------------------------------------------------------------------
(***************************************************************************)
(* Results.                                                                *)
(***************************************************************************)

\* buildDefaultResult: the default value, with an error or as not found.
BuildDefaultResult(err) ==
    [value |-> Default,
     code |-> IF err THEN "GENERAL" ELSE "FLAG_NOT_FOUND",
     reason |-> IF err THEN "ERROR" ELSE "DEFAULT",
     variant |-> NoOne]

\* The answer of one provider, handed to the caller as it came.
AnswerOf(p) ==
    [value |-> answer[p].value, code |-> CodeOf(answer[p]),
     reason |-> "PROVIDER", variant |-> p]

\* The typed entry points of first success hand it on with the merged tags.
FirstSuccessDetail(p) == AnswerOf(p)

\* comparisonResolutionError: the metadata that would tell "not found" is
\* never written, so that every default is a general error.
ComparisonResolutionError(isDefault) == IF isDefault THEN "GENERAL" ELSE "none"

ComparisonResolutionReason(fallbackUsed, isDefault) ==
    CASE fallbackUsed -> "AGGREGATED_FALLBACK"
      [] ~fallbackUsed /\ isDefault -> "DEFAULT"
      [] OTHER -> "AGGREGATED"

\* The typed entry points of the comparison build the detail anew: the value
\* and the variant of the first result, error and reason from the metadata.
ComparisonDetail(value, variant, fallbackUsed, isDefault) ==
    [value |-> value,
     code |-> ComparisonResolutionError(isDefault),
     reason |-> ComparisonResolutionReason(fallbackUsed, isDefault),
     variant |-> variant]

ComparisonDefault == ComparisonDetail(Default, NoOne, FALSE, TRUE)

\* The comparator of the typed entry points.
Agree(ps) == \A i \in DOMAIN ps : answer[ps[i]].value = answer[ps[1]].value

\* The evaluation ends.  First success cancels its context; comparison does
\* not, and its goroutines go on.
Return(r) ==
    /\ phase' = "returned"
    /\ result' = r
    /\ done' = IF strategy = "first_success" /\ done = "no" THEN "over" ELSE done

-----------------------------------------------------------------------------
(***************************************************************************)
(* The call.  The SDK evaluates with a provider whose Init has returned.   *)
(***************************************************************************)

Called(o) ==
    /\ phase = "idle" /\ life = "initialised"
    /\ object' = o
    /\ UNCHANGED <<config, lifeVars, answer, finish, errChan, taken, done, elapsed>>

\* A goroutine for every provider.
CallAll == pc' = [p \in Providers |-> IF p \in Members THEN "calling" ELSE "idle"]

FirstMatchCalled(o) ==
    /\ strategy = "first_match" /\ Called(o)
    /\ phase' = "matching" /\ pos' = 1
    /\ pc' = [pc EXCEPT ![order[1]] = "calling"]
    /\ UNCHANGED result

FirstSuccessCalled(o) ==
    /\ strategy = "first_success" /\ Called(o)
    /\ phase' = "collecting" /\ CallAll
    /\ UNCHANGED <<pos, result>>

ComparisonCalled ==
    /\ strategy = "comparison" /\ Called(FALSE)
    /\ phase' = IF N = 1 THEN "single" ELSE "collecting"
    /\ CallAll
    /\ UNCHANGED <<pos, result>>

\* Objects are not compared.
ComparisonObjectEvaluation ==
    /\ strategy = "comparison" /\ Called(TRUE)
    /\ phase' = "returned"
    /\ result' = [value |-> Default, code |-> "GENERAL",
                  reason |-> "DEFAULT", variant |-> NoOne]
    /\ UNCHANGED <<pos, pc>>

Evaluate ==
    \/ \E o \in BOOLEAN : FirstMatchCalled(o) \/ FirstSuccessCalled(o)
    \/ ComparisonCalled \/ ComparisonObjectEvaluation

\* A provider answers the goroutine that called it.
Answer(p) ==
    /\ pc[p] = "calling"
    /\ \E a \in Answers : answer' = [answer EXCEPT ![p] = a]
    /\ pc' = [pc EXCEPT ![p] = "answered"]
    /\ UNCHANGED <<config, lifeVars, phase, object, pos,
                   finish, errChan, taken, done, elapsed, result>>

\* The caller cancels the context it called with.
CallerCancels ==
    /\ phase = "collecting" /\ done = "no"
    /\ done' = "cancelled"
    /\ UNCHANGED <<config, lifeVars, phase, object, pos, pc,
                   answer, finish, errChan, taken, elapsed, result>>

\* The time given by WithTimeout passes; only first success made a timer.
TimeoutElapses ==
    /\ phase = "collecting" /\ ~elapsed
    /\ elapsed' = TRUE
    /\ done' = IF strategy = "first_success" /\ done = "no" THEN "timeout" ELSE done
    /\ UNCHANGED <<config, lifeVars, phase, object, pos, pc,
                   answer, finish, errChan, taken, result>>

-----------------------------------------------------------------------------
(***************************************************************************)
(* First match: the loop looks at the answer of the provider it called.    *)
(***************************************************************************)

\* Mistake: the loop goes on after any error.
EvaluateFirstMatchSkipsErrors ==
    /\ phase = "matching" /\ pc[order[pos]] = "answered"
    /\ LET p == order[pos] IN
       \/ /\ answer[p].kind # "ok" /\ pos < N
          /\ pos' = pos + 1
          /\ pc' = [pc EXCEPT ![p] = "done", ![order[pos + 1]] = "calling"]
          /\ UNCHANGED <<phase, result, done>>
       \/ /\ answer[p].kind = "ok" \/ pos = N
          /\ pc' = [pc EXCEPT ![p] = "done"]
          /\ Return(AnswerOf(p))
          /\ UNCHANGED pos
    /\ UNCHANGED <<config, lifeVars, object, answer, finish,
                   errChan, taken, elapsed>>

EvaluateFirstMatch ==
    /\ phase = "matching" /\ pc[order[pos]] = "answered"
    /\ LET p == order[pos] IN
       \/ /\ answer[p].kind = "notFound" /\ pos < N
          /\ pos' = pos + 1
          /\ pc' = [pc EXCEPT ![p] = "done", ![order[pos + 1]] = "calling"]
          /\ UNCHANGED <<phase, result, done>>
       \/ /\ answer[p].kind = "notFound" /\ pos = N
          /\ pc' = [pc EXCEPT ![p] = "done"]
          /\ Return(BuildDefaultResult(FALSE))
          /\ UNCHANGED pos
       \/ /\ answer[p].kind # "notFound"
          /\ pc' = [pc EXCEPT ![p] = "done"]
          /\ Return(AnswerOf(p))
          /\ UNCHANGED pos
    /\ UNCHANGED <<config, lifeVars, object, answer, finish,
                   errChan, taken, elapsed>>

-----------------------------------------------------------------------------
(***************************************************************************)
(* The goroutines of the parallel strategies.                              *)
(***************************************************************************)

Running(p) ==
    /\ phase \in {"collecting", "fallback", "returned", "panicked"}
    /\ pc[p] \in {"calling", "answered"}
    /\ UNCHANGED <<config, lifeVars, phase, object, pos, answer, taken, elapsed, result>>

\* The answer reaches the goroutine of provider p, which sends it on: a result
\* and an error into a buffer; "not found" waits for the collector.
FirstSuccessDeliver(p) ==
    /\ strategy = "first_success" /\ Running(p) /\ pc[p] = "answered"
    /\ pc' = [pc EXCEPT ![p] = IF answer[p].kind = "notFound" THEN "blocked" ELSE "done"]
    /\ finish' = IF answer[p].kind = "ok" THEN Append(finish, p) ELSE finish
    /\ errChan' = IF answer[p].kind = "error" THEN errChan \cup {p} ELSE errChan
    /\ UNCHANGED done

\* The same, but that an error is returned to the group, which cancels its
\* context at the first.
ComparisonDeliver(p) ==
    /\ strategy = "comparison" /\ Running(p) /\ pc[p] = "answered"
    /\ pc' = [pc EXCEPT ![p] = IF answer[p].kind = "notFound" THEN "blocked" ELSE "done"]
    /\ finish' = IF answer[p].kind = "ok" THEN Append(finish, p) ELSE finish
    /\ done' = IF answer[p].kind = "error" /\ done = "no" THEN "failed" ELSE done
    /\ UNCHANGED errChan

\* The goroutine selects the context that is done; the one that makes the
\* call is left behind.
Leave(p) ==
    /\ Running(p) /\ done # "no"
    /\ pc' = [pc EXCEPT ![p] = "left"]
    /\ UNCHANGED <<finish, errChan, done>>

-----------------------------------------------------------------------------
(***************************************************************************)
(* The collector of first success.                                         *)
(***************************************************************************)

FirstSuccessFinish ==
    /\ phase = "collecting" /\ strategy = "first_success" /\ finish # <<>>
    /\ finish' = Tail(finish)
    /\ Return(FirstSuccessDetail(Head(finish)))
    /\ UNCHANGED <<config, lifeVars, object, pos, pc, answer,
                   errChan, taken, elapsed>>

\* The loop returns as soon as every provider has sent an error.
FirstSuccessError ==
    /\ phase = "collecting" /\ strategy = "first_success"
    /\ \E p \in errChan :
          /\ errChan' = errChan \ {p}
          /\ taken' = [taken EXCEPT !.errors = @ \cup {p}]
    /\ IF Cardinality(taken'.errors) = N
       THEN Return(BuildDefaultResult(TRUE))
       ELSE UNCHANGED <<phase, result, done>>
    /\ UNCHANGED <<config, lifeVars, object, pos, pc, answer,
                   finish, elapsed>>

\* Mistake: one "not found" is enough.
FirstSuccessNotFoundFirst ==
    /\ phase = "collecting" /\ strategy = "first_success"
    /\ \E p \in Members :
          /\ pc[p] = "blocked"
          /\ pc' = [pc EXCEPT ![p] = "done"]
    /\ taken' = [taken EXCEPT !.notFound = @ + 1]
    /\ Return(BuildDefaultResult(FALSE))
    /\ UNCHANGED <<config, lifeVars, object, pos, answer,
                   finish, errChan, elapsed>>

FirstSuccessNotFound ==
    /\ phase = "collecting" /\ strategy = "first_success"
    /\ \E p \in Members :
          /\ pc[p] = "blocked"
          /\ pc' = [pc EXCEPT ![p] = "done"]
    /\ taken' = [taken EXCEPT !.notFound = @ + 1]
    /\ IF taken'.notFound = N
       THEN Return(BuildDefaultResult(FALSE))
       ELSE UNCHANGED <<phase, result, done>>
    /\ UNCHANGED <<config, lifeVars, object, pos, answer,
                   finish, errChan, elapsed>>

\* The context is done: an aggregate of the errors or that of the context.
FirstSuccessDone ==
    /\ phase = "collecting" /\ strategy = "first_success" /\ done # "no"
    /\ Return(BuildDefaultResult(TRUE))
    /\ UNCHANGED <<config, lifeVars, object, pos, pc, answer,
                   finish, errChan, taken, elapsed>>

-----------------------------------------------------------------------------
(***************************************************************************)
(* The collector of the comparison.                                        *)
(***************************************************************************)

\* One provider: its value and variant, and no error whatever it answered.
ComparisonSingle ==
    /\ phase = "single"
    /\ \E p \in Members :
          /\ pc[p] = "answered"
          /\ pc' = [pc EXCEPT ![p] = "done"]
          /\ Return(ComparisonDetail(answer[p].value, p, FALSE, FALSE))
    /\ UNCHANGED <<config, lifeVars, object, pos, answer,
                   finish, errChan, taken, elapsed>>

\* Every provider is accounted for: agreement, fallback or default.
Compare(results) ==
    \/ /\ Agree(results)
       /\ Return(ComparisonDetail(answer[results[1]].value, results[1], FALSE, FALSE))
    \/ /\ ~Agree(results) /\ fallback
       /\ phase' = "fallback" /\ UNCHANGED <<result, done>>
    \/ /\ ~Agree(results) /\ ~fallback
       /\ Return(ComparisonDefault)

\* Mistake: the comparison does not wait for the last provider.
ComparisonResultEarly ==
    /\ phase = "collecting" /\ strategy = "comparison" /\ finish # <<>>
    /\ finish' = Tail(finish)
    /\ taken' = [taken EXCEPT !.results = Append(@, Head(finish))]
    /\ IF Len(taken'.results) + taken.notFound >= N - 1
       THEN Compare(taken'.results)
       ELSE UNCHANGED <<phase, result, done>>
    /\ UNCHANGED <<config, lifeVars, object, pos, pc, answer,
                   errChan, elapsed>>

ComparisonResult ==
    /\ phase = "collecting" /\ strategy = "comparison" /\ finish # <<>>
    /\ finish' = Tail(finish)
    /\ taken' = [taken EXCEPT !.results = Append(@, Head(finish))]
    /\ IF Len(taken'.results) + taken.notFound = N
       THEN Compare(taken'.results)
       ELSE UNCHANGED <<phase, result, done>>
    /\ UNCHANGED <<config, lifeVars, object, pos, pc, answer,
                   errChan, elapsed>>

\* Mistake: a "not found" that comes last does not start the comparison.
ComparisonNotFoundOnlyAll ==
    /\ phase = "collecting" /\ strategy = "comparison"
    /\ \E p \in Members :
          /\ pc[p] = "blocked"
          /\ pc' = [pc EXCEPT ![p] = "done"]
    /\ taken' = [taken EXCEPT !.notFound = @ + 1]
    /\ IF taken'.notFound = N
       THEN Return(ComparisonDefault)
       ELSE UNCHANGED <<phase, result, done>>
    /\ UNCHANGED <<config, lifeVars, object, pos, answer,
                   finish, errChan, elapsed>>

ComparisonNotFound ==
    /\ phase = "collecting" /\ strategy = "comparison"
    /\ \E p \in Members :
          /\ pc[p] = "blocked"
          /\ pc' = [pc EXCEPT ![p] = "done"]
    /\ taken' = [taken EXCEPT !.notFound = @ + 1]
    /\ CASE taken'.notFound = N -> Return(ComparisonDefault)
         [] taken'.notFound < N /\ Len(taken.results) + taken'.notFound = N
               -> Compare(taken.results)
         [] OTHER -> UNCHANGED <<phase, result, done>>
    /\ UNCHANGED <<config, lifeVars, object, pos, answer,
                   finish, errChan, elapsed>>

ComparisonDone ==
    /\ phase = "collecting" /\ strategy = "comparison" /\ done # "no"
    /\ Return(ComparisonDefault)
    /\ UNCHANGED <<config, lifeVars, object, pos, pc, answer,
                   finish, errChan, taken, elapsed>>

\* The fallback answers.  Its error is dropped; its metadata map is written
\* to, which panics where it left the map nil.
ComparisonFallback ==
    /\ phase = "fallback"
    /\ \/ \E a \in Answers : Return(ComparisonDetail(a.value, "fallback", TRUE, FALSE))
       \/ phase' = "panicked" /\ UNCHANGED <<result, done>>
    /\ UNCHANGED <<config, lifeVars, object, pos, pc, answer,
                   finish, errChan, taken, elapsed>>

-----------------------------------------------------------------------------
Lifecycle ==
    \/ InitStart \/ InitReturn \/ ShutdownStart \/ ShutdownReturn
    \/ \E p \in Providers : ProviderInit(p) \/ ProviderShutdown(p)

Goroutine(p) == FirstSuccessDeliver(p) \/ ComparisonDeliver(p) \/ Leave(p)

Collector ==
    \/ EvaluateFirstMatch
    \/ FirstSuccessFinish \/ FirstSuccessError \/ FirstSuccessNotFound
    \/ FirstSuccessDone
    \/ ComparisonSingle \/ ComparisonResult \/ ComparisonNotFound
    \/ ComparisonDone

Environment ==
    \/ Evaluate
    \/ \E p \in Providers : Answer(p)
    \/ CallerCancels \/ TimeoutElapses \/ ComparisonFallback

Next == Lifecycle \/ Environment \/ Collector \/ \E p \in Providers : Goroutine(p)

Spec == Init /\ [][Next]_vars

(***************************************************************************)
(* Goroutines that can run do run, the collector's included.  Nothing is   *)
(* assumed of the providers, of the timer or of the caller.                *)
(***************************************************************************)
FairSpec ==
    /\ Spec
    /\ WF_vars(Collector)
    /\ \A p \in Providers : WF_vars(Goroutine(p))

-----------------------------------------------------------------------------
Ended == phase \in {"returned", "panicked"}

Answered(kind) == {p \in Providers : answer[p] # NoOne /\ answer[p].kind = kind}

(***************************************************************************)
(* First match gives what the first provider in order that knows the flag  *)
(* answered, be it an error, and has consulted no provider after it        *)
(* (first_match.go evaluateFirstMatch).                                    *)
(***************************************************************************)
FirstMatchInOrder ==
    strategy = "first_match" /\ Ended =>
        \/ /\ Answered("notFound") = Members
           /\ result = BuildDefaultResult(FALSE)
        \/ \E i \in 1 .. N :
              /\ \A j \in 1 .. i - 1 : order[j] \in Answered("notFound")
              /\ order[i] \in Answered("ok") \cup Answered("error")
              /\ \A j \in i + 1 .. N : answer[order[j]] = NoOne
              /\ result = AnswerOf(order[i])

(***************************************************************************)
(* First success reports "not found" only when no provider has the flag,   *)
(* and an error only when every provider failed or the context was done    *)
(* (first_success.go evaluateFirstSuccess).                                *)
(***************************************************************************)
FirstSuccessVerdict ==
    strategy = "first_success" /\ Ended =>
        CASE result.code = "none" -> TRUE
          [] result.code = "FLAG_NOT_FOUND" -> Answered("notFound") = Members
          [] result.code = "GENERAL" ->
                \/ Answered("error") = Members
                \/ done \in {"timeout", "cancelled"}
          [] OTHER -> FALSE

(***************************************************************************)
(* A comparison's value, error code and reason are decided by what was     *)
(* answered, in whatever order it arrives; only the variant of an          *)
(* agreement is that of the first success to arrive.  An error of any      *)
(* provider gives the default; else every provider has answered: those     *)
(* that know the flag agree, or the fallback decides, or the default       *)
(* (comparison.go evaluateComparison).                                     *)
(*                                                                         *)
(* Apart: a caller that cancels, a single provider, and a fallback whose   *)
(* answer has no metadata, where the evaluation panics on the nil map      *)
(* (comparison.go:331) instead of returning.  And "that error result is    *)
(* returned" (multi-provider README:80) is not what happens on an error:   *)
(* the caller gets the default with a general error, as for any default.   *)
(***************************************************************************)
FallbackPanics == fallback /\ phase = "panicked"

ComparisonOutcome ==
    strategy = "comparison" /\ ~object /\ N > 1 /\ Ended /\ done # "cancelled" =>
        LET said == {answer[p].value : p \in Answered("ok")} IN
        \/ done = "failed" /\ Answered("error") # {} /\ result = ComparisonDefault
        \/ /\ done = "no"
           /\ Answered("ok") \cup Answered("notFound") = Members
           /\ CASE said = {} -> result = ComparisonDefault
                [] Cardinality(said) = 1 ->
                      /\ result.value \in said /\ result.variant \in Answered("ok")
                      /\ result.code = "none" /\ result.reason = "AGGREGATED"
                [] Cardinality(said) > 1 /\ fallback ->
                      \/ FallbackPanics
                      \/ /\ result.code = "none" /\ result.variant = "fallback"
                         /\ result.reason = "AGGREGATED_FALLBACK"
                [] OTHER -> result = ComparisonDefault

(***************************************************************************)
(* A result without an error is a provider's own: the value was answered   *)
(* without an error by the very provider the variant comes from.  Two      *)
(* errors are dropped on the way: that of a comparison's only provider and *)
(* that of the fallback (comparison.go:238, :330).                         *)
(***************************************************************************)
SuccessIsAnAnswer ==
    phase = "returned" /\ result.code = "none" =>
        \/ /\ result.variant \in Answered("ok")
           /\ answer[result.variant].value = result.value
        \/ strategy = "comparison" /\ N = 1
        \/ strategy = "comparison" /\ result.variant = "fallback"

(***************************************************************************)
(* Once every provider has answered, a parallel evaluation ends without    *)
(* waiting for the timeout or the caller, whatever the order - save first  *)
(* success with both errors and not founds and nothing else, which counts  *)
(* the two apart and sits out the timeout (first_success.go:146).          *)
(***************************************************************************)
MixedFailure ==
    /\ strategy = "first_success"
    /\ Answered("ok") = {} /\ Answered("error") # {} /\ Answered("notFound") # {}

EndsWhenAnswered ==
    (/\ phase = "collecting" /\ ~MixedFailure
     /\ \A p \in Members : answer[p] # NoOne) ~> (Ended \/ phase = "fallback")

(***************************************************************************)
(* WithTimeout bounds an evaluation of first success even when a provider  *)
(* never answers (first_success.go:113).                                   *)
(***************************************************************************)
FirstSuccessInTime == (elapsed /\ strategy = "first_success") ~> Ended

\* Whatever the strategy, a success is one that some provider answered, up to
\* the two errors SuccessIsAnAnswer names, and first match takes its outcome from
\* the first provider that knows the flag.
OutcomeJustified == TypeOK /\ FirstMatchInOrder /\ SuccessIsAnAnswer

\* An evaluation ends: once every provider has answered, and with first success
\* when the timeout has elapsed, whoever has not.
EvaluationEnds == EndsWhenAnswered /\ FirstSuccessInTime

=============================================================================
