--------------------------- MODULE AdaptersProofs ---------------------------
(***************************************************************************)
(* Proofs about the adapters, for any number of initialisations: a closed  *)
(* client is called only in an overlap, every evaluation of every adapter  *)
(* keeps the contract of an OpenFeature provider, and what it returns      *)
(* conveys the answer of its backend.                                      *)
(***************************************************************************)
EXTENDS Adapters, TLAPS

\* ------------------------------ the invariant ----------------------------
\* The variables of an adapter's life keep their types.
LifeTyped == /\ adapter \in AdapterNames /\ option \in Options(adapter)
             /\ status \in {"NotReady", "Ready", "Error"}
             /\ client \in {"none", "open", "closed", "hollow"}
             /\ stage \in {"idle", "publishing", "closing", "crashed"}
             /\ inits \in 0..MaxInits

\* An evaluation is somewhere in its program, for a request of its adapter.
EvalTyped == /\ pc \in {"idle", "check", "recheck", "call", "returned", "aborted"}
             /\ used \in {"none", "open", "closed", "hollow"}
             /\ IF pc = "idle" THEN req = NoRequest ELSE req \in RequestsOf(adapter)

OverlapTyped == overlap \in BOOLEAN

\* Between two calls of Init and Shutdown a Ready adapter has an open client;
\* an adapter that publishes the client first has it while it publishes.
ReadyOpen ==
    adapter \in Stateful
      => /\ status = "Ready" /\ stage \in {"idle", "crashed"} => client = "open"
         /\ stage = "publishing" =>
              IF adapter \in StatusFirst THEN status = "Ready" ELSE client = "open"

\* An evaluation nothing has overlapped began outside Init and Shutdown, and
\* what it found out about the status is still so.
Undisturbed ==
    ~ overlap
      => /\ pc \in {"check", "recheck", "call"} => stage \in {"idle", "crashed"}
         /\ pc \in {"recheck", "call"} /\ adapter \in Stateful => status = "Ready"

\* No client was called before the call.
NotUsedYet == pc \in {"idle", "check", "recheck", "call"} => used = "none"

UseInv == /\ LifeTyped /\ EvalTyped /\ OverlapTyped
          /\ ReadyOpen /\ Undisturbed /\ NotUsedYet /\ ClosedUse

\* The step of an action of the life, or of the evaluation, keeps its types.
LEMMA LifeTypedStep ==
    ASSUME LifeTyped, [Next]_vars
    PROVE  LifeTyped'
<1> USE DEF LifeTyped
<1>1. CASE InitFails BY <1>1, MaxInitsAssumption DEF InitFails
<1>2. CASE InitPublishes BY <1>2, MaxInitsAssumption DEF InitPublishes
<1>3. CASE InitEnds BY <1>3 DEF InitEnds
<1>4. CASE ShutdownCloses BY <1>4 DEF ShutdownCloses
<1>5. CASE ShutdownCrashes BY <1>5 DEF ShutdownCrashes
<1>6. CASE ShutdownEnds BY <1>6 DEF ShutdownEnds
<1>7. CASE Begin \/ Verify \/ VerifyAgain \/ Call \/ CallPanics \/ Finish
      BY <1>7 DEF Begin, Verify, VerifyAgain, Call, CallPanics, Finish, lifeVars
<1>8. CASE instance BY <1>8 DEF instance
<1>9. CASE UNCHANGED vars BY <1>9 DEF vars, lifeVars
<1> QED BY <1>1, <1>2, <1>3, <1>4, <1>5, <1>6, <1>7, <1>8, <1>9 DEF Next

\* A step keeps the types of the evaluation; Begin takes a request of the
\* adapter, Finish drops it.
LEMMA EvalTypedStep ==
    ASSUME LifeTyped, EvalTyped, [Next]_vars
    PROVE  EvalTyped'
<1> USE DEF EvalTyped
<1>1. CASE InitFails \/ InitPublishes \/ InitEnds \/ ShutdownCloses \/ ShutdownEnds
      BY <1>1 DEF InitFails, InitPublishes, InitEnds, ShutdownCloses, ShutdownEnds, Overlaps
<1>2. CASE ShutdownCrashes BY <1>2 DEF ShutdownCrashes, evalVars
<1>3. CASE Begin BY <1>3 DEF Begin, lifeVars, At
<1>4. CASE Verify BY <1>4 DEF Verify, lifeVars, At, Returns
<1>5. CASE VerifyAgain BY <1>5 DEF VerifyAgain, lifeVars, At, Returns
<1>6. CASE instance BY <1>6 DEF instance, At, Returns
<1>7. CASE Call BY <1>7 DEF Call, lifeVars, At, Returns
<1>8. CASE CallPanics BY <1>8 DEF CallPanics, LifeTyped, lifeVars, At
<1>9. CASE Finish BY <1>9 DEF Finish, lifeVars
<1>10. CASE UNCHANGED vars BY <1>10 DEF vars, lifeVars, evalVars
<1> QED BY <1>1, <1>2, <1>3, <1>4, <1>5, <1>6, <1>7, <1>8, <1>9, <1>10 DEF Next

\* A step keeps the ghost of the overlap a Boolean.
LEMMA OverlapTypedStep ==
    ASSUME OverlapTyped, [Next]_vars
    PROVE  OverlapTyped'
<1> USE DEF OverlapTyped
<1>1. CASE InitFails \/ InitPublishes \/ InitEnds \/ ShutdownCloses \/ ShutdownEnds
      BY <1>1 DEF InitFails, InitPublishes, InitEnds, ShutdownCloses, ShutdownEnds, Overlaps
<1>2. CASE Begin BY <1>2 DEF Begin
<1>5. CASE Finish BY <1>5 DEF Finish
<1>3. CASE ShutdownCrashes \/ Verify \/ VerifyAgain \/ instance \/ Call \/ CallPanics
      BY <1>3 DEF ShutdownCrashes, Verify, VerifyAgain, instance, Call, CallPanics, evalVars
<1>4. CASE UNCHANGED vars BY <1>4 DEF vars, evalVars
<1> QED BY <1>1, <1>2, <1>3, <1>4, <1>5 DEF Next

\* No step of Init or Shutdown leaves a Ready adapter at rest without an open
\* client.
LEMMA ReadyOpenStep ==
    ASSUME LifeTyped, ReadyOpen, [Next]_vars
    PROVE  ReadyOpen'
<1> USE DEF ReadyOpen, LifeTyped
<1>1. CASE InitFails BY <1>1 DEF InitFails, In
<1>2. CASE InitPublishes BY <1>2 DEF InitPublishes, In
<1>3. CASE InitEnds BY <1>3 DEF InitEnds, In
<1>4. CASE ShutdownCloses BY <1>4 DEF ShutdownCloses, In
<1>5. CASE ShutdownCrashes BY <1>5 DEF ShutdownCrashes, In
<1>6. CASE ShutdownEnds BY <1>6 DEF ShutdownEnds, In
<1>7. CASE Begin \/ Verify \/ VerifyAgain \/ Call \/ CallPanics \/ Finish
      BY <1>7 DEF Begin, Verify, VerifyAgain, Call, CallPanics, Finish, lifeVars
<1>8. CASE instance BY <1>8 DEF instance, Stateful
<1>9. CASE UNCHANGED vars BY <1>9 DEF vars, lifeVars
<1> QED BY <1>1, <1>2, <1>3, <1>4, <1>5, <1>6, <1>7, <1>8, <1>9 DEF Next

\* A step of Init or Shutdown marks a running evaluation as overlapped, so what
\* Verify found stays true of the others.
LEMMA UndisturbedStep ==
    ASSUME EvalTyped, OverlapTyped, LifeTyped, Undisturbed, [Next]_vars
    PROVE  Undisturbed'
<1> USE DEF Undisturbed, EvalTyped
<1>1. CASE InitFails \/ InitPublishes \/ InitEnds \/ ShutdownCloses \/ ShutdownEnds
  <2>1. Overlaps
        BY <1>1 DEF InitFails, InitPublishes, InitEnds, ShutdownCloses, ShutdownEnds
  <2>2. pc # "idle" => overlap' BY <2>1 DEF Overlaps
  <2>3. pc' = pc BY <2>1 DEF Overlaps
  <2> QED BY <2>2, <2>3
<1>2. CASE ShutdownCrashes BY <1>2 DEF ShutdownCrashes, evalVars
<1>3. CASE Begin BY <1>3 DEF Begin, At, lifeVars, LifeTyped
<1>4. CASE Verify
  <2>1. pc' \in {"recheck", "call"} /\ adapter \in Stateful => status = "Ready"
        BY <1>4 DEF Verify, Returns, StatusError
  <2> QED BY <1>4, <2>1 DEF Verify, At, Returns, lifeVars
<1>5. CASE VerifyAgain
  <2>1. pc' \in {"recheck", "call"} /\ adapter \in Stateful => status = "Ready"
        BY <1>5 DEF VerifyAgain, Returns, StatusError
  <2> QED BY <1>5, <2>1 DEF VerifyAgain, At, Returns, lifeVars
<1>6. CASE instance BY <1>6 DEF instance, At, Returns
<1>7. CASE Call \/ CallPanics BY <1>7 DEF Call, CallPanics, Returns
<1>8. CASE Finish BY <1>8 DEF Finish
<1>9. CASE UNCHANGED vars BY <1>9 DEF vars, lifeVars, evalVars
<1> QED BY <1>1, <1>2, <1>3, <1>4, <1>5, <1>6, <1>7, <1>8, <1>9 DEF Next

\* Call, the one step that uses the client, finds it open unless something
\* overlapped the evaluation.
LEMMA ClosedUseStep ==
    ASSUME UseInv, [Next]_vars
    PROVE  ClosedUse' /\ NotUsedYet'
<1> USE DEF NotUsedYet, ClosedUse, UseInv
<1>1. CASE InitFails \/ InitPublishes \/ InitEnds \/ ShutdownCloses \/ ShutdownEnds
  <2>1. Overlaps /\ adapter' = adapter
        BY <1>1 DEF InitFails, InitPublishes, InitEnds, ShutdownCloses, ShutdownEnds
  <2>2. overlap => overlap' BY <2>1 DEF Overlaps
  <2> QED BY <2>1, <2>2 DEF Overlaps
<1>2. CASE ShutdownCrashes BY <1>2 DEF ShutdownCrashes, evalVars
<1>3. CASE Begin BY <1>3 DEF Begin, At, lifeVars
<1>4. CASE Verify \/ VerifyAgain BY <1>4 DEF Verify, VerifyAgain, At, Returns, lifeVars
<1>5. CASE instance BY <1>5 DEF instance, At, Returns
<1>6. CASE Call
  <2>1. ~ overlap /\ adapter \in Stateful => client = "open"
        BY <1>6 DEF Call, At, Undisturbed, ReadyOpen
  <2> QED BY <1>6, <2>1 DEF Call, Returns, lifeVars
<1>7. CASE CallPanics BY <1>7 DEF CallPanics, lifeVars
<1>8. CASE Finish BY <1>8 DEF Finish
<1>9. CASE UNCHANGED vars BY <1>9 DEF vars, lifeVars, evalVars
<1> QED BY <1>1, <1>2, <1>3, <1>4, <1>5, <1>6, <1>7, <1>8, <1>9 DEF Next

\* The invariant holds before the first Init and the first evaluation.
LEMMA UseStart == ASSUME Init PROVE UseInv
<1>1. LifeTyped BY MaxInitsAssumption DEF Init, LifeTyped
<1>2. EvalTyped /\ NotUsedYet /\ ClosedUse BY DEF Init, EvalTyped, NotUsedYet, ClosedUse
<1>3. OverlapTyped BY DEF Init, OverlapTyped
<1>4. ReadyOpen BY DEF Init, ReadyOpen
<1>5. Undisturbed BY DEF Init, Undisturbed
<1> QED BY <1>1, <1>2, <1>3, <1>4, <1>5 DEF UseInv

\* Every step of the adapter keeps the invariant.
LEMMA UseStep == ASSUME UseInv, [Next]_vars PROVE UseInv'
BY LifeTypedStep, EvalTypedStep, OverlapTypedStep, ReadyOpenStep, UndisturbedStep, ClosedUseStep
   DEF UseInv

\* The life of an adapter and its evaluation stay well formed, a Ready adapter
\* at rest has an open client, and an undisturbed evaluation can rely on it.
THEOREM UseInvariant == Spec => []UseInv
BY UseStart, UseStep, PTL DEF Spec

\* A closed client is called only by an evaluation that overlaps a Shutdown or
\* a later Init, or by an adapter without a status of its own.
THEOREM AdaptersClosedUse == Spec => []ClosedUse
<1>1. UseInv => ClosedUse BY DEF UseInv
<1> QED BY <1>1, UseInvariant, PTL

\* ------------------- what a result conforms to the request ---------------
\* A request as the contract knows it: a type, and a default of that type; a
\* default number may be Wide, an object is the default object.
Asks(r) == /\ r.type \in Types
           /\ HasType(r.type, r.def)
           /\ r.def.n \in {Dflt, Wide}
           /\ r.def.n = Wide => r.type = "int"

\* Every request an application can make of an adapter asks for a type with a
\* default of that type.
LEMMA RequestAsks == ASSUME NEW a, NEW r \in RequestsOf(a) PROVE Asks(r)
<1>1. PICK t \in Types : r \in [type : {t}, def : Defaults(t), ctx : Contexts(a)]
      BY DEF RequestsOf
<1>2. r.type = t /\ r.def \in Defaults(t) BY <1>1
<1>3. CASE t = "object"
  <2>1. Defaults(t) = {V(k, Dflt) : k \in {"object", "json", "list", "string", "int"}}
        BY <1>3 DEF Defaults
  <2>2. r.def.n = Dflt BY <1>2, <2>1 DEF V
  <2> QED BY <1>2, <1>3, <2>2 DEF Asks, HasType, Types, Wide, Dflt
<1>4. CASE t = "int" BY <1>1, <1>2, <1>4 DEF Asks, HasType, Defaults, V, Wide, Dflt
<1>5. CASE t \notin {"object", "int"}
      BY <1>1, <1>2, <1>5 DEF Asks, HasType, Defaults, V, Wide, Dflt
<1> QED BY <1>3, <1>4, <1>5

\* The contract's Conforms, over the operators of this module.
Conforms(r, v) == /\ HasType(r.type, v.val)
                  /\ v.err = "none" \/ (v.err \in Codes /\ v.val.n = r.def.n)

\* Conforms is the contract's, whose conversions are those of Resolution.
LEMMA ConformsMeans == \A r, v : Contract!Conforms(r, v) <=> Conforms(r, v)
BY DEF Contract!Conforms, Contract!IsDefault, Contract!HasType, HasType, Conforms

\* An error of the adapter's own conforms, and so does the default value.
LEMMA FailedConforms ==
    ASSUME NEW r, Asks(r), NEW code \in Codes
    PROVE  /\ Conforms(r, Failed(r, code))
           /\ Conforms(r, FliptError(r, code))
BY DEF Conforms, Asks, Failed, FliptError

\* A value of the type asked for conforms.
LEMMA OkConforms ==
    ASSUME NEW r, NEW v, HasType(r.type, v), NEW reason
    PROVE  Conforms(r, Ok(v, reason))
BY DEF Conforms, Ok

\* The default without an error conforms.
LEMMA DefaultedConforms ==
    ASSUME NEW r, Asks(r), NEW reason
    PROVE  Conforms(r, Defaulted(r, reason))
BY OkConforms DEF Defaulted, Asks

\* A value that is checked against the type, as most adapters do, conforms.
LEMMA TypedConforms ==
    ASSUME NEW r, Asks(r), NEW v, NEW reason, NEW code \in Codes
    PROVE  Conforms(r, Typed(r, v, reason, code))
BY OkConforms, FailedConforms DEF Typed

\* An integer made of a float64 conforms, and so does the refusal to make one.
LEMMA AsIntConforms ==
    ASSUME NEW r, Asks(r), r.type = "int", NEW v, NEW reason, NEW code \in Codes
    PROVE  Conforms(r, AsInt(r, v, reason, code))
<1>1. HasType("int", Truncated(v)) BY DEF HasType, Truncated, V
<1> QED BY <1>1, OkConforms, FailedConforms DEF AsInt

\* ------------------- what each backend may answer ------------------------
\* A value of the type asked for, from a client that is given the default.
LEMMA TypedValuesFit ==
    ASSUME NEW r, Asks(r), NEW v \in TypedValues(r)
    PROVE  HasType(r.type, v)
BY DEF TypedValues, OfKind, Asks, HasType, Types

\* The fields of an answer of a class Ans.
LEMMA AnsMember ==
    ASSUME NEW out, NEW code, NEW vals, NEW ans \in Ans(out, code, vals)
    PROVE  ans.out = out /\ ans.code = code /\ ans.val \in vals
BY DEF Ans

\* The fields of an answer that is an error of the backend.
LEMMA ErrorsMember ==
    ASSUME NEW codes, NEW ans \in Errors(codes)
    PROVE  ans.out = "error" /\ ans.code \in codes /\ ans.val = Nil
BY DEF Errors, Ans

\* The fields of an answer that carries no value.
LEMMA OutcomesMember ==
    ASSUME NEW outs, NEW ans \in Outcomes(outs)
    PROVE  ans.out \in outs /\ ans.val = Nil
BY DEF Outcomes, Ans

\* ---------------- the result of each adapter conforms --------------------
LEMMA OfrepConforms ==
    ASSUME NEW r, Asks(r), NEW ans
    PROVE  Conforms(r, Ofrep(r, ans))
<1>1. resolveSingle(ans) \in Codes \cup {"none"}
      BY DEF resolveSingle, parseError400, Codes
<1>2. r.type = "int" => Conforms(r, OfrepInt(r, ans))
  <2>1. HasType("int", Truncated(ans.val)) BY DEF HasType, Truncated, V
  <2> QED BY <2>1, OkConforms, FailedConforms DEF OfrepInt, Codes
<1> QED BY <1>1, <1>2, FailedConforms, DefaultedConforms, TypedConforms DEF Ofrep, Codes

\* Harness and Prefab return what a client that knows the default returns.
LEMMA ClientConforms ==
    ASSUME NEW r, Asks(r), NEW ans, ans.val = Nil \/ ans.val \in TypedValues(r)
    PROVE  /\ HasType(r.type, ClientValue(r, ans))
           /\ Conforms(r, Harness(r, ans))
           /\ Conforms(r, Prefab(r, ans))
<1>1. HasType(r.type, ClientValue(r, ans)) BY TypedValuesFit DEF ClientValue, Asks
<1> QED BY <1>1, OkConforms, DefaultedConforms DEF Harness, Prefab, PrefabObject

\* Unleash: a string payload is parsed, or refused.
LEMMA UnleashConforms ==
    ASSUME NEW r, Asks(r), NEW ans \in Answers("unleash", r)
    PROVE  Conforms(r, Unleash(r, ans))
<1>1. CASE r.type = "bool"
  <2>1. ans \in Ans("value", Blank, OfKind("bool")) \cup Outcomes({"fallback"})
        BY <1>1 DEF Answers
  <2>2. ans.val = Nil \/ ans.val.k = "bool" BY <2>1, AnsMember, OutcomesMember DEF OfKind
  <2>3. HasType("bool", ClientValue(r, ans)) BY <1>1, <2>2 DEF ClientValue, Asks, HasType
  <2> QED BY <1>1, <2>3, OkConforms DEF Unleash
<1>2. CASE r.type \in {"int", "float"}
  <2>1. HasType(r.type, V(r.type, UnleashObject(r, ans).val.n)) BY DEF HasType, V
  <2>2. Conforms(r, UnleashNumber(r, ans))
        BY <2>1, OkConforms, FailedConforms DEF UnleashNumber, HasType, Codes
  <2> QED BY <1>2, <2>2 DEF Unleash
<1>3. CASE r.type \in {"string", "object"}
  <2>1. ans \in Ans("value", Blank, Strings) \cup Outcomes({"disabled"})
        BY <1>3 DEF Answers
  <2>2. ans.out = "disabled" \/ ans.val \in Strings BY <2>1, AnsMember, OutcomesMember
  <2>3. \A s \in Strings : s.k = "string" BY DEF Strings, V
  <2>4. ans.out = "disabled" \/ HasType(r.type, ans.val) BY <1>3, <2>2, <2>3 DEF HasType
  <2>5. Conforms(r, UnleashObject(r, ans))
        BY <2>4, OkConforms, DefaultedConforms DEF UnleashObject
  <2> QED BY <1>3, <2>5 DEF Unleash
<1> QED BY <1>1, <1>2, <1>3 DEF Asks, Types

\* Statsig: a gate is a bool, anything else is checked.
LEMMA StatsigConforms ==
    ASSUME NEW r, Asks(r), NEW ans \in Answers("statsig", r)
    PROVE  Conforms(r, Statsig(r, ans))
<1>1. CASE r.type = "bool" /\ ~ toFeatureConfig(r.ctx)
  <2>1. ans \in Ans("value", Blank, StatsigValues(r)) \cup Outcomes({"fallback"}) BY DEF Answers
  <2>2. r.def.k = "bool" BY <1>1 DEF Asks, HasType
  <2>3. StatsigValues(r) = OfKind("bool") BY <2>2 DEF StatsigValues, TypedValues
  <2>4. ans.val = Nil \/ ans.val.k = "bool" BY <2>1, <2>3, AnsMember, OutcomesMember DEF OfKind
  <2>5. HasType(r.type, IF ans.val = Nil THEN Zero("bool") ELSE ans.val)
        BY <1>1, <2>4 DEF HasType, Zero, V
  <2> QED BY <1>1, <2>5, OkConforms DEF Statsig
<1>2. CASE ~ (r.type = "bool" /\ ~ toFeatureConfig(r.ctx)) /\ r.type = "int"
      BY <1>2, AsIntConforms DEF Statsig, Codes
<1>3. CASE ~ (r.type = "bool" /\ ~ toFeatureConfig(r.ctx)) /\ r.type # "int"
      BY <1>3, TypedConforms DEF Statsig, Codes
<1> QED BY <1>1, <1>2, <1>3

\* LaunchDarkly: the default comes back with an error, unchanged by the
\* conversion of arbitrary values, since its number is not Wide.
LEMMA LaunchDarklyConforms ==
    ASSUME NEW r, Asks(r), NEW ans \in Answers("launchdarkly", r)
    PROVE  Conforms(r, LaunchDarkly(r, ans))
<1>1. \/ ans \in Ans("value", Blank, TypedValues(r)) \cup Ans("disabled", Blank, TypedValues(r))
      \/ ans \in Errors({"CLIENT_NOT_READY", "FLAG_NOT_FOUND", "MALFORMED_FLAG",
                          "USER_NOT_SPECIFIED", "WRONG_TYPE", "EXCEPTION"})
      BY DEF Answers
<1>2. /\ ans.out # "error" => ans.val \in TypedValues(r)
      /\ ans.out = "error" => ans.val = Nil
      BY <1>1, AnsMember, ErrorsMember
<1>3. HasType(r.type, ClientValue(r, ans)) BY <1>2, ClientConforms
<1>4. HasType(r.type, LaunchDarkly(r, ans).val) BY <1>3 DEF LaunchDarkly, HasType
<1>5. ans.out = "error" => LaunchDarkly(r, ans).val.n = r.def.n
      BY <1>2 DEF LaunchDarkly, ClientValue, ArbitraryValue, Truncated, V, Asks, Dflt, Wide
<1>6. toResolutionError(ans.code) \in Codes BY DEF toResolutionError, Codes
<1>7. /\ ans.out # "error" => LaunchDarkly(r, ans).err = "none"
      /\ ans.out = "error" => LaunchDarkly(r, ans).err \in Codes
      BY <1>6 DEF LaunchDarkly
<1> QED BY <1>4, <1>5, <1>7 DEF Conforms

\* Flipt: a variant is transformed to the type asked for, or refused.
LEMMA FliptConforms ==
    ASSUME NEW r, Asks(r), NEW ans \in Answers("flipt", r)
    PROVE  Conforms(r, Flipt(r, ans))
<1>1. gRPCToOpenFeatureError(ans.code) \in Codes BY DEF gRPCToOpenFeatureError, Codes
<1>2. CASE r.type = "bool"
  <2>1. \/ ans \in Errors({"NotFound", "InvalidArgument", "Unavailable", "Internal"})
        \/ ans \in Ans("value", Blank, OfKind("bool"))
        BY <1>2 DEF Answers
  <2>2. ans.out = "error" \/ HasType(r.type, ans.val)
        BY <1>2, <2>1, AnsMember, ErrorsMember DEF OfKind, HasType
  <2> QED BY <1>1, <1>2, <2>2, FailedConforms, OkConforms DEF Flipt
<1>3. CASE r.type # "bool"
  <2>1. HasType(r.type, Transform(r, ans.val)) BY DEF Transform, HasType, V
  <2>2. Conforms(r, evaluateVariantFlag(r, ans))
        BY <1>1, <2>1, FailedConforms, OkConforms, DefaultedConforms DEF evaluateVariantFlag, Codes
  <2> QED BY <1>3, <2>2 DEF Flipt
<1> QED BY <1>2, <1>3

\* Flagsmith: a flag that is missing, disabled, or of any type.
LEMMA FlagsmithConforms ==
    ASSUME NEW r, Asks(r), NEW ans, NEW enabled
    PROVE  Conforms(r, Flagsmith(r, ans, enabled))
<1> DEFINE f == resolveFlag(r, ans)
<1>1. /\ f.err # "none" => Conforms(r, f)
      /\ f.reason = "DISABLED" => Conforms(r, f)
      BY FailedConforms, DefaultedConforms
      DEF resolveFlag, Codes, Failed, Defaulted, Ok, FlagsmithReason
<1>2. ASSUME r.type = "bool", NEW n PROVE Conforms(r, Ok(V("bool", n), "STATIC"))
      BY <1>2, OkConforms DEF HasType, V
<1>3. ASSUME NEW v, NEW reason PROVE Conforms(r, FlagsmithValue(r, v, reason))
  <2>1. CASE r.type = "int" BY <2>1, AsIntConforms DEF FlagsmithValue, Codes
  <2>2. CASE r.type = "float"
    <3>1. HasType("float", V("float", v.n)) BY DEF HasType, V
    <3> QED BY <2>2, <3>1, OkConforms, FailedConforms DEF FlagsmithValue, Codes
  <2>3. CASE r.type = "object"
    <3>1. HasType("object", JsonValue(v)) BY DEF HasType
    <3> QED BY <2>3, <3>1, OkConforms, FailedConforms DEF FlagsmithValue, Codes
  <2>4. CASE r.type \notin {"int", "float", "object"}
        BY <2>4, TypedConforms DEF FlagsmithValue, Codes
  <2> QED BY <2>1, <2>2, <2>3, <2>4
<1> HIDE DEF f
<1> QED BY <1>1, <1>2, <1>3 DEF Flagsmith, f

\* Optimizely: the single variable of a decision is checked.
LEMMA OptimizelyConforms ==
    ASSUME NEW r, Asks(r), NEW ans
    PROVE  Conforms(r, Optimizely(r, ans))
<1>1. getDecision(ans) \in Codes \cup {"none"} BY DEF getDecision, Codes
<1>2. Conforms(r, requireSingleVariable(r, ans))
      BY TypedConforms, FailedConforms DEF requireSingleVariable, Codes
<1>3. r.type = "bool" => HasType(r.type, V("bool", 1)) BY DEF HasType, V
<1>4. r.type = "object" => HasType(r.type, V("object", Json)) BY DEF HasType, V
<1> QED BY <1>1, <1>2, <1>3, <1>4, FailedConforms, DefaultedConforms, OkConforms DEF Optimizely

\* ConfigCat: its client is told the type, an object is parsed.
LEMMA ConfigCatConforms ==
    ASSUME NEW r, Asks(r), NEW ans \in Answers("configcat", r)
    PROVE  Conforms(r, ConfigCat(r, ans))
<1>1. ConfigCatError(ans.code) \in Codes BY DEF ConfigCatError, Codes
<1> DEFINE vals == {Nil} \cup IF r.type = "object" THEN Strings ELSE OfKind(r.type)
<1>2. \/ ans \in Errors({"KEY_NOT_FOUND", "SETTING_TYPE", "CONFIG_MISSING", "OTHER"})
      \/ \E o \in {"value", "match"} : ans \in Ans(o, Blank, vals)
      BY DEF Answers
<1>3. ans.out # "error" /\ ans.val # Nil /\ r.type # "object" => HasType(r.type, ans.val)
      BY <1>2, AnsMember, ErrorsMember DEF OfKind, HasType
<1>4. r.type = "object" => HasType(r.type, V("object", Json)) BY DEF HasType, V
<1> QED BY <1>1, <1>3, <1>4, FailedConforms, DefaultedConforms, OkConforms DEF ConfigCat, Codes

\* from-env: whatever variants are stored.
LEMMA FromEnvConforms ==
    ASSUME NEW r, Asks(r), NEW ans
    PROVE  Conforms(r, FromEnv(r, ans))
<1> DEFINE e == FromEnvResolve(r, ans)
<1>1. evaluate(ans.flag, r.ctx).err \in {"none", "PARSE_ERROR"} BY DEF evaluate, Ok
<1>2. e.err = "none" \/ Conforms(r, e)
      BY <1>1, FailedConforms DEF FromEnvResolve, Codes
<1>3. HasType(r.type, e.val) => Conforms(r, e) BY <1>2 DEF Conforms
<1> HIDE DEF e
<1>4. CASE r.type = "int" BY <1>4, AsIntConforms DEF FromEnv, Codes
<1>5. CASE r.type # "int" BY <1>3, <1>5, FailedConforms DEF FromEnv, Codes, e
<1> QED BY <1>4, <1>5

\* AWS SSM: a parameter is a string, parsed or refused.
LEMMA AwsSsmConforms ==
    ASSUME NEW r, Asks(r), NEW ans \in Answers("aws-ssm", r)
    PROVE  Conforms(r, AwsSsm(r, ans))
<1>1. \/ ans \in Ans("value", Blank, Strings \cup {V("string", Empty)})
      \/ ans \in Errors({"SDK"})
      BY DEF Answers
<1>2. \A s \in Strings \cup {V("string", Empty)} : s.k = "string" BY DEF Strings, V
<1>3. ans.out = "error" \/ HasType("string", ans.val)
      BY <1>1, <1>2, AnsMember, ErrorsMember DEF HasType
<1>4. \A t, n : HasType(t, V(t, n)) BY DEF HasType, V
<1>5. HasType("string", ans.val) => Conforms(r, AwsSsmValue(r, ans.val))
      BY <1>4, FailedConforms, DefaultedConforms, OkConforms DEF AwsSsmValue, BoolValue, Codes
<1> QED BY <1>3, <1>5, FailedConforms DEF AwsSsm, Codes

\* RocketFlag knows bool only, and refuses other types before the call.
LEMMA RocketFlagConforms ==
    ASSUME NEW r, Asks(r), r.type = "bool", NEW ans \in Answers("rocketflag", r)
    PROVE  Conforms(r, RocketFlag(r, ans))
<1>1. ans \in Ans("value", Blank, OfKind("bool")) \/ ans \in Errors({"SDK"}) BY DEF Answers
<1>2. ans.out = "error" \/ HasType(r.type, ans.val)
      BY <1>1, AnsMember, ErrorsMember DEF OfKind, HasType
<1> QED BY <1>2, FailedConforms, OkConforms DEF RocketFlag, Codes

\* The in-process GO Feature Flag, an error with an unknown code included.
LEMMA GoffConforms ==
    ASSUME NEW r, Asks(r), NEW ans
    PROVE  Conforms(r, evaluateLocally(r, ans))
<1>1. HasType(r.type, Zero(r.type)) BY DEF Zero, HasType, V
<1>2. GoffCodes \subseteq Codes BY DEF GoffCodes, Codes
<1> QED BY <1>1, <1>2, FailedConforms, OkConforms, TypedConforms DEF evaluateLocally, Codes

\* flagd in process: its evaluator knows the type.
LEMMA FlagdConforms ==
    ASSUME NEW r, Asks(r), NEW ans \in Answers("flagd-in-process", r)
    PROVE  Conforms(r, FlagdResolve(r, ans))
<1>1. \/ ans \in Ans("value", Blank, IF r.type = "object" THEN OfKind("object") ELSE OfKind(r.type))
      \/ ans \in Errors({"FLAG_NOT_FOUND", "TYPE_MISMATCH", "PARSE_ERROR", "GENERAL"})
      \/ ans \in Outcomes({"disabled", "fallback"})
      BY DEF Answers
<1>2. ans.out \in {"error", "disabled", "fallback"} \/ HasType(r.type, ans.val)
      BY <1>1, AnsMember, ErrorsMember, OutcomesMember DEF OfKind, HasType
<1>3. mapError(ans.code) \in Codes BY DEF mapError, Codes
<1> QED BY <1>2, <1>3, FailedConforms, DefaultedConforms, OkConforms DEF FlagdResolve

\* Whatever its backend answers, an adapter returns a value of the type asked
\* for, or one of OpenFeature's codes with the default of the application.
LEMMA ResolveConforms ==
    ASSUME NEW a \in AdapterNames, NEW opt, NEW r, Asks(r), ContextError(a, r) = "none",
           NEW ans \in Answers(a, r)
    PROVE  Conforms(r, Resolve(a, opt, r, ans))
<1>1. CASE a = "ofrep" BY <1>1, OfrepConforms DEF Resolve
<1>2. CASE a \in {"harness", "prefab"}
  <2>1. ans \in Ans("value", Blank, TypedValues(r)) \/ ans \in Errors({"SDK"})
        BY <1>2 DEF Answers
  <2>2. ans.val = Nil \/ ans.val \in TypedValues(r) BY <2>1, AnsMember, ErrorsMember
  <2> QED BY <1>2, <2>2, ClientConforms DEF Resolve
<1>3. CASE a = "unleash" BY <1>3, UnleashConforms DEF Resolve
<1>4. CASE a = "statsig" BY <1>4, StatsigConforms DEF Resolve
<1>5. CASE a = "launchdarkly" BY <1>5, LaunchDarklyConforms DEF Resolve
<1>6. CASE a = "flipt" BY <1>6, FliptConforms DEF Resolve
<1>7. CASE a = "flagsmith" BY <1>7, FlagsmithConforms DEF Resolve
<1>8. CASE a = "optimizely" BY <1>8, OptimizelyConforms DEF Resolve
<1>9. CASE a = "configcat" BY <1>9, ConfigCatConforms DEF Resolve
<1>10. CASE a = "from-env" BY <1>10, FromEnvConforms DEF Resolve
<1>11. CASE a = "aws-ssm" BY <1>11, AwsSsmConforms DEF Resolve
<1>12. CASE a = "rocketflag"
  <2>1. r.type = "bool" BY <1>12 DEF ContextError
  <2> QED BY <1>12, <2>1, RocketFlagConforms DEF Resolve
<1>13. CASE a = "goff-in-process" BY <1>13, GoffConforms DEF Resolve
<1>14. CASE a = "flagd-in-process" BY <1>14, FlagdConforms DEF Resolve
<1> QED BY <1>1, <1>2, <1>3, <1>4, <1>5, <1>6, <1>7, <1>8, <1>9, <1>10, <1>11, <1>12, <1>13,
           <1>14 DEF AdapterNames

\* ------------------------- the refinement --------------------------------
\* What an evaluation found out before the call is still so: the context is
\* good, and a client that is missing is on its way, or was never made.
Prepared ==
    /\ pc \in {"recheck", "call"} => ContextError(adapter, req) = "none"
    /\ client = "hollow" => option = "undialable"
    /\ adapter \in StatusFirst /\ client = "none" /\ (status = "Ready" \/ pc = "call")
         => stage = "publishing"

ContractInv == /\ LifeTyped /\ EvalTyped /\ Prepared

\* A step keeps what an evaluation relies on between its check and its call.
LEMMA PreparedStep ==
    ASSUME ContractInv, [Next]_vars
    PROVE  Prepared'
<1> USE DEF ContractInv, Prepared
<1>1. CASE InitFails BY <1>1 DEF InitFails, In, Overlaps, LifeTyped
<1>2. CASE InitPublishes BY <1>2 DEF InitPublishes, In, Overlaps
<1>3. CASE InitEnds BY <1>3 DEF InitEnds, In, Overlaps
<1>4. CASE ShutdownCloses BY <1>4 DEF ShutdownCloses, In, Overlaps
<1>5. CASE ShutdownCrashes BY <1>5 DEF ShutdownCrashes, In, evalVars
<1>6. CASE ShutdownEnds BY <1>6 DEF ShutdownEnds, In, Overlaps
<1>7. CASE Begin BY <1>7 DEF Begin, lifeVars
<1>8. CASE Verify BY <1>8 DEF Verify, Returns, lifeVars, StatusError, StatusFirst, Stateful
<1>9. CASE VerifyAgain BY <1>9 DEF VerifyAgain, At, Returns, lifeVars, StatusError, StatusFirst, Stateful
<1>10. CASE instance BY <1>10 DEF instance, At, Returns, StatusFirst
<1>11. CASE Call \/ CallPanics BY <1>11 DEF Call, CallPanics, Returns, lifeVars
<1>12. CASE Finish BY <1>12 DEF Finish, lifeVars
<1>13. CASE UNCHANGED vars BY <1>13 DEF vars, lifeVars, evalVars
<1> QED BY <1>1, <1>2, <1>3, <1>4, <1>5, <1>6, <1>7, <1>8, <1>9, <1>10, <1>11, <1>12, <1>13 DEF Next

\* An evaluation that gets to its call has a good context; a client that is
\* missing there is being made, or could not be.
THEOREM ContractInvariant == Spec => []ContractInv
<1>1. Init => ContractInv
      BY UseStart DEF UseInv, ContractInv, Prepared, Init, StatusFirst
<1>2. ContractInv /\ [Next]_vars => ContractInv'
      BY LifeTypedStep, EvalTypedStep, PreparedStep DEF ContractInv
<1> QED BY <1>1, <1>2, PTL DEF Spec

\* The phase and the usability of the contract, under the mapping.
Phase == IF pc \in {"check", "recheck", "call"} THEN "evaluating" ELSE pc
Usable == stage # "publishing" /\ option \notin {"undialable", "unparsable"}

\* The contract has the same idle request and result.
LEMMA NothingYet == NoRequest = Contract!NoRequest /\ NoResult = Contract!NoResult
BY DEF NoRequest, NoResult, Nil, V, Blank, Contract!NoRequest, Contract!NoResult, Contract!Nil,
       Contract!V, Contract!Blank

\* A step that changes neither the request nor the result is one of Change.
LEMMA LifeRefines ==
    ASSUME UNCHANGED <<pc, req, res>>
    PROVE  [Contract!ContractNext]_(Contract!contractVars)
BY DEF Contract!ContractNext, Contract!Change, Contract!contractVars

\* A return of a result that conforms is a Return of the contract.
LEMMA ReturnRefines ==
    ASSUME pc \in {"check", "recheck", "call"}, pc' = "returned", Conforms(req, res'),
           UNCHANGED <<req, stage, option>>
    PROVE  [Contract!ContractNext]_(Contract!contractVars)
<1>1. Contract!Conforms(req, res') BY ConformsMeans
<1> QED BY <1>1 DEF Contract!ContractNext, Contract!Return

\* A panic while the provider is not usable is an Abort of the contract.
LEMMA AbortRefines ==
    ASSUME pc \in {"check", "recheck", "call"}, pc' = "aborted", ~ Usable,
           UNCHANGED <<req, res, stage, option>>
    PROVE  [Contract!ContractNext]_(Contract!contractVars)
BY DEF Contract!ContractNext, Contract!Abort, Usable

\* A step between the check and the call is a stutter of the contract.
LEMMA InternalRefines ==
    ASSUME pc \in {"check", "recheck", "call"}, pc' \in {"check", "recheck", "call"},
           UNCHANGED <<req, res, stage, option>>
    PROVE  [Contract!ContractNext]_(Contract!contractVars)
BY DEF Contract!contractVars

\* What Verify returns without a call conforms.
LEMMA RefusalConforms ==
    ASSUME NEW r, Asks(r), NEW a
    PROVE  /\ StatusError # "none" => Conforms(r, Failed(r, StatusError))
           /\ ContextError(a, r) # "none" => Conforms(r, ContextFailure(a, r))
<1>1. StatusError \in Codes \cup {"none"} BY DEF StatusError, Codes
<1>2. ContextError(a, r) \in Codes \cup {"none"}
      BY DEF ContextError, HarnessContext, toHarnessTarget, toUnleashContext, StatsigContext,
             ToPrefabContext, transformContext, FliptTargetingKey, FlagsmithTargetingKey,
             StringKey, Codes
<1>3. ASSUME NEW code \in Codes, NEW reason
      PROVE  Conforms(r, [Failed(r, code) EXCEPT !.reason = reason])
      BY DEF Conforms, Failed, Asks
<1> QED BY <1>1, <1>2, <1>3, FailedConforms DEF ContextFailure

\* Every step of an adapter is a step of the contract, or a stutter.
LEMMA StepRefines ==
    ASSUME ContractInv, [Next]_vars
    PROVE  [Contract!ContractNext]_(Contract!contractVars)
<1> USE DEF ContractInv
<1>1. pc # "idle" => Asks(req) BY RequestAsks DEF EvalTyped
<1>2. CASE InitFails \/ InitPublishes \/ InitEnds \/ ShutdownCloses \/ ShutdownEnds
      BY <1>2, LifeRefines
      DEF InitFails, InitPublishes, InitEnds, ShutdownCloses, ShutdownEnds, Overlaps
<1>3. CASE ShutdownCrashes BY <1>3, LifeRefines DEF ShutdownCrashes, evalVars
<1>4. CASE Begin
  <2>1. Asks(req') BY <1>4, RequestAsks DEF Begin
  <2>2. req'.type \in Contract!Types /\ Contract!HasType(req'.type, req'.def)
        BY <2>1 DEF Asks, Contract!Types, Types, Contract!HasType, HasType
  <2> QED BY <1>4, <2>2 DEF Begin, At, lifeVars, Contract!ContractNext, Contract!Begin
<1>5. CASE Verify
  <2>1. CASE pc' # "returned"
        BY <1>5, <2>1, InternalRefines DEF Verify, At, Returns, lifeVars
  <2>2. CASE pc' = "returned"
        BY <1>1, <1>5, <2>2, RefusalConforms, ReturnRefines DEF Verify, At, Returns, lifeVars
  <2> QED BY <2>1, <2>2
<1>6. CASE VerifyAgain
  <2>1. CASE pc' # "returned"
        BY <1>6, <2>1, InternalRefines DEF VerifyAgain, At, Returns, lifeVars
  <2>2. CASE pc' = "returned"
        BY <1>1, <1>6, <2>2, RefusalConforms, ReturnRefines DEF VerifyAgain, At, Returns, lifeVars
  <2> QED BY <2>1, <2>2
<1>7. CASE instance
  <2>1. CASE option \in {"http", "grpc"}
        BY <1>7, <2>1, InternalRefines DEF instance, At
  <2>2. CASE option = "undialable"
    <3>1. Conforms(req, FliptError(req, "GENERAL"))
          BY <1>1, <1>7, FailedConforms DEF instance, At, Codes
    <3> QED BY <1>7, <2>2, <3>1, ReturnRefines DEF instance, At, Returns
  <2>3. CASE option = "unparsable"
        BY <1>7, <2>3, AbortRefines DEF instance, At, Usable
  <2> QED BY <1>7, <2>1, <2>2, <2>3 DEF instance
<1>8. CASE Call
  <2>1. ContextError(adapter, req) = "none" BY <1>8 DEF Call, At, Prepared
  <2>2. Conforms(req, res')
        BY <1>1, <1>8, <2>1, ResolveConforms DEF Call, At, Returns, LifeTyped
  <2> QED BY <1>8, <2>2, ReturnRefines DEF Call, At, Returns, lifeVars
<1>9. CASE CallPanics
      BY <1>9, AbortRefines DEF CallPanics, At, Prepared, Usable, lifeVars
<1>10. CASE Finish
      BY <1>10, NothingYet DEF Finish, At, lifeVars, Contract!ContractNext, Contract!Finish
<1>11. CASE UNCHANGED vars
      BY <1>11 DEF vars, lifeVars, evalVars, Contract!contractVars
<1> QED BY <1>2, <1>3, <1>4, <1>5, <1>6, <1>7, <1>8, <1>9, <1>10, <1>11 DEF Next

\* Every evaluation of every adapter keeps the contract of an OpenFeature
\* provider, for any number of initialisations.
THEOREM AdaptersKeepContract == Spec => KeepsContract
<1>1. Init => Contract!ContractInit
      BY NothingYet DEF Init, Contract!ContractInit
<1> QED BY <1>1, StepRefines, ContractInvariant, PTL DEF Spec, KeepsContract, Contract!ContractSpec

\* ------------------------- the answer is conveyed ------------------------
\* The state of an evaluation after its call: the result is what the adapter
\* makes of the answer; before, and without a call, there is no answer.
Resolved ==
    IF pc = "returned" /\ answer # NoAnswer
    THEN /\ ContextError(adapter, req) = "none"
         /\ answer \in Answers(adapter, req)
         /\ res = Resolve(adapter, option, req, answer)
    ELSE answer = NoAnswer

CodesOnly == res.err \in Codes \cup {"none"}

AnswerInv == ContractInv /\ Resolved /\ CodesOnly

\* Only Call puts an answer beside a result, and Finish takes both away.
LEMMA ResolvedStep ==
    ASSUME AnswerInv, [Next]_vars
    PROVE  Resolved'
<1> USE DEF AnswerInv, ContractInv, Resolved
<1>1. CASE InitFails \/ InitPublishes \/ InitEnds \/ ShutdownCloses \/ ShutdownEnds
      BY <1>1 DEF InitFails, InitPublishes, InitEnds, ShutdownCloses, ShutdownEnds, Overlaps
<1>2. CASE ShutdownCrashes BY <1>2 DEF ShutdownCrashes, evalVars
<1>3. CASE Begin BY <1>3 DEF Begin, lifeVars, At
<1>4. CASE Verify \/ VerifyAgain BY <1>4 DEF Verify, VerifyAgain, lifeVars, At, Returns
<1>5. CASE instance BY <1>5 DEF instance, At, Returns
<1>6. CASE Call
  <2>1. ContextError(adapter, req) = "none" BY <1>6 DEF Call, At, Prepared
  <2>2. UNCHANGED <<adapter, option, req>> BY <1>6 DEF Call, lifeVars
  <2>3. answer' \in Answers(adapter, req) /\ res' = Resolve(adapter, option, req, answer')
        BY <1>6 DEF Call, Returns
  <2>4. pc' = "returned" BY <1>6 DEF Call, Returns
  <2> QED BY <2>1, <2>2, <2>3, <2>4
<1>7. CASE CallPanics BY <1>7 DEF CallPanics, lifeVars, At
<1>8. CASE Finish BY <1>8 DEF Finish
<1>9. CASE UNCHANGED vars BY <1>9 DEF vars, lifeVars, evalVars
<1> QED BY <1>1, <1>2, <1>3, <1>4, <1>5, <1>6, <1>7, <1>8, <1>9 DEF Next

\* Every result an action returns conforms, hence has one of the codes.
LEMMA CodesOnlyStep ==
    ASSUME AnswerInv, [Next]_vars
    PROVE  CodesOnly'
<1> USE DEF AnswerInv, CodesOnly
<1>1. [Contract!ContractNext]_(Contract!contractVars) BY StepRefines
<1>2. CASE UNCHANGED res BY <1>2
<1>3. CASE Contract!Return
      BY <1>3, ConformsMeans DEF Contract!Return, Conforms
<1>4. CASE Contract!Finish
      BY <1>4 DEF Contract!Finish, Contract!NoResult
<1> QED BY <1>1, <1>2, <1>3, <1>4
        DEF Contract!ContractNext, Contract!Begin, Contract!Abort, Contract!Change, Contract!contractVars

\* A result that has an answer is what Resolve makes of it.
THEOREM AnswerInvariant == Spec => []AnswerInv
<1>1. Init => Resolved /\ CodesOnly BY DEF Init, Resolved, CodesOnly, NoResult
<1>2. ContractInv /\ ContractInv' /\ Resolved /\ CodesOnly /\ [Next]_vars => Resolved' /\ CodesOnly'
      BY ResolvedStep, CodesOnlyStep DEF AnswerInv
<1> QED BY <1>1, <1>2, ContractInvariant, PTL DEF Spec, AnswerInv

\* ------------------- values: what an adapter may return ------------------
\* A result without an error says what the value w of the answer says.
Carries(a, r, w, x) == x.err = "none" => SameValue(a, r, w, x.val)

\* An error carries no value.
LEMMA FailedCarries ==
    ASSUME NEW a, NEW r, NEW w, NEW code \in Codes
    PROVE  Carries(a, r, w, Failed(r, code)) /\ Carries(a, r, w, FliptError(r, code))
BY DEF Carries, Failed, FliptError, Codes

\* A value in another representation, with the same number, is carried.
LEMMA SameCarries ==
    ASSUME NEW a, NEW r, NEW w, NEW v, v.n = w.n, NEW reason
    PROVE  Carries(a, r, w, Ok(v, reason))
BY DEF Carries, SameValue, Ok

\* A number parsed from a string is the number of the string.
LEMMA ParsedCarries ==
    ASSUME NEW a, NEW r, NEW w, NEW t, NEW reason
    PROVE  Carries(a, r, w, Ok(V(t, w.n), reason))
BY SameCarries DEF V

\* A value that is checked against the type is carried or refused.
LEMMA TypedCarries ==
    ASSUME NEW a, NEW r, NEW w, NEW reason, NEW code \in Codes
    PROVE  Carries(a, r, w, Typed(r, w, reason, code))
BY SameCarries, FailedCarries DEF Typed

\* The integer part of a float64 is carried where that is the rule.
LEMMA AsIntCarries ==
    ASSUME NEW a, NEW r, Lossy(a, r), NEW w, NEW reason, NEW code \in Codes
    PROVE  Carries(a, r, w, AsInt(r, w, reason, code))
<1>1. Carries(a, r, w, Ok(Truncated(w), reason)) BY DEF Carries, SameValue, Ok
<1> QED BY <1>1, FailedCarries DEF AsInt

\* OFREP refuses a number with a fraction where an integer is asked for.
LEMMA OfrepCarries ==
    ASSUME NEW r, NEW ans \in Answers("ofrep", r), ans.val # Nil
    PROVE  Carries("ofrep", r, ans.val, Ofrep(r, ans))
<1> DEFINE codes == {"PARSE_ERROR", "TARGETING_KEY_MISSING", "INVALID_CONTEXT", "GENERAL", "OTHER"}
           outs == {"disabled", "200_bad_body", "200_bad_metadata", "401", "404", "429", "500",
                    "transport"}
           bad == {Ans("400", c, {Nil}) : c \in codes}
<1>1. Answers("ofrep", r) = Ans("200", Blank, (Values \ OfKind("int")) \cup {Nil})
                              \cup (UNION bad) \cup Outcomes(outs)
      BY DEF Answers
<1>2. ans \in UNION bad => \E c \in codes : ans \in Ans("400", c, {Nil}) OBVIOUS
<1> HIDE DEF bad, outs
<1>3. ans.out = "200" BY <1>1, <1>2, AnsMember, OutcomesMember
<1>4. resolveSingle(ans) = "none" BY <1>3 DEF resolveSingle
<1>5. Carries("ofrep", r, ans.val, OfrepInt(r, ans))
      BY SameCarries, FailedCarries DEF OfrepInt, Codes
<1> QED BY <1>3, <1>4, <1>5, TypedCarries DEF Ofrep, Codes

\* Unleash carries the payload of a variant, parsed or as it is.
LEMMA UnleashCarries ==
    ASSUME NEW r, NEW ans \in Answers("unleash", r), ans.val # Nil
    PROVE  Carries("unleash", r, ans.val, Unleash(r, ans))
<1>1. \/ \E vals : ans \in Ans("value", Blank, vals)
      \/ ans \in Outcomes({"fallback"}) \/ ans \in Outcomes({"disabled"})
      BY DEF Answers
<1>2. ans.out = "value" BY <1>1, AnsMember, OutcomesMember
<1>3. UnleashObject(r, ans) = Ok(ans.val, Blank) BY <1>2 DEF UnleashObject
<1>4. UnleashObject(r, ans).val = ans.val BY <1>3 DEF Ok
<1>5. Carries("unleash", r, ans.val, UnleashNumber(r, ans))
  <2>1. Carries("unleash", r, ans.val, Ok(ans.val, Blank)) BY SameCarries
  <2>2. Carries("unleash", r, ans.val, Ok(V(r.type, ans.val.n), Blank)) BY ParsedCarries
  <2>3. Carries("unleash", r, ans.val, Failed(r, "TYPE_MISMATCH")) BY FailedCarries DEF Codes
  <2> QED BY <1>4, <2>1, <2>2, <2>3 DEF UnleashNumber
<1> QED BY <1>3, <1>5, SameCarries DEF Unleash, ClientValue

\* Statsig carries the value of a gate or of a configuration.
LEMMA StatsigCarries ==
    ASSUME NEW r, NEW ans, ans.val # Nil
    PROVE  Carries("statsig", r, ans.val, Statsig(r, ans))
<1>1. StatsigObject(r, ans) = ans.val BY DEF StatsigObject
<1>2. CASE r.type = "bool" /\ ~ toFeatureConfig(r.ctx) BY <1>2, SameCarries DEF Statsig
<1>3. CASE ~ (r.type = "bool" /\ ~ toFeatureConfig(r.ctx)) /\ r.type = "int"
      BY <1>1, <1>3, AsIntCarries DEF Statsig, Lossy, Codes
<1>4. CASE ~ (r.type = "bool" /\ ~ toFeatureConfig(r.ctx)) /\ r.type # "int"
      BY <1>1, <1>4, TypedCarries DEF Statsig, Codes
<1> QED BY <1>2, <1>3, <1>4

\* The numbers of LaunchDarkly's integers have no fraction to lose.
LEMMA LaunchDarklyCarries ==
    ASSUME NEW r, NEW ans \in Answers("launchdarkly", r), ans.val # Nil
    PROVE  Carries("launchdarkly", r, ans.val, LaunchDarkly(r, ans))
<1>1. \/ ans \in Ans("value", Blank, TypedValues(r)) \cup Ans("disabled", Blank, TypedValues(r))
      \/ ans \in Errors({"CLIENT_NOT_READY", "FLAG_NOT_FOUND", "MALFORMED_FLAG",
                          "USER_NOT_SPECIFIED", "WRONG_TYPE", "EXCEPTION"})
      BY DEF Answers
<1>2. ans.val \in TypedValues(r) BY <1>1, AnsMember, ErrorsMember
<1>3. ans.val \in Values BY <1>2 DEF TypedValues, OfKind
<1>4. \A v \in Values : v.k = "int" => v.n = 4
      BY DEF Values, Strings, Floats, V
<1>5. ArbitraryValue(ans.val).n = ans.val.n
      BY <1>3, <1>4 DEF ArbitraryValue, Truncated, V
<1> QED BY <1>5 DEF LaunchDarkly, ClientValue, Carries, SameValue

\* Flipt carries the key of a variant, or its attachment unless that is empty.
LEMMA FliptCarries ==
    ASSUME NEW r, r.type \in Types, NEW ans \in Answers("flipt", r), ans.val # Nil,
           ~ (r.type = "object" /\ ans.val.n = Empty)
    PROVE  Carries("flipt", r, ans.val, Flipt(r, ans))
<1>1. ans.out \in {"value", "match", "default_variant"}
  <2>1. \/ \E o \in {"value", "match", "default_variant"} : \E vals : ans \in Ans(o, Blank, vals)
        \/ \E codes : ans \in Errors(codes)
        \/ ans \in Outcomes({"disabled", "no_match"})
        BY DEF Answers
  <2> QED BY <2>1, AnsMember, ErrorsMember, OutcomesMember
<1>2. Transforms(r.type, ans.val) /\ r.type # "bool" => Transform(r, ans.val).n = ans.val.n
      BY DEF Types, Transforms, Transform, V
<1>3. r.type # "bool" => Carries("flipt", r, ans.val, evaluateVariantFlag(r, ans))
  <2>1. Carries("flipt", r, ans.val, Failed(r, "TYPE_MISMATCH")) BY FailedCarries DEF Codes
  <2> QED BY <1>1, <1>2, <2>1, SameCarries DEF evaluateVariantFlag
<1> QED BY <1>1, <1>3, SameCarries DEF Flipt

\* Flagsmith carries the value of a flag, whatever it was parsed from, unless
\* a bool is asked for of flags that have only a state.
LEMMA FlagsmithCarries ==
    ASSUME NEW r, NEW opt, NEW ans \in Answers("flagsmith", r), ans.val # Nil,
           ~ (opt = "enabled" /\ r.type = "bool")
    PROVE  Carries("flagsmith", r, ans.val, Flagsmith(r, ans, opt = "enabled"))
<1>1. ans.out = "value"
  <2>1. \/ \E vals : ans \in Ans("value", Blank, vals)
        \/ \E codes : ans \in Errors(codes)
        \/ ans \in Outcomes({"missing", "disabled"})
        BY DEF Answers
  <2> QED BY <2>1, AnsMember, ErrorsMember, OutcomesMember
<1>2. resolveFlag(r, ans) = Ok(ans.val, FlagsmithReason(r.ctx)) BY <1>1 DEF resolveFlag
<1>3. ASSUME NEW v, NEW reason
      PROVE  Carries("flagsmith", r, v, FlagsmithValue(r, v, reason))
  <2>1. CASE r.type = "int" BY <2>1, AsIntCarries DEF FlagsmithValue, Lossy, Codes
  <2>2. CASE r.type = "float" BY <2>2, ParsedCarries, FailedCarries DEF FlagsmithValue, Codes
  <2>3. CASE r.type = "object"
    <3>1. v.k = "string" /\ ParsesAsJson(v) => SameValue("flagsmith", r, v, JsonValue(v))
          BY DEF ParsesAsJson, ParsesAsBool, BoolValue, JsonValue, SameValue, V, Word, Json
    <3> QED BY <2>3, <3>1, FailedCarries DEF FlagsmithValue, Carries, Ok, Codes
  <2>4. CASE r.type \notin {"int", "float", "object"}
        BY <2>4, TypedCarries DEF FlagsmithValue, Codes
  <2> QED BY <2>1, <2>2, <2>3, <2>4
<1>4. Ok(ans.val, FlagsmithReason(r.ctx)).reason # "DISABLED" BY DEF Ok, FlagsmithReason
<1>5. /\ Ok(ans.val, FlagsmithReason(r.ctx)).err = "none"
      /\ Ok(ans.val, FlagsmithReason(r.ctx)).val = ans.val
      BY DEF Ok
<1> QED BY <1>2, <1>3, <1>4, <1>5 DEF Flagsmith

\* AWS SSM carries what a parameter parses as, and its text as a string.
LEMMA AwsSsmCarries ==
    ASSUME NEW r, r.type # "object", NEW ans \in Answers("aws-ssm", r)
    PROVE  Carries("aws-ssm", r, ans.val, AwsSsm(r, ans))
<1> DEFINE v == ans.val
<1>1. \/ ans \in Ans("value", Blank, Strings \cup {V("string", Empty)})
      \/ ans \in Errors({"SDK"})
      BY DEF Answers
<1>2. \A s \in Strings \cup {V("string", Empty)} : s.k = "string" BY DEF Strings, V
<1>3. ans.out = "error" \/ v.k = "string" BY <1>1, <1>2, AnsMember, ErrorsMember
<1>4. v.k = "string" /\ ParsesAsBool(v) => Carries("aws-ssm", r, v, Ok(BoolValue(v), "STATIC"))
      BY DEF Carries, SameValue, Ok, BoolValue, V
<1>5. Carries("aws-ssm", r, v, Failed(r, "GENERAL")) BY FailedCarries DEF Codes
<1>6. v.k = "string" => Carries("aws-ssm", r, v, AwsSsmValue(r, v))
  <2> HIDE DEF v
  <2> QED BY <1>4, <1>5, SameCarries, ParsedCarries DEF AwsSsmValue
<1> QED BY <1>3, <1>5, <1>6 DEF AwsSsm

\* A configuration of ConfigCat that is decoded is the object it encodes.
LEMMA ConfigCatCarries ==
    ASSUME NEW r, NEW ans, ans.val # Nil
    PROVE  Carries("configcat", r, ans.val, ConfigCat(r, ans))
<1>1. Carries("configcat", r, ans.val, Failed(r, ConfigCatError(ans.code)))
      BY FailedCarries DEF ConfigCatError, Codes
<1>2. Carries("configcat", r, ans.val, Failed(r, "TYPE_MISMATCH")) BY FailedCarries DEF Codes
<1>3. ans.val.n = Json => V("object", Json).n = ans.val.n BY DEF V
<1> QED BY <1>1, <1>2, <1>3, SameCarries DEF ConfigCat

\* The variant that evaluate chooses is the one that counts.
LEMMA EvaluateCounts ==
    ASSUME NEW flag \in StoredFlags, NEW ctx, evaluate(flag, ctx).err = "none"
    PROVE  \E i \in DOMAIN flag : Counts(flag, ctx, i) /\ evaluate(flag, ctx).val = flag[i].val
<1> DEFINE matching == {i \in DOMAIN flag : Matches(flag[i], ctx)}
           defaults == {i \in DOMAIN flag : flag[i].default}
<1>1. DOMAIN flag \subseteq {1, 2} BY DEF StoredFlags
<1>2. CASE matching # {}
  <2>1. \E i \in matching : \A j \in matching : i <= j BY <1>1, <1>2
  <2>2. Min(matching) \in matching /\ \A j \in matching : Min(matching) <= j
        BY <2>1 DEF Min
  <2>3. Counts(flag, ctx, Min(matching)) BY <1>1, <2>2 DEF Counts
  <2>4. evaluate(flag, ctx).val = flag[Min(matching)].val BY <1>2 DEF evaluate, Ok
  <2> QED BY <2>2, <2>3, <2>4
<1>3. CASE matching = {} /\ defaults # {}
  <2>1. \E i \in defaults : \A j \in defaults : i >= j BY <1>1, <1>3
  <2>2. Max(defaults) \in defaults /\ \A j \in defaults : Max(defaults) >= j
        BY <2>1 DEF Max
  <2>3. Counts(flag, ctx, Max(defaults)) BY <1>1, <1>3, <2>2 DEF Counts
  <2>4. evaluate(flag, ctx).val = flag[Max(defaults)].val BY <1>3 DEF evaluate, Ok
  <2> QED BY <2>2, <2>3, <2>4
<1>4. CASE matching = {} /\ defaults = {} BY <1>4 DEF evaluate
<1> QED BY <1>2, <1>3, <1>4

\* from-env carries the value of the variant that counts.
LEMMA FromEnvCarries ==
    ASSUME NEW r, Asks(r), NEW ans \in Answers("from-env", r), FromEnv(r, ans).err = "none"
    PROVE  \E i \in DOMAIN ans.flag :
              /\ Counts(ans.flag, r.ctx, i)
              /\ SameValue("from-env", r, ans.flag[i].val, FromEnv(r, ans).val)
<1> DEFINE e == evaluate(ans.flag, r.ctx)
<1>1. ASSUME NEW code, FromEnvResolve(r, ans) = Failed(r, code), code # "none" PROVE FALSE
  <2>1. Failed(r, code).err = code /\ Failed(r, code).val = r.def BY DEF Failed
  <2>2. r.type = "int" => r.def.k # "float" BY DEF Asks, HasType
  <2>3. HasType(r.type, r.def) BY DEF Asks
  <2> QED BY <1>1, <2>1, <2>2, <2>3 DEF FromEnv, AsInt, Failed
<1>2. \/ ans \in Outcomes({"missing", "bad_json"})
      \/ ans \in [out : {"flag"}, code : {Blank}, val : {Nil}, flag : StoredFlags]
      BY DEF Answers
<1>3. ans.out = "flag" /\ ans.flag \in StoredFlags
  <2>1. ans.out \notin {"missing", "bad_json"} BY <1>1 DEF FromEnvResolve
  <2> QED BY <1>2, <2>1, OutcomesMember
<1>4. FromEnvResolve(r, ans) = IF e.err = "none" THEN e ELSE Failed(r, e.err)
      BY <1>3 DEF FromEnvResolve
<1>5. e.err = "none" BY <1>1, <1>4
<1>6. PICK i \in DOMAIN ans.flag : Counts(ans.flag, r.ctx, i) /\ e.val = ans.flag[i].val
      BY <1>3, <1>5, EvaluateCounts
<1>7. FromEnv(r, ans) = IF r.type = "int" THEN AsInt(r, e.val, e.reason, "TYPE_MISMATCH")
                        ELSE IF HasType(r.type, e.val) THEN e ELSE Failed(r, "TYPE_MISMATCH")
      BY <1>4, <1>5 DEF FromEnv
<1> HIDE DEF e
<1>8. SameValue("from-env", r, e.val, FromEnv(r, ans).val)
  <2>1. CASE r.type = "int"
        BY <1>7, <2>1, AsIntCarries DEF Carries, Lossy, Codes
  <2>2. CASE r.type # "int"
        BY <1>7, <2>2 DEF SameValue, Failed
  <2> QED BY <2>1, <2>2
<1> QED BY <1>6, <1>8

\* Whatever its backend answers, an adapter returns the value of the answer or
\* an error, unless the value is one it withholds.
LEMMA ResolveCarries ==
    ASSUME NEW a \in AdapterNames \ {"from-env"}, NEW opt, NEW r, Asks(r),
           NEW ans \in Answers(a, r), ans.val # Nil, ~ Withheld(a, opt, r, ans.val)
    PROVE  Carries(a, r, ans.val, Resolve(a, opt, r, ans))
<1> USE DEF Withheld
<1>1. CASE a = "ofrep" BY <1>1, OfrepCarries DEF Resolve
<1>2. CASE a \in {"harness", "prefab"}
      BY <1>2, SameCarries DEF Resolve, Harness, Prefab, PrefabObject, ClientValue
<1>3. CASE a = "unleash" BY <1>3, UnleashCarries DEF Resolve
<1>4. CASE a = "statsig" BY <1>4, StatsigCarries DEF Resolve
<1>5. CASE a = "launchdarkly" BY <1>5, LaunchDarklyCarries DEF Resolve
<1>6. CASE a = "flipt" BY <1>6, FliptCarries DEF Resolve, Asks
<1>7. CASE a = "flagsmith" BY <1>7, FlagsmithCarries DEF Resolve
<1>8. CASE a = "optimizely"
  <2>1. \/ ans \in Ans("one", Blank, Values)
        \/ ans \in Outcomes({"not_ready", "missing", "disabled", "none", "many"})
        BY <1>8 DEF Answers
  <2>2. ans.out = "one" BY <2>1, AnsMember, OutcomesMember
  <2>3. Optimizely(r, ans) = Typed(r, ans.val, "TARGETING_MATCH", "TYPE_MISMATCH")
        BY <2>2 DEF Optimizely, getDecision, requireSingleVariable
  <2> QED BY <1>8, <2>3, TypedCarries DEF Resolve, Codes
<1>9. CASE a = "configcat" BY <1>9, ConfigCatCarries DEF Resolve
<1>10. CASE a = "aws-ssm" BY <1>10, AwsSsmCarries DEF Resolve
<1>11. CASE a = "rocketflag"
      BY <1>11, SameCarries, FailedCarries DEF Resolve, RocketFlag, Codes
<1>12. CASE a = "goff-in-process"
      BY <1>12, TypedCarries, FailedCarries DEF Resolve, evaluateLocally, GoffCodes, Codes
<1>13. CASE a = "flagd-in-process"
  <2>1. \/ \E vals : ans \in Ans("value", Blank, vals)
        \/ \E codes : ans \in Errors(codes)
        \/ ans \in Outcomes({"disabled", "fallback"})
        BY <1>13 DEF Answers
  <2>2. ans.out = "value" BY <2>1, AnsMember, ErrorsMember, OutcomesMember
  <2> QED BY <1>13, <2>2, SameCarries DEF Resolve, FlagdResolve
<1> QED BY <1>1, <1>2, <1>3, <1>4, <1>5, <1>6, <1>7, <1>8, <1>9, <1>10, <1>11, <1>12, <1>13
        DEF AdapterNames

\* --------------------------- failures ------------------------------------
\* The code each adapter reports for a failed answer, whatever the type.
FailureCode(a, ans) ==
    CASE a = "ofrep" -> resolveSingle(ans)
      [] a = "launchdarkly" -> toResolutionError(ans.code)
      [] a = "flipt" -> gRPCToOpenFeatureError(ans.code)
      [] a = "optimizely" -> getDecision(ans)
      [] a = "configcat" -> ConfigCatError(ans.code)
      [] a = "goff-in-process" -> ans.code
      [] a = "flagd-in-process" -> mapError(ans.code)
      [] a = "flagsmith" -> IF ans.out = "missing" THEN "FLAG_NOT_FOUND" ELSE "GENERAL"
      [] a = "from-env" -> IF ans.out = "missing" THEN "FLAG_NOT_FOUND" ELSE "PARSE_ERROR"
      [] a \in {"aws-ssm", "rocketflag"} -> "GENERAL"
      [] OTHER -> "none"

\* The failures a backend may answer with, by adapter.
LEMMA FailureAnswers ==
    ASSUME NEW a \in AdapterNames, NEW r, NEW ans \in Answers(a, r), ans.out \in FailureOuts
    PROVE  /\ a \notin {"unleash", "statsig"}
           /\ a \in {"launchdarkly", "flipt", "configcat", "aws-ssm", "rocketflag",
                     "goff-in-process", "flagd-in-process"} => ans.out = "error"
           /\ a = "ofrep" => ans.out # "error" /\ resolveSingle(ans) # "none"
           /\ a = "optimizely" => ans.out \in {"not_ready", "missing"}
           /\ a = "flagsmith" => ans.out \in {"error", "missing"}
           /\ a = "from-env" => ans.out \in {"missing", "bad_json"}
<1> USE DEF FailureOuts
<1>1. CASE a = "ofrep"
  <2> DEFINE codes == {"PARSE_ERROR", "TARGETING_KEY_MISSING", "INVALID_CONTEXT", "GENERAL", "OTHER"}
             outs == {"disabled", "200_bad_body", "200_bad_metadata", "401", "404", "429", "500",
                      "transport"}
             bad == {Ans("400", c, {Nil}) : c \in codes}
  <2>4. Answers(a, r) = Ans("200", Blank, (Values \ OfKind("int")) \cup {Nil})
                          \cup (UNION bad) \cup Outcomes(outs)
        BY <1>1 DEF Answers
  <2>5. ans \in UNION bad => \E c \in codes : ans \in Ans("400", c, {Nil}) OBVIOUS
  <2> HIDE DEF bad, outs
  <2>1. \/ ans \in Ans("200", Blank, (Values \ OfKind("int")) \cup {Nil})
        \/ \E c : ans \in Ans("400", c, {Nil})
        \/ ans \in Outcomes(outs)
        BY <2>4, <2>5
  <2>2. ans.out \in {"200", "400"} \cup outs BY <2>1, AnsMember, OutcomesMember
  <2>3. resolveSingle(ans) # "none" BY <2>2 DEF outs, resolveSingle, parseError400
  <2> QED BY <1>1, <2>2, <2>3 DEF outs
<1>2. CASE a \in {"harness", "prefab"} BY <1>2
<1>3. CASE a = "unleash"
  <2>1. \/ \E vals : ans \in Ans("value", Blank, vals)
        \/ ans \in Outcomes({"fallback"}) \/ ans \in Outcomes({"disabled"})
        BY <1>3 DEF Answers
  <2> QED BY <2>1, AnsMember, OutcomesMember
<1>4. CASE a = "statsig"
  <2>1. (\E vals : ans \in Ans("value", Blank, vals)) \/ ans \in Outcomes({"fallback"})
        BY <1>4 DEF Answers
  <2> QED BY <2>1, AnsMember, OutcomesMember
<1>5. CASE a \in {"launchdarkly", "aws-ssm", "rocketflag", "goff-in-process"}
  <2>1. \/ \E vals : ans \in Ans("value", Blank, vals) \cup Ans("disabled", Blank, vals)
        \/ \E codes : ans \in Errors(codes)
        \/ \E code, vals : ans \in Ans("error", code, vals)
        BY <1>5 DEF Answers
  <2> QED BY <1>5, <2>1, AnsMember, ErrorsMember
<1>6. CASE a = "flipt"
  <2>1. \/ \E o \in {"value", "match", "default_variant"} : \E vals : ans \in Ans(o, Blank, vals)
        \/ \E codes : ans \in Errors(codes)
        \/ ans \in Outcomes({"disabled", "no_match"})
        BY <1>6 DEF Answers
  <2> QED BY <1>6, <2>1, AnsMember, ErrorsMember, OutcomesMember
<1>7. CASE a = "flagsmith"
  <2>1. \/ \E vals : ans \in Ans("value", Blank, vals)
        \/ \E codes : ans \in Errors(codes)
        \/ ans \in Outcomes({"missing", "disabled"})
        BY <1>7 DEF Answers
  <2> QED BY <1>7, <2>1, AnsMember, ErrorsMember, OutcomesMember
<1>8. CASE a = "optimizely"
  <2>1. \/ \E vals : ans \in Ans("one", Blank, vals)
        \/ ans \in Outcomes({"not_ready", "missing", "disabled", "none", "many"})
        BY <1>8 DEF Answers
  <2> QED BY <1>8, <2>1, AnsMember, OutcomesMember
<1>9. CASE a = "configcat"
  <2>1. \/ \E o \in {"value", "match"} : \E vals : ans \in Ans(o, Blank, vals)
        \/ \E codes : ans \in Errors(codes)
        BY <1>9 DEF Answers
  <2> QED BY <1>9, <2>1, AnsMember, ErrorsMember
<1>10. CASE a = "from-env"
  <2>1. \/ ans \in Outcomes({"missing", "bad_json"})
        \/ ans \in [out : {"flag"}, code : {Blank}, val : {Nil}, flag : StoredFlags]
        BY <1>10 DEF Answers
  <2> QED BY <1>10, <2>1, OutcomesMember
<1>11. CASE a = "flagd-in-process"
  <2>1. \/ \E vals : ans \in Ans("value", Blank, vals)
        \/ \E codes : ans \in Errors(codes)
        \/ ans \in Outcomes({"disabled", "fallback"})
        BY <1>11 DEF Answers
  <2> QED BY <1>11, <2>1, AnsMember, ErrorsMember, OutcomesMember
<1> QED BY <1>1, <1>2, <1>3, <1>4, <1>5, <1>6, <1>7, <1>8, <1>9, <1>10, <1>11 DEF AdapterNames

\* A failure has that code for every request r2, an integer of from-env and a
\* code the in-process GO Feature Flag does not know excepted.
LEMMA FailureHasCode ==
    ASSUME NEW a \in AdapterNames, NEW opt, NEW r, NEW ans \in Answers(a, r),
           ans.out \in FailureOuts, NEW r2, Asks(r2),
           ~ (a = "goff-in-process" /\ ans.code \notin GoffCodes)
    PROVE  \/ Resolve(a, opt, r2, ans).err = FailureCode(a, ans)
           \/ a = "from-env" /\ r2.type = "int" /\ Resolve(a, opt, r2, ans).err = "TYPE_MISMATCH"
<1> USE FailureAnswers
<1>1. \A code : Failed(r2, code).err = code /\ FliptError(r2, code).err = code
      BY DEF Failed, FliptError
<1>2. CASE a = "ofrep" BY <1>1, <1>2 DEF Resolve, FailureCode, Ofrep
<1>3. CASE a \in {"harness", "prefab"}
      BY <1>3 DEF Resolve, FailureCode, Harness, Prefab, PrefabObject, Ok, Defaulted
<1>4. CASE a \in {"unleash", "statsig"} BY <1>4
<1>5. CASE a = "launchdarkly" BY <1>5 DEF Resolve, FailureCode, LaunchDarkly
<1>6. CASE a = "flipt" BY <1>1, <1>6 DEF Resolve, FailureCode, Flipt, evaluateVariantFlag
<1>7. CASE a = "flagsmith"
  <2>1. resolveFlag(r2, ans) = Failed(r2, FailureCode(a, ans))
        BY <1>7 DEF FailureCode, resolveFlag
  <2>2. FailureCode(a, ans) # "none" BY <1>7 DEF FailureCode
  <2> QED BY <1>1, <1>7, <2>1, <2>2 DEF Resolve, Flagsmith
<1>8. CASE a = "optimizely" BY <1>1, <1>8 DEF Resolve, FailureCode, Optimizely, getDecision
<1>9. CASE a = "configcat" BY <1>1, <1>9 DEF Resolve, FailureCode, ConfigCat
<1>10. CASE a = "from-env"
  <2>1. FromEnvResolve(r2, ans) = Failed(r2, FailureCode(a, ans))
        BY <1>10 DEF FailureCode, FromEnvResolve
  <2>2. CASE r2.type = "int"
    <3>1. r2.def.k = "int" BY <2>2 DEF Asks, HasType
    <3> QED BY <1>1, <1>10, <2>1, <2>2, <3>1 DEF Resolve, FromEnv, AsInt, Failed
  <2>3. CASE r2.type # "int"
    <3>1. HasType(r2.type, Failed(r2, FailureCode(a, ans)).val) BY DEF Failed, Asks
    <3> QED BY <1>1, <1>10, <2>1, <2>3, <3>1 DEF Resolve, FromEnv
  <2> QED BY <2>2, <2>3
<1>11. CASE a = "aws-ssm" BY <1>1, <1>11 DEF Resolve, FailureCode, AwsSsm
<1>12. CASE a = "rocketflag" BY <1>1, <1>12 DEF Resolve, FailureCode, RocketFlag
<1>13. CASE a = "goff-in-process" BY <1>1, <1>13 DEF Resolve, FailureCode, evaluateLocally
<1>14. CASE a = "flagd-in-process" BY <1>1, <1>14 DEF Resolve, FailureCode, FlagdResolve
<1> QED BY <1>2, <1>3, <1>4, <1>5, <1>6, <1>7, <1>8, <1>9, <1>10, <1>11, <1>12, <1>13, <1>14
        DEF AdapterNames

\* The code of a failure is an error, but for the adapters that drop it.
LEMMA FailureIsError ==
    ASSUME NEW a \in AdapterNames \ {"harness", "prefab"}, NEW r, NEW ans \in Answers(a, r),
           ans.out \in FailureOuts, ~ (a = "goff-in-process" /\ ans.code \notin GoffCodes)
    PROVE  FailureCode(a, ans) # "none"
BY FailureAnswers
   DEF AdapterNames, FailureCode, toResolutionError, gRPCToOpenFeatureError, getDecision,
       ConfigCatError, mapError, GoffCodes

\* ------------------------- the three parts -------------------------------
LEMMA AnswerFacts ==
    ASSUME AnswerInv, Answered
    PROVE  /\ adapter \in AdapterNames
           /\ Asks(req)
           /\ ContextError(adapter, req) = "none"
           /\ answer \in Answers(adapter, req)
           /\ res = Resolve(adapter, option, req, answer)
BY RequestAsks DEF AnswerInv, ContractInv, LifeTyped, EvalTyped, Resolved, Answered

\* Without an error the value that is returned is the backend's.
LEMMA ValueConveyed == ASSUME AnswerInv PROVE ValueIsAnswer
<1> SUFFICES ASSUME Answered, res.err = "none"
             PROVE  IF adapter = "from-env"
                    THEN \E i \in DOMAIN answer.flag :
                            /\ Counts(answer.flag, req.ctx, i)
                            /\ SameValue(adapter, req, answer.flag[i].val, res.val)
                    ELSE answer.val = Nil \/ Withheld(adapter, option, req, answer.val)
                           \/ SameValue(adapter, req, answer.val, res.val)
    BY DEF ValueIsAnswer
<1>1. CASE adapter = "from-env"
  <2>1. res = FromEnv(req, answer) BY <1>1, AnswerFacts DEF Resolve
  <2> QED BY <1>1, <2>1, AnswerFacts, FromEnvCarries
<1>2. CASE adapter # "from-env"
      BY <1>2, AnswerFacts, ResolveCarries DEF Carries
<1> QED BY <1>1, <1>2

\* A failure of the backend is an error of the evaluation.
LEMMA FailureConveyed == ASSUME AnswerInv PROVE FailureReported
<1> SUFFICES ASSUME Answered, answer.out \in FailureOuts, res.err = "none",
                    adapter \notin {"harness", "prefab"},
                    ~ (adapter = "goff-in-process" /\ answer.code \notin GoffCodes)
             PROVE  FALSE
    BY DEF FailureReported
<1>1. FailureCode(adapter, answer) # "none" BY AnswerFacts, FailureIsError
<1> QED BY <1>1, AnswerFacts, FailureHasCode

\* A failure has the same code whatever type was asked for.
LEMMA ErrorsUniform == ASSUME AnswerInv PROVE UniformErrors
<1> SUFFICES ASSUME Answered, answer.out \in FailureOuts,
                    ~ (adapter = "goff-in-process" /\ answer.code \notin GoffCodes),
                    NEW t \in Types \ {"bool"}
             PROVE  LET r == [req EXCEPT !.type = t,
                                         !.def = V(IF t = "object" THEN "object" ELSE t, Dflt)]
                    IN \/ Resolve(adapter, option, r, answer).err = res.err
                       \/ adapter = "from-env" /\ "int" \in {t, req.type}
    BY DEF UniformErrors
<1> DEFINE r == [req EXCEPT !.type = t, !.def = V(IF t = "object" THEN "object" ELSE t, Dflt)]
<1>1. req \in RequestsOf(adapter)
      BY DEF AnswerInv, ContractInv, EvalTyped, Answered
<1>2. PICK u \in Types : req \in [type : {u}, def : Defaults(u), ctx : Contexts(adapter)]
      BY <1>1 DEF RequestsOf
<1>3. r.type = t /\ r.def = V(t, Dflt) BY <1>2
<1>4. Asks(r) BY <1>3 DEF Asks, HasType, V, Dflt, Wide
<1> HIDE DEF r
<1>5. \/ Resolve(adapter, option, r, answer).err = FailureCode(adapter, answer)
      \/ adapter = "from-env" /\ t = "int"
      BY <1>3, <1>4, AnswerFacts, FailureHasCode
<1>6. \/ res.err = FailureCode(adapter, answer)
      \/ adapter = "from-env" /\ req.type = "int"
      BY AnswerFacts, FailureHasCode
<1> QED BY <1>5, <1>6 DEF r

\* The two invariants together contain the type invariant.
LEMMA TypeConveyed == ASSUME UseInv, AnswerInv PROVE TypeOK
BY DEF UseInv, AnswerInv, LifeTyped, EvalTyped, OverlapTyped, CodesOnly, TypeOK

\* A result without an error has the backend's value, and that of the variant
\* that counts for from-env, wherever Withheld names no exception; a failure is
\* reported, with one code for all types, but for the adapters AnswerConveyed
\* names: whatever the adapter, the request and the answer are.
THEOREM AdaptersConveyAnswers == Spec => []AnswerConveyed
<1>1. UseInv /\ AnswerInv => AnswerConveyed
      BY TypeConveyed, ValueConveyed, FailureConveyed, ErrorsUniform DEF AnswerConveyed
<1> QED BY <1>1, UseInvariant, AnswerInvariant, PTL
=============================================================================
