----------------------------- MODULE Resolution -----------------------------
(***************************************************************************)
(* What an adapter makes of a request and of its backend's answer: one     *)
(* operator per adapter of src/providers, and one per conversion of an     *)
(* evaluation context.                                                     *)
(*                                                                         *)
(* A value is [k |-> kind, n |-> number].  A number counts in halves, so   *)
(* that 3 is 1.5 and 4 is 2; the negative numbers name the strings that    *)
(* are no numbers.  A request is [type, def, ctx]: the type asked for, the *)
(* default value and the flattened evaluation context.  A result is        *)
(* [val, err, reason] with err = "none" for success.                       *)
(***************************************************************************)
EXTENDS Integers, Sequences, FiniteSets, FiniteSetsExt

Types == {"bool", "float", "int", "string", "object"}

V(k, n) == [k |-> k, n |-> n]
Nil == V("nil", 0)
Zero(t) == IF t = "object" THEN Nil ELSE V(t, 0)

\* The reason of a result, or the code of an answer, that is left empty.
Blank == ""

\* Strings that are not numbers: "true", a JSON object, "", any other text.
Word == -1
Json == -2
Empty == -3
Text == -4

\* The default value, and a default integer that float64 cannot represent.
Dflt == -10
Wide == -11
WideRounded == -12

\* --------------------------- conversions of Go ---------------------------
ParsesAsInt(s) == s.n >= 0 /\ s.n % 2 = 0
ParsesAsFloat(s) == s.n >= 0
ParsesAsBool(s) == s.n \in {Word, 2, 0}
BoolValue(s) == V("bool", IF s.n = 0 THEN 0 ELSE 1)
ParsesAsJson(s) == s.n >= 0 \/ s.n \in {Word, Json}
JsonValue(s) == CASE s.n >= 0 -> V("float", s.n)
                  [] s.n = Word -> V("bool", 1)
                  [] s.n = Json -> V("object", Json)

\* int64(f), which drops the fraction, and float64(i), which rounds.
Truncated(f) == V("int", IF f.n >= 0 THEN 2 * (f.n \div 2)
                         ELSE IF f.n = Wide THEN WideRounded ELSE f.n)

HasType(t, v) == t = "object" \/ v.k = t

\* ------------------------------- results --------------------------------
Ok(v, reason) == [val |-> v, err |-> "none", reason |-> reason]
Failed(req, code) == [val |-> req.def, err |-> code, reason |-> "ERROR"]
Defaulted(req, reason) == Ok(req.def, reason)
Typed(req, v, reason, code) ==
    IF HasType(req.type, v) THEN Ok(v, reason) ELSE Failed(req, code)

\* A number of a backend that knows only float64, taken as an integer.
AsInt(req, v, reason, code) ==
    IF v.k = "float" THEN Ok(Truncated(v), reason) ELSE Failed(req, code)

\* --------------------------- evaluation contexts -------------------------
\* ctx.key: the targeting key; ctx.attrs: the kind of the other attributes;
\* ctx.feature: Statsig's feature_config; ctx.cancelled: the Go context.
IsEmpty(ctx) == ctx.key = "none" /\ ctx.attrs = "none" /\ ctx.feature = "none"
ToStr(ctx) == /\ ctx.key # "map"
              /\ ctx.attrs \notin {"nested", "multi", "multi_keyless"}
              /\ ctx.feature = "none"

toHarnessTarget(ctx) == IF ToStr(ctx) THEN "none" ELSE "INVALID_CONTEXT"
toUnleashContext(ctx, t) ==
    IF ToStr(ctx) THEN "none"
    ELSE IF t = "bool" THEN "INVALID_CONTEXT" ELSE "GENERAL"

\* Every key needs a dot, so a targeting key is never accepted.
ToPrefabContext(ctx) ==
    IF ctx.key = "none" /\ ctx.feature = "none" /\ ctx.attrs \in {"none", "dotted"}
    THEN "none" ELSE "INVALID_CONTEXT"

ToStatsigUser(ctx) == IsEmpty(ctx) \/ ctx.key \in {"string", "number"}
toFeatureConfig(ctx) == ctx.feature # "none"

\* targetingKey has precedence over "key" whatever its content; a multi
\* context needs a key in each of its nested contexts and ignores the rest.
toLDContext(ctx) ==
    CASE ctx.attrs = "multi" -> TRUE
      [] ctx.attrs = "multi_keyless" -> FALSE
      [] OTHER -> ctx.key \in {"string", "empty"} \/ ctx.attrs = "keyed"
transformContext(ctx) ==
    IF ~ toLDContext(ctx) THEN "TARGETING_KEY_MISSING"
    ELSE IF ctx.cancelled THEN "GENERAL" ELSE "none"

\* fmt.Sprintf makes a string of any key; only an absent or empty one fails.
FliptTargetingKey(ctx) ==
    IF ctx.key \in {"none", "empty"} THEN "TARGETING_KEY_MISSING" ELSE "none"

FlagsmithTargetingKey(ctx) ==
    IF ctx.key \in {"number", "map"} THEN "INVALID_CONTEXT" ELSE "none"

\* Optimizely and the in-process GO Feature Flag want a string.
StringKey(ctx) ==
    IF ctx.key \in {"string", "empty"} THEN "none" ELSE "TARGETING_KEY_MISSING"

\* What the adapter finds wrong before it calls its backend.
StatsigContext(req) ==
    IF ~ ToStatsigUser(req.ctx) THEN IF req.type = "bool" THEN "INVALID_CONTEXT" ELSE "GENERAL"
    ELSE IF ~ toFeatureConfig(req.ctx) THEN IF req.type = "bool" THEN "none" ELSE "GENERAL"
    ELSE IF req.ctx.feature = "unknown" \/ req.def.k = "json" THEN "GENERAL" ELSE "none"

HarnessContext(req) ==
    IF toHarnessTarget(req.ctx) = "none" /\ req.type = "object" /\ req.def.k # "json"
    THEN "INVALID_CONTEXT" ELSE toHarnessTarget(req.ctx)

ContextError(a, req) ==
    CASE a = "harness" -> HarnessContext(req)
      [] a = "unleash" -> toUnleashContext(req.ctx, req.type)
      [] a = "statsig" -> StatsigContext(req)
      [] a = "prefab" -> ToPrefabContext(req.ctx)
      [] a = "launchdarkly" -> transformContext(req.ctx)
      [] a = "flipt" -> FliptTargetingKey(req.ctx)
      [] a = "flagsmith" -> FlagsmithTargetingKey(req.ctx)
      [] a \in {"optimizely", "goff-in-process"} -> StringKey(req.ctx)
      [] a = "rocketflag" -> IF req.type = "bool" THEN "none" ELSE "TYPE_MISMATCH"
      [] OTHER -> "none"

\* How the adapter says so; Flipt and Optimizely keep reasons of their own.
ContextFailure(a, req) ==
    LET code == ContextError(a, req)
    IN [Failed(req, code) EXCEPT !.reason = CASE a = "flipt" -> "DEFAULT"
                                              [] a = "optimizely" -> code
                                              [] OTHER -> "ERROR"]

\* ------------------------------- OFREP ----------------------------------
\* A response [out |-> status, code, val]; out = "200" carries a value.
parseError400(code) ==
    IF code \in {"PARSE_ERROR", "TARGETING_KEY_MISSING", "INVALID_CONTEXT"}
    THEN code ELSE "GENERAL"

resolveSingle(ans) ==
    CASE ans.out \in {"200", "disabled"} -> "none"
      [] ans.out \in {"200_bad_body", "200_bad_metadata"} -> "PARSE_ERROR"
      [] ans.out = "400" -> parseError400(ans.code)
      [] ans.out = "404" -> "FLAG_NOT_FOUND"
      [] OTHER -> "GENERAL"

\* JSON numbers are float64: an integer is accepted when it has no fraction.
OfrepIntTruncating(req, ans) == AsInt(req, ans.val, "STATIC", "TYPE_MISMATCH")
OfrepInt(req, ans) ==
    IF ans.val.k = "float" /\ Truncated(ans.val).n = ans.val.n
    THEN Ok(Truncated(ans.val), "STATIC") ELSE Failed(req, "TYPE_MISMATCH")

Ofrep(req, ans) ==
    IF resolveSingle(ans) # "none" THEN Failed(req, resolveSingle(ans))
    ELSE IF ans.out = "disabled" THEN Defaulted(req, "DISABLED")
    ELSE IF req.type = "int" THEN OfrepInt(req, ans)
    ELSE Typed(req, ans.val, "STATIC", "TYPE_MISMATCH")

\* ------------- backends whose client takes the default value -------------
\* A client that is given the default answers with a value of its type or
\* with the default; these adapters drop its error.
ClientValue(req, ans) == IF ans.val = Nil THEN req.def ELSE ans.val

Harness(req, ans) == Ok(ClientValue(req, ans), Blank)
PrefabObject(req, ans) ==
    IF req.def.k \in {"object", "list", "string"} THEN Ok(ClientValue(req, ans), Blank)
    ELSE Defaulted(req, Blank)
Prefab(req, ans) == IF req.type = "object" THEN PrefabObject(req, ans)
                    ELSE Ok(ClientValue(req, ans), Blank)

\* ------------------------------- Unleash --------------------------------
\* The payload of a variant is a string; the default travels through
\* ObjectEvaluation and comes back with its own type.
UnleashObject(req, ans) ==
    IF ans.out = "disabled" THEN Defaulted(req, Blank) ELSE Ok(ans.val, Blank)
UnleashNumber(req, ans) ==
    LET v == UnleashObject(req, ans).val
    IN CASE v.k = req.type -> Ok(v, Blank)
         [] v.k = "string" /\ (IF req.type = "int" THEN ParsesAsInt(v) ELSE ParsesAsFloat(v))
              -> Ok(V(req.type, v.n), Blank)
         [] OTHER -> Failed(req, "TYPE_MISMATCH")
Unleash(req, ans) ==
    CASE req.type = "bool" -> Ok(ClientValue(req, ans), Blank)
      [] req.type \in {"int", "float"} -> UnleashNumber(req, ans)
      [] OTHER -> UnleashObject(req, ans)

\* ------------------------------- Statsig --------------------------------
\* A gate knows no default.  A number is float64 on the way out and back,
\* the default included; a default slice that is no []any is lost.
StatsigDefault(v) == CASE v.k = "int" -> V("float", Truncated(v).n)
                       [] v.k = "list" -> V("list", 0)
                       [] OTHER -> v
StatsigObject(req, ans) ==
    IF ans.val = Nil THEN StatsigDefault(req.def) ELSE ans.val
Statsig(req, ans) ==
    CASE req.type = "bool" /\ ~ toFeatureConfig(req.ctx)
           -> Ok(IF ans.val = Nil THEN Zero("bool") ELSE ans.val, Blank)
      [] req.type = "int" -> AsInt(req, StatsigObject(req, ans), Blank, "GENERAL")
      [] OTHER -> Typed(req, StatsigObject(req, ans), Blank, "GENERAL")

\* ----------------------------- LaunchDarkly ------------------------------
toResolutionError(kind) ==
    CASE kind = "CLIENT_NOT_READY" -> "PROVIDER_NOT_READY"
      [] kind = "FLAG_NOT_FOUND" -> "FLAG_NOT_FOUND"
      [] kind = "MALFORMED_FLAG" -> "PARSE_ERROR"
      [] kind = "USER_NOT_SPECIFIED" -> "TARGETING_KEY_MISSING"
      [] kind = "WRONG_TYPE" -> "TYPE_MISMATCH"
      [] OTHER -> "GENERAL"
toReason(out) == CASE out = "error" -> "ERROR"
                   [] out = "disabled" -> "DISABLED"
                   [] OTHER -> "TARGETING_MATCH"
\* ldvalue.CopyArbitraryValue and AsArbitraryValue know only JSON types.
ArbitraryValue(v) == CASE v.k = "int" -> V("float", Truncated(v).n)
                       [] v.k = "json" -> V("object", v.n)
                       [] OTHER -> v
LaunchDarkly(req, ans) ==
    [val |-> IF req.type = "object" THEN ArbitraryValue(ClientValue(req, ans))
             ELSE ClientValue(req, ans),
     reason |-> toReason(ans.out),
     err |-> IF ans.out = "error" THEN toResolutionError(ans.code) ELSE "none"]

\* -------------------------------- Flipt ---------------------------------
gRPCToOpenFeatureError(code) ==
    CASE code = "NotFound" -> "FLAG_NOT_FOUND"
      [] code = "InvalidArgument" -> "INVALID_CONTEXT"
      [] code = "Unavailable" -> "PROVIDER_NOT_READY"
      [] OTHER -> "GENERAL"

\* transformTo...: the variant key is a string, the attachment may be empty.
Transforms(t, v) ==
    CASE t = "string" -> TRUE
      [] t = "float" -> ParsesAsFloat(v)
      [] t = "int" -> ParsesAsInt(v)
      [] t = "object" -> v.n \in {Empty, Json}
Transform(req, v) ==
    IF req.type = "object" THEN IF v.n = Empty THEN req.def ELSE V("object", Json)
    ELSE V(req.type, v.n)

\* The reason of an error stays DEFAULT except after a failed transform.
FliptError(req, code) == [Failed(req, code) EXCEPT !.reason = "DEFAULT"]
evaluateVariantFlag(req, ans) ==
    CASE ans.out = "error" -> FliptError(req, gRPCToOpenFeatureError(ans.code))
      [] ans.out = "disabled" -> Defaulted(req, "DISABLED")
      [] ans.out = "no_match" -> Defaulted(req, "DEFAULT")
      [] OTHER -> IF Transforms(req.type, ans.val)
                  THEN Ok(Transform(req, ans.val),
                          IF ans.out = "default_variant" THEN "DEFAULT" ELSE "TARGETING_MATCH")
                  ELSE Failed(req, "TYPE_MISMATCH")
Flipt(req, ans) ==
    IF req.type # "bool" THEN evaluateVariantFlag(req, ans)
    ELSE IF ans.out = "error" THEN FliptError(req, gRPCToOpenFeatureError(ans.code))
    ELSE Ok(ans.val, "TARGETING_MATCH")

\* ------------------------------ Flagsmith -------------------------------
FlagsmithReason(ctx) == IF ctx.key = "none" THEN "STATIC" ELSE "TARGETING_MATCH"
resolveFlag(req, ans) ==
    CASE ans.out = "error" -> Failed(req, "GENERAL")
      [] ans.out = "missing" -> Failed(req, "FLAG_NOT_FOUND")
      [] ans.out = "disabled" -> Defaulted(req, "DISABLED")
      [] OTHER -> Ok(ans.val, FlagsmithReason(req.ctx))
FlagsmithValue(req, v, reason) ==
    CASE req.type = "int" -> AsInt(req, v, reason, "TYPE_MISMATCH")
      [] req.type = "float" -> IF v.k = "string" /\ ParsesAsFloat(v)
                               THEN Ok(V("float", v.n), reason) ELSE Failed(req, "TYPE_MISMATCH")
      [] req.type = "object" -> IF v.k = "string" /\ ParsesAsJson(v)
                                THEN Ok(JsonValue(v), reason) ELSE Failed(req, "TYPE_MISMATCH")
      [] OTHER -> Typed(req, v, reason, "TYPE_MISMATCH")
Flagsmith(req, ans, usingBooleanConfigValue) ==
    LET r == resolveFlag(req, ans)
    IN IF r.err # "none" THEN r
       ELSE IF req.type = "bool" /\ usingBooleanConfigValue
            THEN Ok(V("bool", IF r.reason = "DISABLED" THEN 0 ELSE 1), "STATIC")
       ELSE IF r.reason = "DISABLED" THEN r ELSE FlagsmithValue(req, r.val, r.reason)

\* ------------------------------ Optimizely ------------------------------
\* A decision: an error, disabled, or its variables ("none", "one", "many").
getDecision(ans) == CASE ans.out = "not_ready" -> "PROVIDER_NOT_READY"
                      [] ans.out = "missing" -> "FLAG_NOT_FOUND"
                      [] OTHER -> "none"
AnyVariable(req, ans) ==
    IF ans.out = "one" THEN Ok(ans.val, "TARGETING_MATCH") ELSE Failed(req, "GENERAL")
requireSingleVariable(req, ans) ==
    IF ans.out = "one" THEN Typed(req, ans.val, "TARGETING_MATCH", "TYPE_MISMATCH")
    ELSE Failed(req, "GENERAL")
Optimizely(req, ans) ==
    CASE getDecision(ans) # "none" -> Failed(req, getDecision(ans))
      [] ans.out = "disabled" -> Defaulted(req, "DISABLED")
      [] req.type = "bool" /\ ans.out = "none" -> Ok(V("bool", 1), "TARGETING_MATCH")
      [] req.type = "object" /\ ans.out = "many" -> Ok(V("object", Json), "TARGETING_MATCH")
      [] OTHER -> requireSingleVariable(req, ans)

\* ------------------------------ ConfigCat -------------------------------
ConfigCatError(kind) ==
    CASE kind = "KEY_NOT_FOUND" -> "FLAG_NOT_FOUND"
      [] kind = "SETTING_TYPE" -> "TYPE_MISMATCH"
      [] kind = "CONFIG_MISSING" -> "PARSE_ERROR"
      [] OTHER -> "GENERAL"
ConfigCatReason(ans) == IF ans.out = "match" THEN "TARGETING_MATCH" ELSE "DEFAULT"
ConfigCat(req, ans) ==
    IF ans.out = "error" THEN Failed(req, ConfigCatError(ans.code))
    ELSE IF ans.val = Nil THEN Defaulted(req, ConfigCatReason(ans))
    ELSE IF req.type # "object" THEN Ok(ans.val, ConfigCatReason(ans))
    ELSE IF ans.val.n = Json THEN Ok(V("object", Json), ConfigCatReason(ans))
    ELSE Failed(req, "TYPE_MISMATCH")

\* ---------------------- environment variables (from-env) ------------------
\* A stored flag is a sequence of variants [default, match, val]; match says
\* for which contexts targeting key and criteria hold.
Matches(variant, ctx) == \/ variant.match = "always"
                         \/ variant.match = "keyed" /\ ctx.key = "string"
evaluate(flag, ctx) ==
    LET matching == {i \in DOMAIN flag : Matches(flag[i], ctx)}
        defaults == {i \in DOMAIN flag : flag[i].default}
    IN CASE matching # {} -> Ok(flag[Min(matching)].val, "TARGETING_MATCH")
         [] matching = {} /\ defaults # {} -> Ok(flag[Max(defaults)].val, "DEFAULT")
         [] OTHER -> [val |-> Nil, err |-> "PARSE_ERROR", reason |-> "ERROR"]
FromEnvResolve(req, ans) ==
    CASE ans.out = "missing" -> Failed(req, "FLAG_NOT_FOUND")
      [] ans.out = "bad_json" -> Failed(req, "PARSE_ERROR")
      [] OTHER -> LET r == evaluate(ans.flag, req.ctx)
                  IN IF r.err = "none" THEN r ELSE Failed(req, r.err)
\* An integer default is no float64: an error becomes TYPE_MISMATCH.
FromEnv(req, ans) ==
    LET r == FromEnvResolve(req, ans)
    IN IF req.type = "int" THEN AsInt(req, r.val, r.reason, "TYPE_MISMATCH")
       ELSE IF HasType(req.type, r.val) THEN r ELSE Failed(req, "TYPE_MISMATCH")

\* ------------------------------- AWS SSM --------------------------------
\* A parameter is a string; an object flag is never decoded.
AwsSsmValue(req, v) ==
    CASE req.type = "object" -> Defaulted(req, "STATIC")
      [] req.type = "string" -> Ok(v, "STATIC")
      [] req.type = "bool" /\ ParsesAsBool(v) -> Ok(BoolValue(v), "STATIC")
      [] req.type = "int" /\ ParsesAsInt(v) -> Ok(V("int", v.n), "STATIC")
      [] req.type = "float" /\ ParsesAsFloat(v) -> Ok(V("float", v.n), "STATIC")
      [] OTHER -> Failed(req, "GENERAL")
AwsSsm(req, ans) ==
    IF ans.out = "error" THEN Failed(req, "GENERAL") ELSE AwsSsmValue(req, ans.val)

\* ------------------------------ RocketFlag ------------------------------
RocketFlag(req, ans) ==
    IF ans.out = "error" THEN Failed(req, "GENERAL")
    ELSE Ok(ans.val, IF req.ctx.key \in {"string", "empty"} THEN "TARGETING_MATCH" ELSE "DEFAULT")

\* --------------------- GO Feature Flag module, in process -----------------
\* An error with a code the adapter does not list falls through to the
\* value; a nil value is the zero value of the type, without an error.
GoffCodes == {"FLAG_NOT_FOUND", "PROVIDER_NOT_READY", "PARSE_ERROR", "TYPE_MISMATCH", "GENERAL"}
evaluateLocally(req, ans) ==
    IF ans.out = "error" /\ ans.code \in GoffCodes THEN Failed(req, ans.code)
    ELSE IF ans.val = Nil THEN Ok(Zero(req.type), "STATIC")
    ELSE Typed(req, ans.val, "STATIC", "TYPE_MISMATCH")

\* -------------------------- flagd, in process ----------------------------
\* The reason of an error is the evaluator's.
mapError(code) == IF code \in {"FLAG_NOT_FOUND", "TYPE_MISMATCH", "PARSE_ERROR"}
                  THEN code ELSE "GENERAL"
FlagdResolve(req, ans) ==
    CASE ans.out = "error" -> Failed(req, mapError(ans.code))
      [] ans.out = "disabled" -> Defaulted(req, "DISABLED")
      [] ans.out = "fallback" -> Defaulted(req, "DEFAULT")
      [] OTHER -> Ok(ans.val, "STATIC")

\* What the adapter returns for a request its backend answers with ans.
Resolve(a, option, req, ans) ==
    CASE a = "ofrep" -> Ofrep(req, ans)
      [] a = "harness" -> Harness(req, ans)
      [] a = "unleash" -> Unleash(req, ans)
      [] a = "statsig" -> Statsig(req, ans)
      [] a = "prefab" -> Prefab(req, ans)
      [] a = "launchdarkly" -> LaunchDarkly(req, ans)
      [] a = "flipt" -> Flipt(req, ans)
      [] a = "flagsmith" -> Flagsmith(req, ans, option = "enabled")
      [] a = "optimizely" -> Optimizely(req, ans)
      [] a = "configcat" -> ConfigCat(req, ans)
      [] a = "from-env" -> FromEnv(req, ans)
      [] a = "aws-ssm" -> AwsSsm(req, ans)
      [] a = "rocketflag" -> RocketFlag(req, ans)
      [] a = "goff-in-process" -> evaluateLocally(req, ans)
      [] a = "flagd-in-process" -> FlagdResolve(req, ans)
=============================================================================
