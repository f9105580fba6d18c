------------------------------ MODULE Adapters ------------------------------
(***************************************************************************)
(* The adapters of src/providers over a vendor's client: one adapter per   *)
(* behaviour, its life (Init, Shutdown) beside evaluations that check the  *)
(* state first and call the client later.  What the answers become is in   *)
(* module Resolution; that the evaluations keep the promise of an          *)
(* OpenFeature provider is the refinement of ProviderContract below.       *)
(***************************************************************************)
EXTENDS Resolution

CONSTANT MaxInits   \* bound on successful and failed initialisations

ASSUME MaxInitsAssumption == MaxInits \in Nat

VARIABLES
    adapter,    \* which adapter this is
    option,     \* the option of its constructor that evaluations depend on
    status,     \* Provider.status
    client,     \* the vendor's client: none, open, closed or hollow
    stage,      \* where Init or Shutdown is, between its two writes
    inits,      \* initialisations so far
    pc,         \* where the evaluation is
    req,        \* its request
    answer,     \* what the backend answered it
    res,        \* its result
    used,       \* ghost: the state of the client when it was called
    overlap     \* ghost: an Init or a Shutdown ran during the evaluation

lifeVars == <<adapter, option, status, client, stage, inits>>
evalVars == <<pc, req, answer, res, used, overlap>>
vars == <<lifeVars, evalVars>>

AdapterNames ==
    {"ofrep", "harness", "unleash", "statsig", "prefab", "launchdarkly", "flipt",
     "flagsmith", "optimizely", "configcat", "from-env", "aws-ssm", "rocketflag",
     "goff-in-process", "flagd-in-process"}

\* Adapters that keep a status and make their client in Init.
Stateful == {"harness", "unleash", "statsig", "prefab"}
\* These publish the status before the client.
StatusFirst == {"harness", "prefab"}

Options(a) ==
    CASE a = "flipt" -> {"http", "grpc", "undialable", "unparsable"}
      [] a \in {"launchdarkly", "optimizely"} -> {"close", "keep"}
      [] a = "flagsmith" -> {"enabled", "value"}
      [] OTHER -> {"none"}

\* ------------------------------- inputs ---------------------------------
Defaults(t) == CASE t = "object" -> {V(k, Dflt) : k \in {"object", "json", "list", "string", "int"}}
                 [] t = "int" -> {V("int", Dflt), V("int", Wide)}
                 [] OTHER -> {V(t, Dflt)}

Contexts(a) ==
    {c \in [key : {"none", "string", "empty", "number", "map"},
            attrs : {"none", "scalar", "dotted", "nested", "keyed", "multi", "multi_keyless"},
            feature : {"none", "config", "unknown"},
            cancelled : BOOLEAN] :
       /\ c.feature # "none" => a = "statsig"
       /\ c.cancelled => a = "launchdarkly"}

RequestsOf(a) == UNION {[type : {t}, def : Defaults(t), ctx : Contexts(a)] : t \in Types}

Strings == {V("string", n) : n \in {0, 2, 3, Word, Json, Text}}
Floats == {V("float", 3), V("float", 4)}
Values == Strings \cup Floats \cup {V("bool", 0), V("bool", 1), V("int", 4), V("object", Json)}
OfKind(k) == {v \in Values : v.k = k}

Ans(out, code, vals) == [out : {out}, code : {code}, val : vals, flag : {<<>>}]
Errors(codes) == UNION {Ans("error", c, {Nil}) : c \in codes}
Outcomes(outs) == UNION {Ans(o, Blank, {Nil}) : o \in outs}

\* What a client that is given the default returns: a value of its kind.
TypedValues(r) == IF r.def.k = "json" THEN OfKind("object") ELSE OfKind(r.def.k)
StatsigValues(r) == IF r.def.k = "int" THEN Floats ELSE TypedValues(r)

Variants == [default : BOOLEAN, match : {"always", "keyed", "never"},
             val : {V("bool", 1), V("float", 3), V("string", Text)}]
StoredFlags == {<<>>} \cup {<<v>> : v \in Variants}
                 \cup {<<v, w>> : v \in Variants, w \in {x \in Variants : x.val.k # "bool"}}

\* External: everything a backend may answer.
Answers(a, r) ==
    CASE a = "ofrep" -> Ans("200", Blank, (Values \ OfKind("int")) \cup {Nil})
             \cup (UNION {Ans("400", c, {Nil}) : c \in {"PARSE_ERROR", "TARGETING_KEY_MISSING", "INVALID_CONTEXT",
                                                        "GENERAL", "OTHER"}})
             \cup Outcomes({"disabled", "200_bad_body", "200_bad_metadata", "401", "404", "429", "500", "transport"})
      [] a \in {"harness", "prefab"} -> Ans("value", Blank, TypedValues(r)) \cup Errors({"SDK"})
      [] a = "unleash" -> IF r.type = "bool" THEN Ans("value", Blank, OfKind("bool")) \cup Outcomes({"fallback"})
                          ELSE Ans("value", Blank, Strings) \cup Outcomes({"disabled"})
      [] a = "statsig" -> Ans("value", Blank, StatsigValues(r)) \cup Outcomes({"fallback"})
      [] a = "launchdarkly" -> Ans("value", Blank, TypedValues(r)) \cup Ans("disabled", Blank, TypedValues(r))
             \cup Errors({"CLIENT_NOT_READY", "FLAG_NOT_FOUND", "MALFORMED_FLAG", "USER_NOT_SPECIFIED", "WRONG_TYPE", "EXCEPTION"})
      [] a = "flipt" -> Errors({"NotFound", "InvalidArgument", "Unavailable", "Internal"})
             \cup IF r.type = "bool" THEN Ans("value", Blank, OfKind("bool"))
                  ELSE Outcomes({"disabled", "no_match"})
                         \cup UNION {Ans(o, Blank, Strings \cup {V("string", Empty)}) : o \in {"match", "default_variant"}}
      [] a = "flagsmith" -> Ans("value", Blank, Strings \cup Floats \cup OfKind("bool"))
             \cup Errors({"SDK"}) \cup Outcomes({"missing", "disabled"})
      [] a = "optimizely" -> Ans("one", Blank, Values) \cup Outcomes({"not_ready", "missing", "disabled", "none", "many"})
      [] a = "configcat" -> Errors({"KEY_NOT_FOUND", "SETTING_TYPE", "CONFIG_MISSING", "OTHER"})
             \cup UNION {Ans(o, Blank, {Nil} \cup IF r.type = "object" THEN Strings ELSE OfKind(r.type)) : o \in {"value", "match"}}
      [] a = "from-env" -> Outcomes({"missing", "bad_json"})
             \cup [out : {"flag"}, code : {Blank}, val : {Nil}, flag : StoredFlags]
      [] a = "aws-ssm" -> Ans("value", Blank, Strings \cup {V("string", Empty)}) \cup Errors({"SDK"})
      [] a = "rocketflag" -> Ans("value", Blank, OfKind("bool")) \cup Errors({"SDK"})
      [] a = "goff-in-process" -> Ans("value", Blank, Values \cup {Nil}) \cup Errors(GoffCodes \cup {"OTHER"})
             \cup Ans("error", "OTHER", {r.def})
      [] a = "flagd-in-process" -> Ans("value", Blank, IF r.type = "object" THEN OfKind("object") ELSE OfKind(r.type))
             \cup Errors({"FLAG_NOT_FOUND", "TYPE_MISMATCH", "PARSE_ERROR", "GENERAL"})
             \cup Outcomes({"disabled", "fallback"})

\* ------------------------------ Init, Shutdown ---------------------------
NoRequest == [type |-> "none", def |-> Nil]
NoAnswer == [out |-> "none", code |-> Blank, val |-> Nil, flag |-> <<>>]
NoResult == [val |-> Nil, err |-> "none", reason |-> Blank]

Init == /\ adapter \in AdapterNames
        /\ option \in Options(adapter)
        /\ status = "NotReady"
        /\ client = IF adapter \in Stateful \cup {"flipt"} THEN "none" ELSE "open"
        /\ stage = "idle" /\ inits = 0
        /\ pc = "idle" /\ req = NoRequest /\ answer = NoAnswer /\ res = NoResult
        /\ used = "none" /\ overlap = FALSE

\* A panic of the one or the other ends the program.
In(s) == stage = s /\ pc # "aborted"
At(p) == pc = p /\ stage # "crashed"

\* A step of Init or Shutdown leaves the evaluation alone but for the ghost.
Overlaps == /\ overlap' = (pc # "idle" \/ overlap)
            /\ UNCHANGED <<pc, req, answer, res, used>>

InitFails == /\ adapter \in Stateful /\ In("idle") /\ inits < MaxInits
             /\ status' = "Error"
             /\ inits' = inits + 1
             /\ UNCHANGED <<adapter, option, client, stage>>
             /\ Overlaps

\* The first and the second of the two writes of a successful Init.  A second
\* Init opens a new client: for Harness and Prefab the code makes one; that the
\* package-level clients of Unleash and Statsig can be opened again after their
\* Close is an assumption on these vendors.
InitPublishes == /\ adapter \in Stateful /\ In("idle") /\ inits < MaxInits
                 /\ stage' = "publishing"
                 /\ IF adapter \in StatusFirst THEN status' = "Ready" /\ UNCHANGED client
                                               ELSE client' = "open" /\ UNCHANGED status
                 /\ inits' = inits + 1
                 /\ UNCHANGED <<adapter, option>>
                 /\ Overlaps
InitEnds == /\ In("publishing")
            /\ stage' = "idle"
            /\ IF adapter \in StatusFirst THEN client' = "open" /\ UNCHANGED status
                                          ELSE status' = "Ready" /\ UNCHANGED client
            /\ UNCHANGED <<adapter, option, inits>>
            /\ Overlaps

\* Prefab's client has no Close, LaunchDarkly and Optimizely close on demand.
Closes == \/ adapter \in {"harness", "unleash", "statsig", "goff-in-process"}
          \/ option = "close"
ShutdownCloses == /\ In("idle")
                  /\ adapter \in Stateful \/ Closes
                  /\ ~ (adapter = "harness" /\ client = "none")
                  /\ client' = IF Closes /\ client = "open" THEN "closed" ELSE client
                  /\ stage' = IF adapter \in Stateful THEN "closing" ELSE "idle"
                  /\ Overlaps
                  /\ UNCHANGED <<adapter, option, status, inits>>
\* Harness calls Close on the client that no Init has made.
ShutdownCrashes == /\ In("idle") /\ adapter = "harness" /\ client = "none"
                   /\ stage' = "crashed"
                   /\ UNCHANGED <<adapter, option, status, client, inits, evalVars>>
ShutdownKeepsStatus == /\ In("closing")
                       /\ stage' = "idle"
                       /\ Overlaps
                       /\ UNCHANGED <<adapter, option, status, client, inits>>
ShutdownEnds == /\ In("closing")
                /\ stage' = "idle"
                /\ status' = "NotReady"
                /\ Overlaps
                /\ UNCHANGED <<adapter, option, client, inits>>

\* ------------------------------ evaluations ------------------------------
Returns(r) == pc' = "returned" /\ res' = r

Begin == /\ At("idle")
         /\ req' \in RequestsOf(adapter)
         /\ pc' = "check"
         /\ overlap' = (stage \in {"closing", "publishing"})
         /\ UNCHANGED <<lifeVars, answer, res, used>>

\* verifyState of Harness and Prefab, the first lines of Unleash and Statsig.
StatusError == IF adapter \notin Stateful \/ status = "Ready" THEN "none"
               ELSE IF status = "NotReady" THEN "PROVIDER_NOT_READY" ELSE "GENERAL"
\* Statsig's BooleanEvaluation goes on in ObjectEvaluation, which checks again.
ChecksAgain == adapter = "statsig" /\ req.type = "bool" /\ toFeatureConfig(req.ctx)

Verify == /\ At("check")
          /\ \/ StatusError # "none" /\ Returns(Failed(req, StatusError))
             \/ /\ StatusError = "none" /\ ContextError(adapter, req) # "none"
                /\ Returns(ContextFailure(adapter, req))
             \/ /\ StatusError = "none" /\ ContextError(adapter, req) = "none"
                /\ pc' = IF ChecksAgain THEN "recheck" ELSE "call"
                /\ UNCHANGED res
          /\ UNCHANGED <<lifeVars, req, answer, used, overlap>>
VerifyAgain == /\ At("recheck")
               /\ \/ StatusError # "none" /\ Returns(Failed(req, StatusError))
                  \/ StatusError = "none" /\ pc' = "call" /\ UNCHANGED res
               /\ UNCHANGED <<lifeVars, req, answer, used, overlap>>

\* Flipt's Service.instance: once makes the client, also after a failed dial,
\* whose error only this evaluation sees.
instance == /\ At("call") /\ adapter = "flipt" /\ client = "none"
            /\ \/ /\ option \in {"http", "grpc"}
                  /\ client' = "open"
                  /\ UNCHANGED <<pc, res>>
               \/ /\ option = "undialable"
                  /\ client' = "hollow"
                  /\ Returns(FliptError(req, "GENERAL"))
               \/ /\ option = "unparsable"
                  /\ pc' = "aborted"
                  /\ UNCHANGED <<client, res>>
            /\ UNCHANGED <<adapter, option, status, stage, inits, req, answer, used, overlap>>

Call == /\ At("call") /\ client \in {"open", "closed"}
        /\ answer' \in Answers(adapter, req)
        /\ Returns(Resolve(adapter, option, req, answer'))
        /\ used' = client
        /\ UNCHANGED <<lifeVars, req, overlap>>

\* A method of a nil client: Flipt's over a nil connection, Harness's and
\* Prefab's between the two writes of Init.
CallPanics == /\ At("call")
              /\ client = "hollow" \/ (client = "none" /\ adapter \in StatusFirst)
              /\ pc' = "aborted"
              /\ used' = client
              /\ UNCHANGED <<lifeVars, req, answer, res, overlap>>

Finish == /\ At("returned")
          /\ pc' = "idle" /\ req' = NoRequest /\ answer' = NoAnswer /\ res' = NoResult
          /\ used' = "none" /\ overlap' = FALSE
          /\ UNCHANGED lifeVars

Next == \/ InitFails \/ InitPublishes \/ InitEnds
        \/ ShutdownCloses \/ ShutdownCrashes \/ ShutdownEnds
        \/ Begin \/ Verify \/ VerifyAgain \/ instance \/ Call \/ CallPanics \/ Finish
Spec == Init /\ [][Next]_vars

\* ------------------------------ properties -------------------------------
Codes == {"PROVIDER_NOT_READY", "FLAG_NOT_FOUND", "PARSE_ERROR", "TYPE_MISMATCH",
          "TARGETING_KEY_MISSING", "INVALID_CONTEXT", "GENERAL"}

\* The state is well formed, and an adapter that reports an error uses one of
\* OpenFeature's codes, never its vendor's.
TypeOK == /\ adapter \in AdapterNames /\ option \in Options(adapter)
          /\ status \in {"NotReady", "Ready", "Error"}
          /\ client \in {"none", "open", "closed", "hollow"}
          /\ stage \in {"idle", "publishing", "closing", "crashed"}
          /\ inits \in 0..MaxInits
          /\ pc \in {"idle", "check", "recheck", "call", "returned", "aborted"}
          /\ res.err \in Codes \cup {"none"}
          /\ used \in {"none", "open", "closed", "hollow"}
          /\ overlap \in BOOLEAN

Answered == pc = "returned" /\ answer # NoAnswer

\* w says what v says: the same number, word or object, or the truth value a
\* string stands for.  Statsig, Flagsmith and from-env drop the fraction of a
\* number that is asked for as an integer.
Lossy(a, r) == r.type = "int" /\ a \in {"statsig", "flagsmith", "from-env"}
SameValue(a, r, v, w) ==
    \/ w.n = v.n
    \/ w.k = "bool" /\ v.k = "string" /\ ParsesAsBool(v) /\ w.n = BoolValue(v).n
    \/ Lossy(a, r) /\ w.n = Truncated(v).n

\* Where an adapter has a value v and returns something else without an error:
\* AWS SSM decodes no object (aws.go:182), Prefab none whose default is of
\* another kind (provider.go:262); both return the default, as Flipt does for an
\* empty attachment.  A bool of Flagsmith is the state of the flag, on demand.
Withheld(a, opt, r, v) ==
    \/ a = "aws-ssm" /\ r.type = "object"
    \/ a = "prefab" /\ r.type = "object" /\ r.def.k \notin {"object", "list", "string"}
    \/ a = "flipt" /\ r.type = "object" /\ v.n = Empty
    \/ a = "flagsmith" /\ opt = "enabled" /\ r.type = "bool"

\* The variant of a stored flag that counts: the first that matches the context,
\* or, where none does, the last that is marked as the default.
Counts(flag, ctx, i) ==
    IF \E j \in DOMAIN flag : Matches(flag[j], ctx)
    THEN Matches(flag[i], ctx) /\ \A j \in DOMAIN flag : j < i => ~ Matches(flag[j], ctx)
    ELSE flag[i].default /\ \A j \in DOMAIN flag : j > i => ~ flag[j].default

\* Without an error the value returned is the backend's wherever it has one; a
\* default in its place passes only where Withheld says so.  from-env always
\* returns the value of the variant that counts.
ValueIsAnswer ==
    Answered /\ res.err = "none" =>
        IF adapter = "from-env"
        THEN \E i \in DOMAIN answer.flag :
                /\ Counts(answer.flag, req.ctx, i)
                /\ SameValue(adapter, req, answer.flag[i].val, res.val)
        ELSE answer.val = Nil \/ Withheld(adapter, option, req, answer.val)
               \/ SameValue(adapter, req, answer.val, res.val)

\* A failure of the backend is an error of the evaluation, never a silent
\* default: except where the adapter drops its client's error (Harness and
\* Prefab) or does not know its code (GO Feature Flag in process).
FailureOuts == {"error", "missing", "bad_json", "not_ready", "200_bad_body", "200_bad_metadata",
                "400", "401", "404", "429", "500", "transport"}
FailureReported ==
    Answered /\ answer.out \in FailureOuts /\ res.err = "none"
      => \/ adapter \in {"harness", "prefab"}
         \/ adapter = "goff-in-process" /\ answer.code \notin GoffCodes

\* The same failure has the same code whatever type the application asked
\* for: except for an integer of from-env, whose default is taken for a wrong
\* value, so that a missing flag is reported as a type mismatch.
UniformErrors ==
    Answered /\ answer.out \in FailureOuts
      => \/ \A t \in Types \ {"bool"} :
               LET r == [req EXCEPT !.type = t, !.def = V(IF t = "object" THEN "object" ELSE t, Dflt)]
               IN \/ Resolve(adapter, option, r, answer).err = res.err
                  \/ adapter = "from-env" /\ "int" \in {t, req.type}
         \/ adapter = "goff-in-process" /\ answer.code \notin GoffCodes

\* A closed client is called only by an evaluation that a Shutdown overlaps, or
\* a later Init, which publishes the status before the new client:
\* except by the adapters that keep no status of their own.
ClosedUse == used = "closed" => overlap \/ adapter \notin Stateful

\* Refinement: every evaluation keeps the contract of a provider, and ends the
\* program only with an address that cannot be used or between the two
\* writes of an Init that publishes the status first.
Contract == INSTANCE ProviderContract WITH
    Codes <- Codes,
    phase <- IF pc \in {"check", "recheck", "call"} THEN "evaluating" ELSE pc,
    request <- req, result <- res,
    usable <- stage # "publishing" /\ option \notin {"undialable", "unparsable"}
KeepsContract == Contract!ContractSpec

\* The resolution an adapter returns conveys the answer of its backend: its
\* value, but where it is Withheld, or its failure, alike for every type that is
\* asked for, but for the adapters the three parts name.
AnswerConveyed == TypeOK /\ ValueIsAnswer /\ FailureReported /\ UniformErrors

=============================================================================
