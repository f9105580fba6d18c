----------------------- MODULE FlagdConfigurationProofs -----------------------
(***************************************************************************)
(* Proofs about FlagdConfiguration for every set of text and number fields *)
(* and every number of options: which setting of a field wins, and where   *)
(* the provider that is built connects to.                                 *)
(***************************************************************************)
EXTENDS FlagdConfiguration, TLAPS

Fields == TextFields \cup IntFields \cup OwnFields

(***************************************************************************)
(* The inductive invariant.                                                *)
(***************************************************************************)

\* The values that a field may have
Fit(f, v) ==
    /\ f \in IntFields => v \in {DefaultInt, OptionInt, EnvInt}
    /\ f = "Port" => v \in Ports
    /\ f = "Resolver" => v \in {"rpc", "in-process", "file"}
    /\ f = "CustomSync" => v \in BOOLEAN

Inputs ==
    env \in Environments /\ applied \in Seq(Options) /\ stage \in {"options", "built", "refused"}

Shaped == DOMAIN cfg = Fields /\ cfg = [f \in Fields |-> cfg[f]]

FieldsFit == \A f \in Fields : Fit(f, cfg[f])

\* A field that some option sets has a last one that does
HasLast ==
    \A f \in Fields : Setters(f) # {} =>
        \E i \in Setters(f) : \A j \in Setters(f) : j <= i

\* While the options are applied every field has the value of the last setter,
\* the port and the resolver too; building changes these two
ValuesInv ==
    \A f \in Fields : stage = "options" \/ f \notin {"Port", "Resolver"} => cfg[f] = Value(f)

ResolverBuilt ==
    stage # "options"
      => cfg.Resolver = IF Value("Resolver") = "in-process" /\ cfg.OfflineFlagSourcePath # NoText
                        THEN "file" ELSE Value("Resolver")

ConfigInv ==
    /\ Inputs /\ Shaped /\ FieldsFit /\ HasLast /\ ValuesInv /\ ResolverBuilt
    /\ ConnectsToPort /\ FileSource

-----------------------------------------------------------------------------
(* What an option assigns and what it says *)

\* What the environment variables may be
LEMMA EnvTypes ==
    ASSUME NEW e \in Environments
    PROVE  /\ e.ints \in [IntFields -> {Malformed, EnvInt}]
           /\ e.tls \in BOOLEAN /\ e.cert \in {NoText, "env"}
           /\ e.resolver \in {NoText, "in-process", "file", "invalid"}
           /\ e.cache \in {NoText, "mem", "invalid"}
           /\ e.port \in {Unset, 9000, 65536} /\ e.syncPort \in {Unset, Malformed, 65537}
<1>1. e.ints \in [IntFields -> {Malformed, EnvInt}]
  BY DEF Environments
<1>2. e.tls \in BOOLEAN
  BY DEF Environments
<1>3. /\ e.cert \in {NoText, "env"} /\ e.resolver \in {NoText, "in-process", "file", "invalid"}
      /\ e.cache \in {NoText, "mem", "invalid"}
  BY DEF Environments
<1>4. e.port \in {Unset, 9000, 65536} /\ e.syncPort \in {Unset, Malformed, 65537}
  BY DEF Environments
<1>5. QED
  BY <1>1, <1>2, <1>3, <1>4

\* The defaults have every field and fit
LEMMA DefaultFacts ==
    /\ DOMAIN Defaults = Fields
    /\ \A f \in Fields : Fit(f, Defaults[f])
    /\ \A f \in IntFields : Defaults[f] = DefaultInt
    /\ Defaults["CertPath"] = NoText /\ Defaults["Cache"] = "lru" /\ Defaults["Resolver"] = "rpc"
<1>1. /\ TextFields \cap IntFields = {} /\ (TextFields \cup IntFields) \cap OwnFields = {}
      /\ OwnFields = {"Cache", "Tls", "CertPath", "Resolver", "Port", "CustomSync"}
  BY FieldsAssumption DEF OwnFields
<1> DEFINE own == [Cache |-> "lru", Tls |-> FALSE, CertPath |-> NoText, Resolver |-> "rpc", Port |-> 0,
                   CustomSync |-> FALSE]
<1>2. /\ DOMAIN own = OwnFields
      /\ own["CertPath"] = NoText /\ own["Cache"] = "lru" /\ own["Resolver"] = "rpc" /\ own["Port"] = 0
      /\ own["CustomSync"] = FALSE
  BY DEF OwnFields
<1> HIDE DEF own
<1>3. Defaults = Over([f \in TextFields |-> IF f = "Host" THEN "localhost" ELSE NoText],
                      Over([f \in IntFields |-> DefaultInt], own))
  BY DEF Defaults, own
<1>4. DOMAIN Defaults = Fields
  BY <1>2, <1>3 DEF Over, Fields
<1>5. \A f \in IntFields : Defaults[f] = DefaultInt
  BY <1>1, <1>3 DEF Over
<1>6. \A f \in OwnFields : Defaults[f] = own[f]
  BY <1>1, <1>2, <1>3 DEF Over
<1>7. \A f \in Fields : Fit(f, Defaults[f])
  <2>1. Defaults["CustomSync"] \in BOOLEAN
    BY <1>1, <1>2, <1>6
  <2>2. Defaults["Port"] = 0 /\ Defaults["Resolver"] = "rpc"
    BY <1>1, <1>2, <1>6
  <2>3. Defaults["Port"] \in Ports
    BY <2>2 DEF Ports
  <2>4. QED
    BY <1>5, <2>1, <2>2, <2>3 DEF Fit
<1>8. Defaults["CertPath"] = NoText /\ Defaults["Cache"] = "lru" /\ Defaults["Resolver"] = "rpc"
  BY <1>1, <1>2, <1>6
<1>9. QED
  BY <1>4, <1>5, <1>7, <1>8

\* The parts of an environment's configuration have fields of their own
LEMMA EnvDomains ==
    ASSUME NEW e \in Environments
    PROVE  /\ DOMAIN EnvTexts(e) \subseteq TextFields
           /\ DOMAIN EnvInts(e) = IntFields
           /\ DOMAIN EnvTls(e) = IF e.cert # NoText \/ e.tls THEN {"Tls", "CertPath"} ELSE {}
           /\ DOMAIN EnvCache(e) \subseteq {"Cache"}
           /\ DOMAIN EnvResolver(e) \subseteq {"Resolver"}
           /\ DOMAIN SaidInts(e) \subseteq IntFields
           /\ DOMAIN SaidCache(e) \subseteq {"Cache"} /\ DOMAIN SaidResolver(e) \subseteq {"Resolver"}
           /\ DOMAIN SaidTls(e) = IF e.cert # NoText THEN {"Tls", "CertPath"}
                                  ELSE IF e.tls THEN {"Tls"} ELSE {}
<1>1. DOMAIN EnvTexts(e) \subseteq TextFields /\ DOMAIN EnvInts(e) = IntFields
  BY DEF EnvTexts, EnvInts
<1>2. DOMAIN EnvTls(e) = IF e.cert # NoText \/ e.tls THEN {"Tls", "CertPath"} ELSE {}
  BY DEF EnvTls
<1>3. DOMAIN EnvCache(e) \subseteq {"Cache"} /\ DOMAIN EnvResolver(e) \subseteq {"Resolver"}
  <2>1. CASE e.cache = NoText \/ e.resolver = NoText
    BY <2>1 DEF EnvCache, EnvResolver
  <2>2. CASE e.cache # NoText /\ e.resolver # NoText
    BY <2>2 DEF EnvCache, EnvResolver
  <2>3. QED
    BY <2>1, <2>2
<1>4. DOMAIN SaidInts(e) \subseteq IntFields
  BY DEF SaidInts
<1>5. DOMAIN SaidTls(e) = IF e.cert # NoText THEN {"Tls", "CertPath"} ELSE IF e.tls THEN {"Tls"} ELSE {}
  BY DEF SaidTls, EnvTls
<1>6. DOMAIN SaidCache(e) \subseteq {"Cache"} /\ DOMAIN SaidResolver(e) \subseteq {"Resolver"}
  BY <1>3 DEF SaidCache, SaidResolver
<1>7. QED
  BY <1>1, <1>2, <1>3, <1>4, <1>5, <1>6

\* The cache and the resolver, where the variable has a known value
LEMMA EnvChoices ==
    ASSUME NEW e \in Environments, NEW f
    PROVE  /\ f \in DOMAIN SaidCache(e) =>
                 f \in DOMAIN EnvCache(e) /\ EnvCache(e)[f] = SaidCache(e)[f]
           /\ f \in DOMAIN SaidResolver(e) =>
                 f \in DOMAIN EnvResolver(e) /\ EnvResolver(e)[f] = SaidResolver(e)[f]
           /\ f \in DOMAIN EnvCache(e) /\ f \notin DOMAIN SaidCache(e) =>
                 f = "Cache" /\ e.cache = "invalid" /\ EnvCache(e)[f] = "lru"
           /\ f \in DOMAIN EnvResolver(e) /\ f \notin DOMAIN SaidResolver(e) =>
                 f = "Resolver" /\ e.resolver = "invalid" /\ EnvResolver(e)[f] = "rpc"
           /\ e.cache = "invalid" => "Cache" \in DOMAIN EnvCache(e)
           /\ e.resolver = "invalid" => "Resolver" \in DOMAIN EnvResolver(e)
<1>1. ASSUME e.cache = "invalid"
      PROVE  SaidCache(e) = <<>> /\ EnvCache(e) = [Cache |-> "lru"]
  BY <1>1 DEF SaidCache, EnvCache, NoText
<1>2. ASSUME e.resolver = "invalid"
      PROVE  SaidResolver(e) = <<>> /\ EnvResolver(e) = [Resolver |-> "rpc"]
  BY <1>2 DEF SaidResolver, EnvResolver, NoText
<1>3. /\ f \in DOMAIN SaidCache(e) =>
            f \in DOMAIN EnvCache(e) /\ EnvCache(e)[f] = SaidCache(e)[f]
      /\ f \in DOMAIN EnvCache(e) /\ f \notin DOMAIN SaidCache(e) =>
            f = "Cache" /\ e.cache = "invalid" /\ EnvCache(e)[f] = "lru"
      /\ e.cache = "invalid" => "Cache" \in DOMAIN EnvCache(e)
  BY <1>1 DEF SaidCache
<1>4. /\ f \in DOMAIN SaidResolver(e) =>
            f \in DOMAIN EnvResolver(e) /\ EnvResolver(e)[f] = SaidResolver(e)[f]
      /\ f \in DOMAIN EnvResolver(e) /\ f \notin DOMAIN SaidResolver(e) =>
            f = "Resolver" /\ e.resolver = "invalid" /\ EnvResolver(e)[f] = "rpc"
      /\ e.resolver = "invalid" => "Resolver" \in DOMAIN EnvResolver(e)
  BY <1>2 DEF SaidResolver
<1>5. QED
  BY <1>3, <1>4

\* What FromEnv assigns is what the environment says, and the resets
LEMMA EnvAssigns ==
    ASSUME NEW e \in Environments, NEW f
    PROVE  /\ f \in DOMAIN Said(FromEnv, e) =>
                 /\ f \in DOMAIN updateFromEnvVar(e)
                 /\ updateFromEnvVar(e)[f] = Said(FromEnv, e)[f]
           /\ f \in DOMAIN updateFromEnvVar(e) /\ f \notin DOMAIN Said(FromEnv, e) =>
                 Reset(f, e) /\ updateFromEnvVar(e)[f] = Defaults[f]
           /\ Reset(f, e) => f \in DOMAIN updateFromEnvVar(e)
           /\ f \in DOMAIN updateFromEnvVar(e) =>
                 f \in Fields /\ f \notin {"Port", "CustomSync"}
<1> DEFINE u == updateFromEnvVar(e)
           s == Said(FromEnv, e)
<1>1. /\ DOMAIN EnvTexts(e) \subseteq TextFields /\ DOMAIN EnvInts(e) = IntFields
      /\ DOMAIN EnvTls(e) = IF e.cert # NoText \/ e.tls THEN {"Tls", "CertPath"} ELSE {}
      /\ DOMAIN EnvCache(e) \subseteq {"Cache"} /\ DOMAIN EnvResolver(e) \subseteq {"Resolver"}
      /\ DOMAIN SaidInts(e) \subseteq IntFields
      /\ DOMAIN SaidCache(e) \subseteq {"Cache"} /\ DOMAIN SaidResolver(e) \subseteq {"Resolver"}
      /\ DOMAIN SaidTls(e) = IF e.cert # NoText THEN {"Tls", "CertPath"}
                             ELSE IF e.tls THEN {"Tls"} ELSE {}
  BY EnvDomains
<1>2. /\ TextFields \cap IntFields = {} /\ (TextFields \cup IntFields) \cap OwnFields = {}
      /\ OwnFields = {"Cache", "Tls", "CertPath", "Resolver", "Port", "CustomSync"}
  BY FieldsAssumption DEF OwnFields
<1>3. e.ints \in [IntFields -> {Malformed, EnvInt}] /\ e.tls \in BOOLEAN /\ e.cert \in {NoText, "env"}
  BY EnvTypes
<1>4. u = Over(EnvTexts(e), Over(EnvInts(e), Over(EnvTls(e), Over(EnvCache(e), EnvResolver(e)))))
  BY DEF updateFromEnvVar
<1>5. s = Over(EnvTexts(e), Over(SaidInts(e), Over(SaidTls(e), Over(SaidCache(e), SaidResolver(e)))))
  BY DEF Said
<1>6. DOMAIN u = DOMAIN EnvTexts(e) \cup DOMAIN EnvInts(e) \cup DOMAIN EnvTls(e)
                   \cup DOMAIN EnvCache(e) \cup DOMAIN EnvResolver(e)
  BY <1>4 DEF Over
<1>7. DOMAIN s = DOMAIN EnvTexts(e) \cup DOMAIN SaidInts(e) \cup DOMAIN SaidTls(e)
                   \cup DOMAIN SaidCache(e) \cup DOMAIN SaidResolver(e)
  BY <1>5 DEF Over
<1>8. /\ f \in DOMAIN EnvTexts(e) => u[f] = EnvTexts(e)[f] /\ s[f] = EnvTexts(e)[f]
      /\ f \in DOMAIN EnvInts(e) => u[f] = EnvInts(e)[f]
      /\ f \in DOMAIN EnvTls(e) => u[f] = EnvTls(e)[f]
      /\ f \in DOMAIN EnvCache(e) => u[f] = EnvCache(e)[f]
      /\ f \in DOMAIN EnvResolver(e) => u[f] = EnvResolver(e)[f]
      /\ f \in DOMAIN SaidCache(e) => s[f] = SaidCache(e)[f]
      /\ f \in DOMAIN SaidResolver(e) => s[f] = SaidResolver(e)[f]
      /\ f \in DOMAIN SaidInts(e) => s[f] = SaidInts(e)[f]
      /\ f \in DOMAIN SaidTls(e) => s[f] = SaidTls(e)[f]
  BY <1>1, <1>2, <1>4, <1>5 DEF Over
<1> HIDE DEF u, s
<1>9. f \in DOMAIN SaidInts(e) => EnvInts(e)[f] = SaidInts(e)[f]
  BY <1>1 DEF SaidInts, EnvInts, getIntFromEnvVarOrDefault
<1>10. f \in IntFields /\ f \notin DOMAIN SaidInts(e) => EnvInts(e)[f] = DefaultInt
  BY DEF SaidInts, EnvInts, getIntFromEnvVarOrDefault
<1>11. f \in DOMAIN SaidTls(e) => f \in DOMAIN EnvTls(e) /\ EnvTls(e)[f] = SaidTls(e)[f]
  <2>1. CASE e.cert # NoText
    BY <2>1 DEF SaidTls
  <2>2. CASE e.cert = NoText /\ e.tls
    <3>1. EnvTls(e) = [Tls |-> TRUE, CertPath |-> e.cert] /\ SaidTls(e) = [Tls |-> TRUE]
      BY <2>2 DEF EnvTls, SaidTls
    <3>2. EnvTls(e)["Tls"] = TRUE /\ SaidTls(e)["Tls"] = TRUE
      BY <3>1
    <3>3. QED
      BY <1>1, <2>2, <3>2
  <2>3. CASE e.cert = NoText /\ ~e.tls
    BY <1>1, <2>3
  <2>4. QED
    BY <1>3, <2>1, <2>2, <2>3
<1>12. f \in DOMAIN EnvTls(e) /\ f \notin DOMAIN SaidTls(e) =>
          f = "CertPath" /\ e.tls /\ e.cert = NoText /\ EnvTls(e)[f] = NoText
  <2>1. CASE e.cert # NoText \/ ~e.tls
    BY <1>1, <2>1
  <2>2. CASE e.cert = NoText /\ e.tls
    <3>1. EnvTls(e) = [Tls |-> TRUE, CertPath |-> e.cert]
      BY <2>2 DEF EnvTls
    <3>2. EnvTls(e)["CertPath"] = NoText
      BY <2>2, <3>1
    <3>3. QED
      BY <1>1, <2>2, <3>2
  <2>3. QED
    BY <1>3, <2>1, <2>2
<1>13. f \in DOMAIN s => f \in DOMAIN u /\ u[f] = s[f]
  BY <1>1, <1>6, <1>7, <1>8, <1>9, <1>11, EnvChoices
<1>14. f \in DOMAIN u /\ f \notin DOMAIN s => Reset(f, e) /\ u[f] = Defaults[f]
  <2>1. CASE f \in DOMAIN EnvTexts(e)
    BY <1>7, <2>1
  <2>2. CASE f \in DOMAIN EnvInts(e)
    BY <1>1, <1>7, <1>8, <1>10, <2>2, DefaultFacts DEF Reset
  <2>3. CASE f \in DOMAIN EnvTls(e)
    BY <1>7, <1>8, <1>12, <2>3, DefaultFacts DEF Reset
  <2>4. CASE f \in DOMAIN EnvCache(e)
    BY <1>7, <1>8, <2>4, EnvChoices, DefaultFacts DEF Reset
  <2>5. CASE f \in DOMAIN EnvResolver(e)
    BY <1>7, <1>8, <2>5, EnvChoices, DefaultFacts DEF Reset
  <2>6. QED
    BY <1>6, <2>1, <2>2, <2>3, <2>4, <2>5
<1>15. Reset(f, e) => f \in DOMAIN u
  BY <1>1, <1>6, EnvChoices DEF Reset
<1>16. f \in DOMAIN u => f \in Fields /\ f \notin {"Port", "CustomSync"}
  BY <1>1, <1>2, <1>6 DEF Fields
<1>17. QED
  BY <1>13, <1>14, <1>15, <1>16 DEF u, s

\* The environment assigns values that fit
LEMMA EnvFits ==
    ASSUME NEW e \in Environments, NEW f \in DOMAIN updateFromEnvVar(e)
    PROVE  f \in Fields /\ Fit(f, updateFromEnvVar(e)[f])
<1> DEFINE u == updateFromEnvVar(e)
<1>1. f \in Fields /\ f \notin {"Port", "CustomSync"}
  BY EnvAssigns
<1>2. /\ DOMAIN EnvTexts(e) \subseteq TextFields /\ DOMAIN EnvInts(e) = IntFields
      /\ DOMAIN EnvTls(e) \subseteq {"Tls", "CertPath"}
      /\ DOMAIN EnvCache(e) \subseteq {"Cache"} /\ DOMAIN EnvResolver(e) \subseteq {"Resolver"}
  BY EnvDomains
<1>3. /\ TextFields \cap IntFields = {} /\ (TextFields \cup IntFields) \cap OwnFields = {}
      /\ OwnFields = {"Cache", "Tls", "CertPath", "Resolver", "Port", "CustomSync"}
  BY FieldsAssumption DEF OwnFields
<1>4. u = Over(EnvTexts(e), Over(EnvInts(e), Over(EnvTls(e), Over(EnvCache(e), EnvResolver(e)))))
  BY DEF updateFromEnvVar
<1>5. /\ f \in IntFields => u[f] = EnvInts(e)[f]
      /\ f = "Resolver" => f \in DOMAIN EnvResolver(e) /\ u[f] = EnvResolver(e)[f]
  BY <1>2, <1>3, <1>4 DEF Over
<1> HIDE DEF u
<1>6. f \in IntFields => EnvInts(e)[f] \in {DefaultInt, EnvInt}
  BY EnvTypes DEF EnvInts, getIntFromEnvVarOrDefault
<1>7. "Resolver" \in DOMAIN EnvResolver(e) =>
         EnvResolver(e)["Resolver"] \in {"rpc", "in-process", "file"}
  <2>1. e.resolver \in {NoText, "in-process", "file", "invalid"}
    BY EnvTypes
  <2>2. CASE e.resolver = NoText
    BY <2>2 DEF EnvResolver
  <2>3. CASE e.resolver # NoText
    BY <2>1, <2>3 DEF EnvResolver
  <2>4. QED
    BY <2>2, <2>3
<1>8. Fit(f, u[f])
  BY <1>1, <1>3, <1>5, <1>6, <1>7 DEF Fit
<1>9. QED
  BY <1>1, <1>8 DEF u

\* So does every option
LEMMA OptionFits ==
    ASSUME NEW e \in Environments, NEW o \in Options, NEW f \in DOMAIN Assigns(o, e)
    PROVE  f \in Fields /\ Fit(f, Assigns(o, e)[f])
<1>1. CASE o = FromEnv
  BY <1>1, EnvFits DEF Assigns
<1>2. CASE o # FromEnv
  <2>1. Assigns(o, e) = o /\ f \in DOMAIN o
    BY <1>2 DEF Assigns
  <2>2. /\ TextFields \cap IntFields = {} /\ (TextFields \cup IntFields) \cap OwnFields = {}
        /\ OwnFields = {"Cache", "Tls", "CertPath", "Resolver", "Port", "CustomSync"}
        /\ "MaxCacheSize" \in IntFields
    BY FieldsAssumption DEF OwnFields
  <2>3. CASE o \in WithText
    <3>1. f \in TextFields
      <4>1. PICK g \in TextFields : o = [h \in {g} |-> "option"]
        BY <2>3 DEF WithText
      <4>2. QED
        BY <2>1, <4>1
    <3>2. QED
      BY <2>2, <3>1 DEF Fields, Fit
  <2>4. CASE o \in WithInt
    <3>1. f \in IntFields /\ o[f] = OptionInt
      BY <2>1, <2>4 DEF WithInt
    <3>2. QED
      BY <2>1, <2>2, <3>1 DEF Fields, Fit
  <2>5. CASE o \in WithCache
    <3>1. CASE \E c \in {"disabled", "mem", "lru"} : o = [Cache |-> c]
      BY <2>1, <2>2, <3>1 DEF Fields, Fit
    <3>2. CASE o = [Cache |-> "lru", MaxCacheSize |-> OptionInt]
      <4>1. f \in {"Cache", "MaxCacheSize"} /\ o["MaxCacheSize"] = OptionInt
        BY <2>1, <3>2
      <4>2. QED
        BY <2>1, <2>2, <4>1 DEF Fields, Fit
    <3>3. QED
      BY <2>5, <3>1, <3>2 DEF WithCache
  <2>6. CASE o \in WithTLS
    BY <2>1, <2>2, <2>6 DEF WithTLS, Fields, Fit
  <2>7. CASE o \in WithPort
    <3>1. f = "Port" /\ o["Port"] \in {0, 7000}
      BY <2>1, <2>7 DEF WithPort
    <3>2. 0 \in Ports /\ 7000 \in Ports
      BY DEF Ports
    <3>3. QED
      BY <2>1, <2>2, <3>1, <3>2 DEF Fields, Fit
  <2>8. CASE o \in WithResolver
    BY <2>1, <2>2, <2>8 DEF WithResolver, Fields, Fit
  <2>9. CASE o \in WithCustomSyncProvider
    <3>1. f = "CustomSync" /\ o["CustomSync"] \in BOOLEAN
      <4>1. o = [CustomSync |-> TRUE]
        BY <2>9 DEF WithCustomSyncProvider
      <4>2. f = "CustomSync"
        BY <2>1, <4>1
      <4>3. o["CustomSync"] = TRUE
        BY <4>1
      <4>4. QED
        BY <4>2, <4>3
    <3>2. QED
      BY <2>1, <2>2, <3>1 DEF Fields, Fit
  <2>10. QED
    BY <1>2, <2>3, <2>4, <2>5, <2>6, <2>7, <2>8, <2>9 DEF Options
<1>3. QED
  BY <1>1, <1>2

-----------------------------------------------------------------------------
(* The last setter of a field *)

\* An option assigns what it says, and a reset where it says nothing
LEMMA AssignsSaid ==
    ASSUME NEW e \in Environments, NEW o, NEW f
    PROVE  /\ f \in DOMAIN Said(o, e) =>
                 f \in DOMAIN Assigns(o, e) /\ Assigns(o, e)[f] = Said(o, e)[f]
           /\ f \in DOMAIN Assigns(o, e) /\ f \notin DOMAIN Said(o, e) =>
                 o = FromEnv /\ Reset(f, e) /\ Assigns(o, e)[f] = Defaults[f]
           /\ o = FromEnv /\ Reset(f, e) => f \in DOMAIN Assigns(o, e)
<1>1. CASE o = FromEnv
  BY <1>1, EnvAssigns DEF Assigns
<1>2. CASE o # FromEnv
  BY <1>2 DEF Assigns, Said
<1>3. QED
  BY <1>1, <1>2

\* The setters of a field in a list of options, and the value they give it
SettersIn(s, e, f) == {i \in DOMAIN s : f \in DOMAIN Said(s[i], e)}

Last(S) == CHOOSE i \in S : \A j \in S : j <= i

ExpectedIn(s, e, f) ==
    IF SettersIn(s, e, f) = {} THEN SaidFirst(e)[f]
    ELSE Said(s[Last(SettersIn(s, e, f))], e)[f]

ResetIn(s, e, f) ==
    /\ \E i \in DOMAIN s : s[i] = FromEnv /\ \A j \in SettersIn(s, e, f) : j < i
    /\ Reset(f, e)

\* They are those of the options applied so far
LEMMA InState ==
    \A f : /\ Setters(f) = SettersIn(applied, env, f)
           /\ Expected(f) = ExpectedIn(applied, env, f)
           /\ ResetByFromEnv(f) <=> ResetIn(applied, env, f)
<1> TAKE f
<1>1. Setters(f) = SettersIn(applied, env, f)
  BY DEF Setters, SettersIn
<1>2. Expected(f) = ExpectedIn(applied, env, f)
  BY <1>1 DEF Expected, ExpectedIn, Last
<1>3. ResetByFromEnv(f) <=> ResetIn(applied, env, f)
  BY <1>1 DEF ResetByFromEnv, ResetIn, Reset
<1>4. QED
  BY <1>1, <1>2, <1>3

\* And after a step
LEMMA InNextState ==
    \A f : /\ Setters(f)' = SettersIn(applied', env', f)
           /\ Expected(f)' = ExpectedIn(applied', env', f)
           /\ ResetByFromEnv(f)' <=> ResetIn(applied', env', f)
<1>1. (\A f : /\ Setters(f) = SettersIn(applied, env, f)
              /\ Expected(f) = ExpectedIn(applied, env, f)
              /\ ResetByFromEnv(f) <=> ResetIn(applied, env, f))'
  BY InState, PTL
<1>2. QED
  BY <1>1


\* A set of numbers with a greatest element
LEMMA LastOf ==
    ASSUME NEW S \in SUBSET Nat, NEW i \in S, \A j \in S : j <= i
    PROVE  Last(S) = i
<1>1. Last(S) \in S /\ \A j \in S : j <= Last(S)
  BY DEF Last
<1>2. Last(S) <= i /\ i <= Last(S) /\ Last(S) \in Nat /\ i \in Nat
  BY <1>1
<1>3. QED
  BY <1>2

\* What one more option does to the setters of a field
LEMMA SettersGrow ==
    ASSUME NEW s \in Seq(Options), NEW o \in Options, NEW e, NEW f
    PROVE  /\ SettersIn(s, e, f) \subseteq 1 .. Len(s)
           /\ f \in DOMAIN Said(o, e) =>
                SettersIn(Append(s, o), e, f) = SettersIn(s, e, f) \cup {Len(s) + 1}
           /\ f \notin DOMAIN Said(o, e) => SettersIn(Append(s, o), e, f) = SettersIn(s, e, f)
<1> DEFINE t == Append(s, o)
<1>1. Len(s) \in Nat /\ DOMAIN s = 1 .. Len(s)
  OBVIOUS
<1>2. /\ DOMAIN t = 1 .. (Len(s) + 1) /\ t[Len(s) + 1] = o
      /\ \A i \in 1 .. Len(s) : t[i] = s[i]
  OBVIOUS
<1> HIDE DEF t
<1>3. \A i : i \in 1 .. (Len(s) + 1) <=> i \in 1 .. Len(s) \/ i = Len(s) + 1
  BY <1>1
<1>4. \A i : i \in SettersIn(s, e, f) <=> i \in 1 .. Len(s) /\ f \in DOMAIN Said(s[i], e)
  BY <1>1 DEF SettersIn
<1>5. \A i : i \in SettersIn(t, e, f) <=> i \in 1 .. (Len(s) + 1) /\ f \in DOMAIN Said(t[i], e)
  BY <1>2 DEF SettersIn
<1>6. Len(s) + 1 \notin 1 .. Len(s)
  BY <1>1
<1>7. \A i : i \in SettersIn(t, e, f) <=>
               i \in SettersIn(s, e, f) \/ (i = Len(s) + 1 /\ f \in DOMAIN Said(o, e))
  BY <1>2, <1>3, <1>4, <1>5, <1>6
<1>8. QED
  BY <1>4, <1>7 DEF t

\* The last option that sets a field decides; one that does not set it leaves the
\* decision, save for a reset
LEMMA OneMore ==
    ASSUME NEW s \in Seq(Options), NEW o \in Options, NEW e, NEW f,
           SettersIn(s, e, f) # {} =>
                \E i \in SettersIn(s, e, f) : \A j \in SettersIn(s, e, f) : j <= i
    PROVE  /\ SettersIn(Append(s, o), e, f) # {} =>
                \E i \in SettersIn(Append(s, o), e, f) :
                    \A j \in SettersIn(Append(s, o), e, f) : j <= i
           /\ f \in DOMAIN Said(o, e) =>
                /\ ExpectedIn(Append(s, o), e, f) = Said(o, e)[f]
                /\ ~ResetIn(Append(s, o), e, f)
           /\ f \notin DOMAIN Said(o, e) =>
                /\ ExpectedIn(Append(s, o), e, f) = ExpectedIn(s, e, f)
                /\ ResetIn(Append(s, o), e, f) <=>
                      ResetIn(s, e, f) \/ (o = FromEnv /\ Reset(f, e))
<1> DEFINE t == Append(s, o)
           S == SettersIn(s, e, f)
           T == SettersIn(t, e, f)
           n == Len(s) + 1
<1>1. Len(s) \in Nat /\ DOMAIN s = 1 .. Len(s) /\ n \in Nat
  OBVIOUS
<1>2. /\ DOMAIN t = 1 .. n /\ t[n] = o /\ \A i \in 1 .. Len(s) : t[i] = s[i]
  OBVIOUS
<1>3. /\ S \subseteq 1 .. Len(s)
      /\ f \in DOMAIN Said(o, e) => T = S \cup {n}
      /\ f \notin DOMAIN Said(o, e) => T = S
  BY SettersGrow
<1>4. S # {} => \E i \in S : \A j \in S : j <= i
  OBVIOUS
<1> HIDE DEF t, S, T
<1>5. CASE f \in DOMAIN Said(o, e)
  <2>1. T \in SUBSET Nat /\ n \in T /\ \A j \in T : j <= n
    <3>1. T = S \cup {n}
      BY <1>3, <1>5
    <3>2. \A j \in S : j \in Nat /\ j <= n
      BY <1>1, <1>3
    <3>3. n <= n
      BY <1>1
    <3>4. QED
      BY <1>1, <3>1, <3>2, <3>3
  <2>2. Last(T) = n
    BY <2>1, LastOf
  <2>3. ExpectedIn(t, e, f) = Said(o, e)[f]
    BY <1>2, <2>1, <2>2 DEF ExpectedIn, T
  <2>4. ~ResetIn(t, e, f)
    BY <1>1, <1>2, <2>1 DEF ResetIn, T
  <2>5. QED
    BY <1>5, <2>1, <2>3, <2>4 DEF t, T
<1>6. CASE f \notin DOMAIN Said(o, e)
  <2>1. T = S
    BY <1>3, <1>6
  <2>2. ExpectedIn(t, e, f) = ExpectedIn(s, e, f)
    <3>1. CASE S = {}
      BY <2>1, <3>1 DEF ExpectedIn, S, T
    <3>2. CASE S # {}
      <4>1. PICK i \in S : \A j \in S : j <= i
        BY <1>4, <3>2
      <4>2. S \in SUBSET Nat
        BY <1>1, <1>3
      <4>3. Last(S) = i
        BY <4>1, <4>2, LastOf
      <4>4. t[i] = s[i]
        BY <1>2, <1>3
      <4>5. QED
        BY <2>1, <3>2, <4>3, <4>4 DEF ExpectedIn, S, T
    <3>3. QED
      BY <3>1, <3>2
  <2>3. \A j \in S : j < n
    BY <1>1, <1>3
  <2>4. \A i : i \in 1 .. n <=> i \in 1 .. Len(s) \/ i = n
    BY <1>1
  <2>5. (\E i \in DOMAIN t : t[i] = FromEnv /\ \A j \in T : j < i) <=>
           \/ \E i \in DOMAIN s : s[i] = FromEnv /\ \A j \in S : j < i
           \/ o = FromEnv
    <3>1. ASSUME NEW i \in DOMAIN t, t[i] = FromEnv, \A j \in T : j < i
          PROVE  (\E k \in DOMAIN s : s[k] = FromEnv /\ \A j \in S : j < k) \/ o = FromEnv
      BY <1>1, <1>2, <2>1, <2>4, <3>1
    <3>2. ASSUME NEW i \in DOMAIN s, s[i] = FromEnv, \A j \in S : j < i
          PROVE  \E k \in DOMAIN t : t[k] = FromEnv /\ \A j \in T : j < k
      BY <1>1, <1>2, <2>1, <2>4, <3>2
    <3>3. ASSUME o = FromEnv PROVE \E k \in DOMAIN t : t[k] = FromEnv /\ \A j \in T : j < k
      BY <1>2, <2>1, <2>3, <2>4, <3>3
    <3>4. QED
      BY <3>1, <3>2, <3>3
  <2>6. ResetIn(t, e, f) <=> ResetIn(s, e, f) \/ (o = FromEnv /\ Reset(f, e))
    BY <2>5 DEF ResetIn, S, T
  <2>7. QED
    BY <1>4, <1>6, <2>1, <2>2, <2>6 DEF t, S, T
<1>7. QED
  BY <1>5, <1>6


-----------------------------------------------------------------------------
(* The invariant *)

\* The first configuration is that of the environment over the defaults
LEMMA InvInit == Init => ConfigInv
<1> SUFFICES ASSUME Init PROVE ConfigInv
  OBVIOUS
<1> DEFINE u == updateFromEnvVar(env)
<1>1. env \in Environments /\ applied = <<>> /\ cfg = Over(u, Defaults) /\ stage = "options"
  BY DEF Init
<1>2. \A f : /\ f \in DOMAIN u => f \in Fields /\ Fit(f, u[f])
             /\ f \in DOMAIN Said(FromEnv, env) => f \in DOMAIN u /\ u[f] = Said(FromEnv, env)[f]
             /\ f \in DOMAIN u /\ f \notin DOMAIN Said(FromEnv, env) =>
                   Reset(f, env) /\ u[f] = Defaults[f]
  <2> TAKE f
  <2>1. f \in DOMAIN u => f \in Fields /\ Fit(f, u[f])
    BY <1>1, EnvFits
  <2>2. QED
    BY <1>1, <2>1, EnvAssigns
<1> HIDE DEF u
<1>3. /\ DOMAIN Defaults = Fields
      /\ \A f \in Fields : Fit(f, Defaults[f])
  BY DefaultFacts
<1>4. DOMAIN cfg = Fields /\ cfg = [f \in Fields |-> cfg[f]]
  BY <1>1, <1>2, <1>3 DEF Over
<1>5. \A f \in Fields : cfg[f] = IF f \in DOMAIN u THEN u[f] ELSE Defaults[f]
  BY <1>1, <1>2, <1>3 DEF Over
<1>6. \A f \in Fields : Fit(f, cfg[f])
  BY <1>2, <1>3, <1>5
<1>7. Inputs /\ Shaped /\ FieldsFit
  <2>1. applied \in Seq(Options)
    BY <1>1
  <2>2. Inputs
    BY <1>1, <2>1 DEF Inputs
  <2>3. QED
    BY <1>4, <1>6, <2>2 DEF Shaped, FieldsFit
<1>8. \A f : SettersIn(applied, env, f) = {} /\ ~ResetIn(applied, env, f)
  BY <1>1 DEF SettersIn, ResetIn
<1>9. HasLast
  BY <1>8, InState DEF HasLast
<1>10. ValuesInv
  <2>1. SUFFICES ASSUME NEW f \in Fields PROVE cfg[f] = Value(f)
    BY DEF ValuesInv
  <2>2. Value(f) = SaidFirst(env)[f]
    BY <1>8, InState DEF Value, ExpectedIn
  <2>3. SaidFirst(env)[f] =
          IF f \in DOMAIN Said(FromEnv, env) THEN Said(FromEnv, env)[f] ELSE Defaults[f]
    BY <1>2, <1>3 DEF SaidFirst, Over
  <2>4. QED
    BY <1>2, <1>5, <2>2, <2>3
<1>11. ConnectsToPort /\ FileSource /\ ResolverBuilt
  BY <1>1 DEF ConnectsToPort, FileSource, ResolverBuilt
<1>12. QED
  BY <1>7, <1>9, <1>10, <1>11 DEF ConfigInv

\* One more option
LEMMA ApplyStep ==
    ASSUME ConfigInv, ApplyOption
    PROVE  ConfigInv'
<1>1. PICK o \in Options : applied' = Append(applied, o) /\ cfg' = Over(Assigns(o, env), cfg)
  BY DEF ApplyOption
<1>2. env' = env /\ stage' = stage /\ stage = "options"
  BY DEF ApplyOption
<1>3. Inputs /\ Shaped /\ FieldsFit /\ HasLast /\ ValuesInv
  BY DEF ConfigInv
<1>4. env \in Environments /\ applied \in Seq(Options) /\ DOMAIN cfg = Fields
  BY <1>3 DEF Inputs, Shaped
<1> DEFINE a == Assigns(o, env)
<1>5. \A f : /\ f \in DOMAIN a => f \in Fields /\ Fit(f, a[f])
             /\ f \in DOMAIN Said(o, env) => f \in DOMAIN a /\ a[f] = Said(o, env)[f]
             /\ f \in DOMAIN a /\ f \notin DOMAIN Said(o, env) =>
                   o = FromEnv /\ Reset(f, env) /\ a[f] = Defaults[f]
             /\ o = FromEnv /\ Reset(f, env) => f \in DOMAIN a
  <2> TAKE f
  <2>1. f \in DOMAIN a => f \in Fields /\ Fit(f, a[f])
    BY <1>4, OptionFits
  <2>2. QED
    BY <1>4, <2>1, AssignsSaid
<1>6. cfg' = Over(a, cfg)
  BY <1>1
<1> HIDE DEF a
<1>7. DOMAIN cfg' = Fields /\ cfg' = [f \in Fields |-> cfg'[f]]
  BY <1>4, <1>5, <1>6 DEF Over
<1>8. \A f \in Fields : cfg'[f] = IF f \in DOMAIN a THEN a[f] ELSE cfg[f]
  BY <1>4, <1>5, <1>6 DEF Over
<1>9. Inputs' /\ Shaped' /\ FieldsFit'
  <2>1. applied' \in Seq(Options)
    BY <1>1, <1>4
  <2>2. Inputs'
    BY <1>2, <1>4, <2>1 DEF Inputs
  <2>3. \A f \in Fields : Fit(f, cfg'[f])
    BY <1>3, <1>5, <1>8 DEF FieldsFit
  <2>4. FieldsFit'
    BY <2>3 DEF FieldsFit
  <2>5. QED
    BY <1>7, <2>2, <2>4 DEF Shaped
<1>10. ASSUME NEW f \in Fields
       PROVE  /\ Setters(f)' # {} => \E i \in Setters(f)' : \A j \in Setters(f)' : j <= i
              /\ cfg'[f] = Value(f)'
  <2>1. SettersIn(applied, env, f) # {} =>
           \E i \in SettersIn(applied, env, f) : \A j \in SettersIn(applied, env, f) : j <= i
    BY <1>3, InState DEF HasLast
  <2>2. /\ SettersIn(applied', env, f) # {} =>
             \E i \in SettersIn(applied', env, f) : \A j \in SettersIn(applied', env, f) : j <= i
        /\ f \in DOMAIN Said(o, env) =>
             /\ ExpectedIn(applied', env, f) = Said(o, env)[f] /\ ~ResetIn(applied', env, f)
        /\ f \notin DOMAIN Said(o, env) =>
             /\ ExpectedIn(applied', env, f) = ExpectedIn(applied, env, f)
             /\ ResetIn(applied', env, f) <=>
                   ResetIn(applied, env, f) \/ (o = FromEnv /\ Reset(f, env))
    BY <1>1, <1>4, <2>1, OneMore
  <2>3. Setters(f)' # {} => \E i \in Setters(f)' : \A j \in Setters(f)' : j <= i
    BY <1>2, <2>2, InNextState
  <2>4. Value(f)' = IF ResetIn(applied', env, f) THEN Defaults[f] ELSE ExpectedIn(applied', env, f)
    BY <1>2, InNextState DEF Value
  <2>5. cfg[f] = IF ResetIn(applied, env, f) THEN Defaults[f] ELSE ExpectedIn(applied, env, f)
    BY <1>2, <1>3, InState DEF ValuesInv, Value
  <2>6. CASE f \in DOMAIN Said(o, env)
    BY <1>5, <1>8, <2>2, <2>3, <2>4, <2>6
  <2>7. CASE f \notin DOMAIN Said(o, env) /\ f \in DOMAIN a
    BY <1>5, <1>8, <2>2, <2>3, <2>4, <2>7
  <2>8. CASE f \notin DOMAIN Said(o, env) /\ f \notin DOMAIN a
    <3>1. ~(o = FromEnv /\ Reset(f, env))
      BY <1>5, <2>8
    <3>2. QED
      BY <1>8, <2>2, <2>3, <2>4, <2>5, <2>8, <3>1
  <2>9. QED
    BY <2>6, <2>7, <2>8
<1>11. HasLast' /\ ValuesInv'
  BY <1>10 DEF HasLast, ValuesInv
<1>12. ConnectsToPort' /\ FileSource' /\ ResolverBuilt'
  BY <1>2 DEF ConnectsToPort, FileSource, ResolverBuilt
<1>13. QED
  BY <1>9, <1>11, <1>12 DEF ConfigInv


\* The port that the environment gives for the resolver, 0 for none
Wrapped(c, e) == IF PortText(c, e) \in {Unset, Malformed} THEN 0 ELSE PortText(c, e) % 65536

\* It is a port of 16 bits
LEMMA WrappedIsPort ==
    ASSUME NEW c, NEW e \in Environments
    PROVE  Wrapped(c, e) \in Ports
<1>1. PortText(c, e) \in {Unset, Malformed, 9000, 65536, 65537}
  BY EnvTypes DEF PortText
<1>2. 9000 % 65536 = 9000 /\ 65536 % 65536 = 0 /\ 65537 % 65536 = 1
  OBVIOUS
<1>3. 0 \in Ports /\ 9000 \in Ports /\ 1 \in Ports
  BY DEF Ports
<1>4. QED
  BY <1>1, <1>2, <1>3 DEF Wrapped

\* Building the provider fixes the port, the resolver and the service
LEMMA BuildStep ==
    ASSUME ConfigInv, Build
    PROVE  ConfigInv'
<1> DEFINE p == updatePortFromEnvVar(cfg, env)
           d == [cfg EXCEPT !.Port = p]
           c == configureProviderConfiguration(d)
           r == FinalResolver(d)
<1>1. /\ cfg' = c /\ UNCHANGED <<env, applied>> /\ stage = "options"
      /\ stage' = IF validateProviderConfiguration(c) THEN "built" ELSE "refused"
      /\ service' = IF validateProviderConfiguration(c) THEN NewService(c) ELSE "none"
  BY DEF Build
<1>2. Inputs /\ Shaped /\ FieldsFit /\ HasLast /\ ValuesInv
  BY DEF ConfigInv
<1>3. /\ "Port" \in Fields /\ "Resolver" \in Fields /\ "CustomSync" \in Fields
      /\ "OfflineFlagSourcePath" \in Fields /\ "TargetUri" \in Fields
      /\ "OfflineFlagSourcePath" \notin {"Port", "Resolver", "CustomSync"}
  BY FieldsAssumption DEF Fields, OwnFields
<1>4. /\ env \in Environments /\ DOMAIN cfg = Fields
      /\ cfg["Port"] \in Ports /\ cfg["Resolver"] \in {"rpc", "in-process", "file"}
  BY <1>2, <1>3 DEF Inputs, Shaped, FieldsFit, Fit
<1>5. /\ DOMAIN d = Fields /\ d["Port"] = p /\ \A f \in Fields \ {"Port"} : d[f] = cfg[f]
  BY <1>3, <1>4
<1> HIDE DEF d
<1>6. c = [d EXCEPT !.Resolver = r, !.Port = IF d.Port = 0 THEN DefaultPort(r) ELSE d.Port]
  BY DEF configureProviderConfiguration
<1> HIDE DEF c, r, p
<1>7. /\ DOMAIN c = Fields /\ c = [f \in Fields |-> c[f]]
      /\ \A f \in Fields \ {"Port", "Resolver"} : c[f] = cfg[f]
      /\ c["Resolver"] = r /\ c["Port"] = IF p = 0 THEN DefaultPort(r) ELSE p
  BY <1>3, <1>5, <1>6
<1>8. r = IF cfg["OfflineFlagSourcePath"] # NoText /\ cfg["Resolver"] = "in-process" THEN "file"
          ELSE cfg["Resolver"]
  BY <1>3, <1>5 DEF r, FinalResolver
<1>9. r \in {"rpc", "in-process", "file"}
  BY <1>4, <1>8
<1>10. p = IF cfg["Port"] # 0 THEN cfg["Port"] ELSE Wrapped(cfg, env)
  BY DEF p, updatePortFromEnvVar, Wrapped
<1>11. p \in Ports /\ DefaultPort(r) \in Ports
  <2>1. DefaultPort(r) \in Ports
    BY <1>9 DEF DefaultPort, defaultRpcPort, defaultInProcessPort, Ports
  <2>2. QED
    BY <1>4, <1>10, <2>1, WrappedIsPort
<1>12. \A f \in Fields : Fit(f, c[f])
  <2>1. \A f \in Fields \ {"Port", "Resolver"} : Fit(f, c[f])
    BY <1>2, <1>7 DEF FieldsFit
  <2>2. c["Port"] \in Ports
    BY <1>7, <1>11
  <2>3. "Port" \notin IntFields /\ "Resolver" \notin IntFields
    BY FieldsAssumption DEF OwnFields
  <2>4. Fit("Port", c["Port"])
    BY <2>2, <2>3 DEF Fit
  <2>5. Fit("Resolver", c["Resolver"])
    BY <1>7, <1>9, <2>3 DEF Fit
  <2>6. QED
    BY <2>1, <2>4, <2>5
<1>13. Inputs' /\ Shaped' /\ FieldsFit'
  BY <1>1, <1>2, <1>7, <1>12 DEF Inputs, Shaped, FieldsFit
<1>14. \A f : Setters(f)' = Setters(f) /\ Expected(f)' = Expected(f) /\ Value(f)' = Value(f)
  BY <1>1, InState, InNextState DEF Value
<1>15. HasLast'
  BY <1>2, <1>14 DEF HasLast
<1>16. stage' # "options"
  BY <1>1
<1>17. ValuesInv'
  BY <1>1, <1>2, <1>7, <1>14, <1>16 DEF ValuesInv
<1>18. cfg["Port"] = Expected("Port") /\ cfg["Resolver"] = Value("Resolver")
  <2>1. ~ResetByFromEnv("Port")
    BY FieldsAssumption DEF ResetByFromEnv, Reset, OwnFields
  <2>2. cfg["Port"] = Value("Port") /\ cfg["Resolver"] = Value("Resolver")
    BY <1>1, <1>2, <1>3 DEF ValuesInv
  <2>3. QED
    BY <2>1, <2>2 DEF Value
<1>19. ConnectsToPort'
  <2> SUFFICES ASSUME stage' = "built", cfg'["Resolver"] # "file" PROVE ConnectsToPort'
    BY DEF ConnectsToPort
  <2>1. r = cfg["Resolver"] /\ r # "file" /\ cfg'["Resolver"] = r
    BY <1>1, <1>7, <1>8
  <2> DEFINE read == IF cfg'.Resolver = "in-process" /\ env'.syncPort # Unset THEN env'.syncPort
                     ELSE env'.port
  <2>2. read = PortText(cfg, env)
    BY <1>1, <2>1 DEF PortText
  <2>3. Wrapped(cfg, env) = IF read \in {Unset, Malformed} THEN 0 ELSE read % 65536
    BY <2>2 DEF Wrapped
  <2>4. DefaultPort(r) # 0
    BY <1>9, <2>1 DEF DefaultPort, defaultRpcPort, defaultInProcessPort
  <2>5. cfg'["Port"] = IF p = 0 THEN DefaultPort(cfg'["Resolver"]) ELSE p
    BY <1>1, <1>7, <2>1
  <2>6. GivenPort' = cfg["Port"]
    BY <1>14, <1>18 DEF GivenPort
  <2> HIDE DEF read
  <2>7. /\ cfg'["Port"] # 0
        /\ cfg'["Port"] = IF GivenPort' # 0 THEN GivenPort'
                          ELSE IF Wrapped(cfg, env) # 0 THEN Wrapped(cfg, env)
                          ELSE DefaultPort(cfg'["Resolver"])
    BY <1>10, <2>1, <2>4, <2>5, <2>6
  <2>8. QED
    BY <2>3, <2>7 DEF ConnectsToPort, read
<1>20. FileSource'
  <2> SUFFICES ASSUME stage' = "built" PROVE FileSource'
    BY DEF FileSource
  <2>1. validateProviderConfiguration(c) /\ service' = NewService(c)
    BY <1>1
  <2> DEFINE path == cfg["OfflineFlagSourcePath"]
  <2>2. c["OfflineFlagSourcePath"] = path /\ c["CustomSync"] = cfg["CustomSync"]
    BY <1>3, <1>7
  <2>3. r = "file" => path # NoText
    BY <1>7, <2>1, <2>2 DEF validateProviderConfiguration
  <2>4. buildGrpcUri(c) \in {"target", "host"}
    BY DEF buildGrpcUri
  <2>5. c["CustomSync"] \in BOOLEAN
    BY <1>3, <1>12 DEF Fit
  <2>6. CASE r = "rpc"
    <3>1. service' = "rpc" /\ Value("Resolver") = "rpc"
      BY <1>7, <1>8, <1>18, <2>1, <2>6 DEF NewService
    <3>2. QED
      BY <1>14, <3>1 DEF FileSource
  <2>7. CASE r = "in-process"
    <3>1. path = NoText
      BY <1>8, <2>7
    <3>2. service' = createSyncProvider(c)
      BY <1>7, <2>1, <2>7 DEF NewService
    <3>3. service' \in {"custom", "target", "host"} /\ (service' = "custom" => c["CustomSync"])
      BY <2>2, <2>4, <2>5, <3>1, <3>2 DEF createSyncProvider
    <3>4. QED
      BY <1>1, <2>2, <3>1, <3>3 DEF FileSource
  <2>8. CASE r = "file"
    <3> DEFINE g == [c EXCEPT !.CustomSync = FALSE]
    <3>1. service' = createSyncProvider(g)
      BY <1>7, <2>1, <2>8 DEF NewService
    <3>2. g["CustomSync"] = FALSE /\ g["OfflineFlagSourcePath"] = path
      BY <1>3, <1>7, <2>2
    <3>3. path # NoText
      BY <2>3, <2>8
    <3> HIDE DEF g
    <3>4. service' = "path"
      BY <3>1, <3>2, <3>3 DEF createSyncProvider
    <3>5. Value("Resolver") # "rpc"
      BY <1>8, <1>18, <2>8
    <3>6. QED
      BY <1>1, <1>14, <2>2, <3>3, <3>4, <3>5 DEF FileSource
  <2>9. QED
    BY <1>9, <2>6, <2>7, <2>8
<1>21. ResolverBuilt'
  BY <1>1, <1>3, <1>7, <1>8, <1>14, <1>18 DEF ResolverBuilt
<1>22. QED
  BY <1>13, <1>15, <1>17, <1>19, <1>20, <1>21 DEF ConfigInv

\* Every step preserves the invariant
LEMMA InvNext == ConfigInv /\ [Next]_vars => ConfigInv'
<1> SUFFICES ASSUME ConfigInv, [Next]_vars PROVE ConfigInv'
  OBVIOUS
<1>1. CASE Next
  BY <1>1, ApplyStep, BuildStep DEF Next
<1>2. CASE UNCHANGED vars
  <2>1. UNCHANGED <<env, applied, cfg, stage, service>>
    BY <1>2 DEF vars
  <2>2. \A f : Setters(f)' = Setters(f) /\ Expected(f)' = Expected(f) /\ Value(f)' = Value(f)
    BY <2>1, InState, InNextState DEF Value
  <2>3. Inputs' /\ Shaped' /\ FieldsFit' /\ HasLast' /\ ValuesInv'
    BY <2>1, <2>2 DEF ConfigInv, Inputs, Shaped, FieldsFit, HasLast, ValuesInv
  <2>4. ConnectsToPort' /\ FileSource' /\ ResolverBuilt'
    BY <2>1, <2>2 DEF ConfigInv, ConnectsToPort, GivenPort, FileSource, ResolverBuilt
  <2>5. QED
    BY <2>3, <2>4 DEF ConfigInv
<1>3. QED
  BY <1>1, <1>2

-----------------------------------------------------------------------------
(* The results *)

(***************************************************************************)
(* The inductive invariant holds of every construction of a provider.      *)
(***************************************************************************)
THEOREM ConfigInvariant == Spec => []ConfigInv
<1>1. QED
  BY InvInit, InvNext, PTL DEF Spec

(***************************************************************************)
(* However many options are given, in whatever order, and for any set of   *)
(* fields: the last one that sets a field wins over those before it and    *)
(* over the environment, save what a FromEnv after it resets.              *)
(***************************************************************************)
THEOREM LastWins == Spec => []LastOptionWins
<1>1. ConfigInv => LastOptionWins
  BY DEF ConfigInv, Shaped, ValuesInv, ResolverBuilt, LastOptionWins
<1>2. QED
  BY <1>1, ConfigInvariant, PTL

(***************************************************************************)
(* A provider that is built connects to the port, and takes its flags from *)
(* the source, that the options and the environment name together.         *)
(***************************************************************************)
THEOREM BuiltAsConfigured == Spec => []ConnectsAsConfigured
<1>1. ConfigInv => ConnectsAsConfigured
  <2> SUFFICES ASSUME ConfigInv PROVE TypeOK
    BY DEF ConfigInv, ConnectsAsConfigured
  <2>1. Inputs /\ Shaped /\ FieldsFit
    BY DEF ConfigInv
  <2>2. DOMAIN cfg = DOMAIN Defaults
    BY <2>1, DefaultFacts DEF Shaped
  <2>3. "Port" \in Fields /\ "Resolver" \in Fields /\ IntFields \subseteq Fields
    BY DEF Fields, OwnFields
  <2>4. /\ \A f \in IntFields : cfg[f] \in {DefaultInt, OptionInt, EnvInt}
        /\ cfg["Resolver"] \in {"rpc", "in-process", "file"}
    BY <2>1, <2>3 DEF FieldsFit, Fit
  <2>5. cfg["Port"] \in Ports
    BY <2>1, <2>3 DEF FieldsFit, Fit
  <2>6. stage \in {"options", "built", "refused"}
    BY <2>1 DEF Inputs
  <2>7. QED
    BY <2>2, <2>4, <2>5, <2>6 DEF TypeOK
<1>2. QED
  BY <1>1, ConfigInvariant, PTL


=============================================================================
