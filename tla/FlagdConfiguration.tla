------------------------- MODULE FlagdConfiguration -------------------------
(***************************************************************************)
(* The configuration of the flagd provider: the defaults, the environment  *)
(* over them, the options in the order they are given, then the port, the  *)
(* resolver and the service that comes of it (pkg/configuration.go,        *)
(* NewProvider and createSyncProvider).                                    *)
(*                                                                         *)
(* A configuration is a function on field names.  An option, and a reading *)
(* of the environment, is the part of a configuration it assigns.  What a  *)
(* text or a number is does not matter, only where it comes from.          *)
(***************************************************************************)
EXTENDS Integers, Sequences

CONSTANTS
    TextFields,   \* fields that FLAGD_... sets when the variable is not empty
    IntFields,    \* fields that every reading of the environment assigns: numbers, and the
                  \* list of fatal status codes
    MaxOptions    \* bound on the number of options

\* The fields that are treated one by one.
OwnFields == {"Cache", "Tls", "CertPath", "Resolver", "Port", "CustomSync"}

ASSUME FieldsAssumption ==
    /\ {"OfflineFlagSourcePath", "TargetUri"} \subseteq TextFields
    /\ "MaxCacheSize" \in IntFields
    /\ TextFields \cap IntFields = {} /\ (TextFields \cup IntFields) \cap OwnFields = {}
    /\ MaxOptions \in Nat

VARIABLES
    env,       \* the environment variables
    applied,   \* the options applied so far
    cfg,       \* the ProviderConfiguration
    stage,     \* options, built or refused
    service    \* what NewProvider made of it

vars == <<env, applied, cfg, stage, service>>

\* A text that is empty, or the variable of one that is not set.
NoText == ""

Unset == -1
Malformed == -2

\* A configuration over another: what it assigns wins.
Over(c, d) == [f \in DOMAIN c \cup DOMAIN d |-> IF f \in DOMAIN c THEN c[f] ELSE d[f]]

\* A port has 16 bits.
Ports == 0 .. 65535

defaultRpcPort == 8013
defaultInProcessPort == 8015
DefaultInt == 5
OptionInt == 6
EnvInt == 7

\* Unset and Malformed are told apart where the code does: FLAGD_PORT is only
\* read for its number, a malformed FLAGD_SYNC_PORT hides FLAGD_PORT.
Environments ==
    [text : [TextFields -> {NoText, "env"}], ints : [IntFields -> {Malformed, EnvInt}],
     cert : {NoText, "env"}, tls : BOOLEAN,
     cache : {NoText, "mem", "invalid"}, resolver : {NoText, "in-process", "file", "invalid"},
     port : {Unset, 9000, 65536}, syncPort : {Unset, Malformed, 65537}]

\* --------------------------- the environment -----------------------------
getIntFromEnvVarOrDefault(n) == IF n \in {Unset, Malformed} THEN DefaultInt ELSE n
EnvTexts(e) == [f \in {g \in TextFields : e.text[g] # NoText} |-> e.text[f]]
EnvInts(e) == [f \in IntFields |-> getIntFromEnvVarOrDefault(e.ints[f])]
\* FLAGD_TLS without a certificate path assigns the empty path.
EnvTls(e) == IF e.cert # NoText \/ e.tls THEN [Tls |-> TRUE, CertPath |-> e.cert] ELSE <<>>
EnvCache(e) == IF e.cache = NoText THEN <<>>
               ELSE [Cache |-> IF e.cache = "invalid" THEN "lru" ELSE e.cache]
EnvResolver(e) == IF e.resolver = NoText THEN <<>>
                  ELSE [Resolver |-> IF e.resolver = "invalid" THEN "rpc" ELSE e.resolver]
updateFromEnvVar(e) ==
    Over(EnvTexts(e), Over(EnvInts(e), Over(EnvTls(e), Over(EnvCache(e), EnvResolver(e)))))

Defaults ==
    Over([f \in TextFields |-> IF f = "Host" THEN "localhost" ELSE NoText],
         Over([f \in IntFields |-> DefaultInt],
              [Cache |-> "lru", Tls |-> FALSE, CertPath |-> NoText, Resolver |-> "rpc", Port |-> 0,
               CustomSync |-> FALSE]))

\* ------------------------------- options ---------------------------------
\* FromEnv is the option that assigns what the environment says.
FromEnv == [FromEnv |-> TRUE]
WithText == {[g \in {f} |-> "option"] : f \in TextFields}
WithInt == {[g \in {f} |-> OptionInt] : f \in IntFields \ {"MaxCacheSize"}}
WithCache == {[Cache |-> "disabled"], [Cache |-> "mem"], [Cache |-> "lru"],
              [Cache |-> "lru", MaxCacheSize |-> OptionInt]}
WithTLS == {[Tls |-> TRUE, CertPath |-> c] : c \in {NoText, "option"}}
WithPort == {[Port |-> p] : p \in {0, 7000}}
WithResolver == {[Resolver |-> r] : r \in {"rpc", "in-process", "file"}}
WithCustomSyncProvider == {[CustomSync |-> TRUE]}
Options == {FromEnv} \cup WithText \cup WithInt \cup WithCache \cup WithTLS \cup WithPort
             \cup WithResolver \cup WithCustomSyncProvider

FromEnvIgnored(o, e) == IF o = FromEnv THEN <<>> ELSE o
Assigns(o, e) == IF o = FromEnv THEN updateFromEnvVar(e) ELSE o

\* ------------------------- the end of construction ------------------------
\* For in-process FLAGD_SYNC_PORT comes first; the number is cut to 16 bits,
\* and a port of zero counts as none.
PortText(c, e) == IF c.Resolver = "in-process" /\ e.syncPort # Unset THEN e.syncPort ELSE e.port
PortFromEnvFirst(c, e) == IF PortText(c, e) \in {Unset, Malformed} THEN c.Port
                          ELSE PortText(c, e) % 65536
updatePortFromEnvVar(c, e) ==
    IF c.Port # 0 \/ PortText(c, e) \in {Unset, Malformed} THEN c.Port
    ELSE PortText(c, e) % 65536

FinalResolver(c) ==
    IF c.OfflineFlagSourcePath # NoText /\ c.Resolver = "in-process" THEN "file" ELSE c.Resolver
DefaultPort(resolver) == CASE resolver = "rpc" -> defaultRpcPort
                           [] resolver = "in-process" -> defaultInProcessPort
                           [] OTHER -> 0
configureProviderConfiguration(c) ==
    LET r == FinalResolver(c)
    IN [c EXCEPT !.Resolver = r, !.Port = IF c.Port = 0 THEN DefaultPort(r) ELSE c.Port]
validateProviderConfiguration(c) == c.Resolver = "file" => c.OfflineFlagSourcePath # NoText

\* The environment's target has a supported scheme, the option's has none.
isValidTargetScheme(target) == target = "env"
buildGrpcUri(c) == IF isValidTargetScheme(c.TargetUri) THEN "target" ELSE "host"
\* Where the in-process service takes its flags from.
createSyncProvider(c) ==
    CASE c.CustomSync -> "custom"
      [] ~ c.CustomSync /\ c.OfflineFlagSourcePath # NoText -> "path"
      [] OTHER -> buildGrpcUri(c)
\* The file service is given the path and nothing else of the configuration.
NewService(c) ==
    CASE c.Resolver = "rpc" -> "rpc"
      [] c.Resolver = "in-process" -> createSyncProvider(c)
      [] OTHER -> createSyncProvider([c EXCEPT !.CustomSync = FALSE])

\* -------------------------------- steps ----------------------------------
\* newDefaultConfiguration: the environment over the defaults.
Init == /\ env \in Environments
        /\ applied = <<>>
        /\ cfg = Over(updateFromEnvVar(env), Defaults)
        /\ stage = "options" /\ service = "none"

ApplyOption == /\ stage = "options" /\ Len(applied) < MaxOptions
               /\ \E o \in Options :
                    /\ applied' = Append(applied, o)
                    /\ cfg' = Over(Assigns(o, env), cfg)
               /\ UNCHANGED <<env, stage, service>>

Build == /\ stage = "options"
         /\ LET c == configureProviderConfiguration(
                         [cfg EXCEPT !.Port = updatePortFromEnvVar(cfg, env)])
            IN /\ cfg' = c
               /\ stage' = IF validateProviderConfiguration(c) THEN "built" ELSE "refused"
               /\ service' = IF validateProviderConfiguration(c) THEN NewService(c) ELSE "none"
         /\ UNCHANGED <<env, applied>>

Next == ApplyOption \/ Build
Spec == Init /\ [][Next]_vars

\* ------------------------------ properties -------------------------------
\* The configuration has all its fields, and a port of 16 bits.
TypeOK == /\ DOMAIN cfg = DOMAIN Defaults
          /\ \A f \in IntFields : cfg[f] \in {DefaultInt, OptionInt, EnvInt}
          /\ cfg.Port \in Ports
          /\ cfg.Resolver \in {"rpc", "in-process", "file"}
          /\ stage \in {"options", "built", "refused"}

\* What an option is said to set: FromEnv the fields whose variables are set
\* (configuration.go:434), and a variable that cannot be used counts as not set.
SaidInts(e) == [f \in {g \in IntFields : e.ints[g] \notin {Unset, Malformed}} |-> e.ints[f]]
SaidCache(e) == IF e.cache = "invalid" THEN <<>> ELSE EnvCache(e)
SaidResolver(e) == IF e.resolver = "invalid" THEN <<>> ELSE EnvResolver(e)
SaidTls(e) == IF e.cert # NoText THEN EnvTls(e) ELSE IF e.tls THEN [Tls |-> TRUE] ELSE <<>>
Said(o, e) ==
    IF o # FromEnv THEN o
    ELSE Over(EnvTexts(e), Over(SaidInts(e), Over(SaidTls(e), Over(SaidCache(e), SaidResolver(e)))))
SaidFirst(e) == Over(Said(FromEnv, e), Defaults)
Setters(f) == {i \in DOMAIN applied : f \in DOMAIN Said(applied[i], env)}
Expected(f) == IF Setters(f) = {} THEN SaidFirst(env)[f]
               ELSE LET last == CHOOSE i \in Setters(f) : \A j \in Setters(f) : j <= i
                    IN Said(applied[last], env)[f]

\* What FromEnv sets back to its default though nothing was said of it: a number
\* whose variable is not set or no number (configuration.go:245-258), the path of
\* the certificate under FLAGD_TLS alone (165-170), the cache and the resolver
\* whose variable has no known value (182-185, 199-202).
Reset(f, e) ==
    \/ f \in IntFields
    \/ f = "CertPath" /\ e.tls /\ e.cert = NoText
    \/ f = "Cache" /\ e.cache = "invalid"
    \/ f = "Resolver" /\ e.resolver = "invalid"
ResetByFromEnv(f) ==
    /\ \E i \in DOMAIN applied :
         applied[i] = FromEnv /\ \A j \in Setters(f) : j < i
    /\ Reset(f, env)

Value(f) == IF ResetByFromEnv(f) THEN Defaults[f] ELSE Expected(f)

\* The last option that sets a field wins over the options before it and over
\* the environment (README.md:108-116): except that FromEnv also resets the
\* fields that Reset names, and that it never sets the port.  Building the
\* provider leaves every field as the options made it but the port, of which
\* ConnectsToPort speaks, and the resolver, which is the file resolver where an
\* in-process one has a path.
LastOptionWins ==
    /\ \A f \in DOMAIN cfg :
         stage = "options" \/ f \notin {"Port", "Resolver"} => cfg[f] = Value(f)
    /\ stage # "options"
         => cfg.Resolver = IF Value("Resolver") = "in-process" /\ cfg.OfflineFlagSourcePath # NoText
                           THEN "file" ELSE Value("Resolver")

\* A provider that connects has a port: the last one an option gave unless it
\* is zero, else that of the environment for the resolver that was chosen
\* (cut to 16 bits), else the resolver's default.  README.md:111-116 lets the
\* environment win where FromEnv comes after WithPort: it does not, as FromEnv
\* reads no port (configuration.go:156) and the port of an option hides the
\* variable (264).
GivenPort == Expected("Port")
ConnectsToPort ==
    stage = "built" /\ cfg.Resolver # "file"
      => LET read == IF cfg.Resolver = "in-process" /\ env.syncPort # Unset THEN env.syncPort ELSE env.port
             wrapped == IF read \in {Unset, Malformed} THEN 0 ELSE read % 65536
         IN /\ cfg.Port # 0
            /\ cfg.Port = IF GivenPort # 0 THEN GivenPort
                          ELSE IF wrapped # 0 THEN wrapped ELSE DefaultPort(cfg.Resolver)

\* A path of a flag file is used by every resolver but rpc, and a file resolver
\* without it is refused.  README.md:71-74 prefers a custom source of flags to
\* every other source: it is used only where no path was given, since a path
\* turns the in-process resolver into the file resolver (configuration.go:132),
\* which never looks at the custom source.
FileSource ==
    stage = "built"
      => /\ (service = "path") = (cfg.OfflineFlagSourcePath # NoText /\ Value("Resolver") # "rpc")
         /\ service = "custom" => cfg.OfflineFlagSourcePath = NoText /\ cfg.CustomSync

\* The service is built for the source that the options and the environment
\* name together.
ConnectsAsConfigured == TypeOK /\ ConnectsToPort /\ FileSource
=============================================================================
