----------------------------- MODULE GoffProvider -----------------------------
(***************************************************************************)
(* The GO Feature Flag provider: pkg/provider.go with its two evaluators,  *)
(* evaluator/inprocess.go and evaluator/remote.go, the evaluation cache of *)
(* manager/cache.go and the configuration request of api/api.go.           *)
(*                                                                         *)
(* Init starts the data collector's goroutine and asks the relay proxy for *)
(* its configuration; a poller then asks again, naming the etag it has.    *)
(* The in-process evaluator keeps the configuration and evaluates in it,   *)
(* the remote one only watches the etag and purges its cache of answers.   *)
(* A configuration is its version, and so is an answer computed from it.   *)
(* What the collector does with events is DataCollector; here it is the    *)
(* goroutines that Start leaves and Stop waits for.  The SDK calls Init    *)
(* and Shutdown, each beside the other, and reads the event channel.  A    *)
(* provider is followed up to the first Init that finds another Init, a    *)
(* Shutdown or a poller at work.                                           *)
(***************************************************************************)
EXTENDS Integers, Sequences, SequencesExt

CONSTANTS
    Evaluations,        \* concurrent evaluations, of one flag in one context
    MaxVersion,         \* bound: changes of the relay's configuration
    MaxFaults,          \* bound: requests that fail
    MaxInits,           \* bound: calls of InitWithContext
    MaxShutdowns,       \* bound: calls of ShutdownWithContext
    EventChannelBuffer, \* eventChannelBuffer
    None

ASSUME BoundsAssumption ==
    /\ MaxVersion \in Nat \ {0} /\ MaxFaults \in Nat
    /\ MaxInits \in Nat /\ MaxShutdowns \in Nat /\ EventChannelBuffer \in Nat \ {0}

VARIABLES
    opts,      \* EvaluationType, the cache's and the data collector's options
    relay,     \* the version the relay proxy serves
    faults,    \* requests that failed
    life,      \* the SDK's view: new, initialising, ready, error, down
    init,      \* InitWithContext: where it is and what the relay answered
    inits,     \* calls of InitWithContext
    overlapped, \* bound: the last one found another Init, a Shutdown or a poller
    poll,      \* the polling goroutine: where it is and what the relay answered
    stopped,   \* the current stopPolling is closed
    once,      \* shutdownOnce has been used
    closing,   \* ShutdownWithContext: no, collector, poller
    shutdowns, \* calls of ShutdownWithContext
    etag,      \* the etag of the last configuration, 0 for ""
    config,    \* InProcess: versions of flagConfig and of the enrichment
    stale,     \* InProcess.stale
    events,    \* eventStream
    dropped,   \* since the last event that found room one was dropped
    status,    \* the provider status the SDK derives
    cache,     \* Remote: the entry of the flag, or None
    purges,    \* how often the cache was purged or given a new baseline
    ev,        \* the evaluations
    collectors \* goroutines of the data collector, the one goroutineDone is of,
               \* collectChannel, and whether there were two at once

request == <<init, poll, overlapped>>
shutdownVars == <<stopped, once, closing, shutdowns>>
eventVars == <<stale, events, dropped, status>>
collect == <<collectors>>
vars == <<opts, relay, faults, life, inits, request, shutdownVars, etag, config,
          eventVars, cache, purges, ev, collect>>

Versions == 0 .. MaxVersion
Types == {"bool", "string"}
\* The type of the flag: the last change of the configuration retypes it
FlagType(v) == IF v = MaxVersion THEN "string" ELSE "bool"

Failed == -1
NotModified == -2
Answers == Versions \cup {Failed, NotModified}
Idle == [pc |-> "off", answer |-> 0]

NoEvaluation == [pc |-> "idle", type |-> None, flag |-> 0, other |-> 0, purges |-> 0]

\* selectEvaluator: only the remote evaluator has a cache, if it is enabled
SelectEvaluator ==
    {o \in [remote : BOOLEAN, cache : BOOLEAN, collector : BOOLEAN] : o.cache => o.remote}

TypeOK ==
    /\ opts \in SelectEvaluator
    /\ relay \in 1 .. MaxVersion /\ faults \in 0 .. MaxFaults
    /\ life \in {"new", "initialising", "ready", "error", "down"}
    /\ init.pc \in {"off", "asked", "answered"} /\ init.answer \in Answers
    /\ overlapped \in BOOLEAN
    /\ inits \in 0 .. MaxInits /\ shutdowns \in 0 .. MaxShutdowns
    /\ poll.pc \in {"off", "select", "asked", "answered", "purged"} /\ poll.answer \in Answers
    /\ stopped \in BOOLEAN /\ once \in BOOLEAN
    /\ closing \in {"no", "collector", "poller"}
    /\ etag \in Versions /\ config \in [flags : Versions, enrichment : Versions]
    /\ stale \in BOOLEAN /\ dropped \in BOOLEAN
    /\ Len(events) <= EventChannelBuffer
    /\ status \in {"NOT_READY", "READY", "STALE", "ERROR"}
    /\ cache = None \/ cache \in [type : Types, version : Versions, purges : Nat]
    /\ \A e \in Evaluations : ev[e].type \in Types \cup {None}
    /\ collectors.live \subseteq 1 .. MaxInits /\ collectors.current \in 0 .. MaxInits

\* The constructors of the evaluators: pollingDone starts out closed
NewEvaluator ==
    /\ poll = Idle /\ stopped = FALSE /\ once = FALSE
    /\ etag = 0 /\ config = [flags |-> 0, enrichment |-> 0] /\ stale = FALSE
    /\ cache = None /\ purges = 0

\* NewProviderWithContext
NewProvider ==
    /\ opts \in SelectEvaluator
    /\ NewEvaluator
    /\ relay = 1 /\ faults = 0 /\ life = "new" /\ inits = 0 /\ shutdowns = 0
    /\ init = Idle /\ closing = "no" /\ overlapped = FALSE
    /\ events = <<>> /\ dropped = FALSE /\ status = "NOT_READY"
    /\ ev = [e \in Evaluations |-> NoEvaluation]
    /\ collectors = [live |-> {}, current |-> 0, token |-> FALSE, doubled |-> FALSE]

-----------------------------------------------------------------------------
(* The relay proxy *)

RelayChanges ==
    /\ relay < MaxVersion
    /\ relay' = relay + 1
    /\ UNCHANGED <<opts, faults, life, inits, request, shutdownVars, etag, config,
                   eventVars, cache, purges, ev, collect>>

\* GetConfiguration's result for a request that names known: the version, 304,
\* or an error for a bad status, a torn body or no connection.
GetConfiguration(known, answer) ==
    \/ answer = relay /\ relay # known /\ UNCHANGED faults
    \/ answer = NotModified /\ relay = known /\ UNCHANGED faults
    \/ answer = Failed /\ faults < MaxFaults /\ faults' = faults + 1

-----------------------------------------------------------------------------
(* Events of the in-process evaluator *)

EventStatus == [READY |-> "READY", CONFIG_CHANGE |-> "READY", STALE |-> "STALE"]

\* emitEvent drops the event when the channel is full
EmitEvent(kind, version) ==
    IF Len(events) < EventChannelBuffer
    THEN /\ events' = Append(events, [kind |-> kind, version |-> version])
         /\ dropped' = FALSE
    ELSE dropped' = TRUE /\ UNCHANGED events

\* The SDK's event executor reads the channel of a registered provider
EventRead ==
    /\ life \in {"initialising", "ready", "error"} /\ events # <<>>
    /\ events' = Tail(events)
    /\ status' = EventStatus[Head(events).kind]
    /\ UNCHANGED <<opts, relay, faults, life, inits, request, shutdownVars, etag, config,
                   stale, dropped, cache, purges, ev, collect>>

\* Mutant: stale is left set when the configuration is the one known
HandleRefreshForgetting(answer) ==
    /\ stale' = (answer = Failed)
    /\ IF answer = Failed /\ ~stale THEN EmitEvent("STALE", 0)
       ELSE IF answer \in Versions THEN EmitEvent("CONFIG_CHANGE", answer)
       ELSE UNCHANGED <<events, dropped>>

\* handleRefreshResult with markStale and clearStale
HandleRefreshResult(answer) ==
    /\ stale' = (answer = Failed)
    /\ IF answer = Failed /\ ~stale THEN EmitEvent("STALE", 0)
       ELSE IF answer \in Versions THEN EmitEvent("CONFIG_CHANGE", answer)
       ELSE IF answer = NotModified /\ stale THEN EmitEvent("READY", 0)
       ELSE UNCHANGED <<events, dropped>>

\* Mutant: the enrichment of the first configuration is kept
StoreFlagsOnly(answer) ==
    /\ config' = [config EXCEPT !.flags = answer]
    /\ etag' = answer

\* The end of loadConfiguration: flags, enrichment and etag under one lock
StoreConfiguration(answer) ==
    /\ config' = [flags |-> answer, enrichment |-> answer]
    /\ etag' = answer

-----------------------------------------------------------------------------
(* InitWithContext *)

\* The goroutine Start leaves closes the goroutineDone it finds
StartCollector ==
    IF opts.collector
    THEN collectors' = [collectors EXCEPT !.current = inits + 1,
                                          !.live = @ \cup {inits + 1},
                                          !.doubled = @ \/ collectors.live # {}]
    ELSE UNCHANGED collectors

\* startPolling, and its like in InProcess.Init: new channels, and there the
\* once as well
StartPolling ==
    /\ stopped' = FALSE
    /\ once' = (opts.remote /\ once)
    /\ poll' = [pc |-> "select", answer |-> 0]

\* A provider is initialised, again after it failed or was shut down, whether or
\* not that Shutdown, an Init it overtook or the poller of that Init is still at work
InitWithContext ==
    /\ life \in {"new", "error", "down"} /\ inits < MaxInits
    /\ overlapped' = ~(closing = "no" /\ init.pc = "off" /\ poll.pc = "off")
    /\ inits' = inits + 1
    /\ StartCollector
    /\ life' = "initialising"
    /\ init' = [pc |-> IF opts.remote /\ ~opts.cache THEN "answered" ELSE "asked", answer |-> 0]
    /\ UNCHANGED <<opts, relay, faults, poll, shutdownVars, etag, config, eventVars,
                   cache, purges, ev>>

\* InProcess names the etag it has, Remote none
InitAnswered ==
    /\ init.pc = "asked"
    /\ \E a \in Answers : /\ GetConfiguration(IF opts.remote THEN 0 ELSE etag, a)
                          /\ init' = [pc |-> "answered", answer |-> a]
    /\ UNCHANGED <<opts, relay, life, inits, poll, overlapped, shutdownVars, etag, config, eventVars,
                   cache, purges, ev, collect>>

\* The SDK's view of an Init that returns; a Shutdown may have overtaken it
InitReturns(outcome) ==
    /\ init' = Idle
    /\ IF life = "initialising"
       THEN life' = outcome /\ status' = IF outcome = "ready" THEN "READY" ELSE "ERROR"
       ELSE UNCHANGED <<life, status>>

\* InProcess.Init: an error leaves everything as it is, the collector started
InProcessInit ==
    /\ init.pc = "answered" /\ ~opts.remote
    /\ \/ /\ init.answer = Failed
          /\ InitReturns("error")
          /\ UNCHANGED <<poll, stopped, once, etag, config, stale, events, dropped>>
       \/ /\ init.answer # Failed
          /\ IF init.answer \in Versions THEN StoreConfiguration(init.answer)
             ELSE UNCHANGED <<etag, config>>
          /\ HandleRefreshResult(init.answer)
          /\ StartPolling
          /\ InitReturns("ready")
    /\ UNCHANGED <<opts, relay, faults, inits, overlapped, closing, shutdowns, cache, purges, ev,
                   collect>>

\* Remote.Init: the etag is a baseline, and an error is not one
RemoteInit ==
    /\ init.pc = "answered" /\ opts.remote
    /\ IF init.answer \in Versions /\ opts.cache
       THEN etag' = init.answer /\ purges' = purges + 1
       ELSE UNCHANGED <<etag, purges>>
    /\ IF opts.cache THEN StartPolling ELSE UNCHANGED <<poll, stopped, once>>
    /\ InitReturns("ready")
    /\ UNCHANGED <<opts, relay, faults, inits, overlapped, closing, shutdowns, config, stale,
                   events, dropped, cache, ev, collect>>

-----------------------------------------------------------------------------
(* The polling goroutine *)

\* A tick, and the request with the etag of that moment
PollTick ==
    /\ poll.pc = "select"
    /\ poll' = [pc |-> "asked", answer |-> etag]
    /\ UNCHANGED <<opts, relay, faults, life, inits, init, overlapped, shutdownVars, etag, config,
                   eventVars, cache, purges, ev, collect>>

PollAnswered ==
    /\ poll.pc = "asked"
    /\ \E a \in Answers : /\ GetConfiguration(poll.answer, a)
                          /\ poll' = [pc |-> "answered", answer |-> a]
    /\ UNCHANGED <<opts, relay, life, inits, init, overlapped, shutdownVars, etag, config, eventVars,
                   cache, purges, ev, collect>>

Waiting == [pc |-> "select", answer |-> 0]

\* InProcess: loadConfiguration stores, then handleRefreshResult
InProcessRefresh ==
    /\ poll.pc = "answered" /\ ~opts.remote
    /\ IF poll.answer \in Versions
       THEN /\ StoreConfiguration(poll.answer)
            /\ poll' = [poll EXCEPT !.pc = "purged"]
            /\ UNCHANGED <<stale, events, dropped>>
       ELSE /\ HandleRefreshResult(poll.answer)
            /\ poll' = Waiting
            /\ UNCHANGED <<etag, config>>
    /\ UNCHANGED <<opts, relay, faults, life, inits, init, overlapped, shutdownVars, status, cache,
                   purges, ev, collect>>

InProcessAnnounce ==
    /\ poll.pc = "purged" /\ ~opts.remote
    /\ HandleRefreshResult(poll.answer)
    /\ poll' = Waiting
    /\ UNCHANGED <<opts, relay, faults, life, inits, init, overlapped, shutdownVars, etag, config, status,
                   cache, purges, ev, collect>>

\* Mutant: the cache is left to its entries' time to live
NoPurge == UNCHANGED <<cache, purges>>

Purge == cache' = None /\ purges' = purges + 1

\* Mutant: the first poll without a change is the last
RemotePurgeQuits ==
    /\ poll.pc = "answered" /\ opts.remote
    /\ IF poll.answer \in Versions
       THEN Purge /\ poll' = [poll EXCEPT !.pc = "purged"]
       ELSE poll' = Idle /\ UNCHANGED <<cache, purges>>
    /\ UNCHANGED <<opts, relay, faults, life, inits, init, overlapped, shutdownVars, etag, config,
                   eventVars, ev, collect>>

\* Remote: a change purges the cache, everything else is passed over
RemotePurge ==
    /\ poll.pc = "answered" /\ opts.remote
    /\ IF poll.answer \in Versions
       THEN Purge /\ poll' = [poll EXCEPT !.pc = "purged"]
       ELSE poll' = Waiting /\ UNCHANGED <<cache, purges>>
    /\ UNCHANGED <<opts, relay, faults, life, inits, init, overlapped, shutdownVars, etag, config,
                   eventVars, ev, collect>>

RemoteEtag ==
    /\ poll.pc = "purged" /\ opts.remote
    /\ etag' = poll.answer
    /\ poll' = Waiting
    /\ UNCHANGED <<opts, relay, faults, life, inits, init, overlapped, shutdownVars, config, eventVars,
                   cache, purges, ev, collect>>

\* The closed stopPolling is ready in the select, as a tick may be
PollStops ==
    /\ poll.pc = "select" /\ stopped
    /\ poll' = Idle
    /\ UNCHANGED <<opts, relay, faults, life, inits, init, overlapped, shutdownVars, etag, config,
                   eventVars, cache, purges, ev, collect>>

-----------------------------------------------------------------------------
(* ShutdownWithContext *)

\* DataCollectorManager.Stop puts the token, unless one lies there
ShutdownWithContext ==
    /\ life # "down" /\ closing = "no" /\ shutdowns < MaxShutdowns
    /\ shutdowns' = shutdowns + 1
    /\ life' = "down" /\ status' = "NOT_READY"
    /\ closing' = "collector"
    /\ collectors' = [collectors EXCEPT !.token = @ \/ opts.collector]
    /\ UNCHANGED <<opts, relay, faults, inits, request, stopped, once, etag, config, stale,
                   events, dropped, cache, purges, ev>>

\* A goroutine of the collector takes the token and returns
CollectorEnds(c) ==
    /\ c \in collectors.live /\ collectors.token
    /\ collectors' = [collectors EXCEPT !.token = FALSE, !.live = @ \ {c}]
    /\ UNCHANGED <<opts, relay, faults, life, inits, request, shutdownVars, etag, config,
                   eventVars, cache, purges, ev>>

\* Mutant: the evaluator is left polling
EvaluatorShutdownSkipped ==
    /\ closing = "collector"
    /\ opts.collector => collectors.current \notin collectors.live
    /\ once' = TRUE
    /\ closing' = "poller"
    /\ UNCHANGED <<stopped, opts, relay, faults, life, inits, request, shutdowns, etag, config,
                   eventVars, cache, purges, ev, collect>>

\* Stop saw goroutineDone closed; the evaluator's Shutdown closes stopPolling,
\* once.  Remote has read pollingDone together with it, InProcess reads it later.
EvaluatorShutdown ==
    /\ closing = "collector"
    /\ opts.collector => collectors.current \notin collectors.live
    /\ stopped' = (stopped \/ ~once)
    /\ once' = TRUE
    /\ closing' = IF opts.remote /\ poll.pc = "off" THEN "no" ELSE "poller"
    /\ UNCHANGED <<opts, relay, faults, life, inits, request, shutdowns, etag, config,
                   eventVars, cache, purges, ev, collect>>

\* pollingDone is closed
ShutdownReturns ==
    /\ closing = "poller" /\ poll.pc = "off"
    /\ closing' = "no"
    /\ UNCHANGED <<opts, relay, faults, life, inits, request, stopped, once, shutdowns, etag,
                   config, eventVars, cache, purges, ev, collect>>

-----------------------------------------------------------------------------
(* Evaluations *)

\* The SDK evaluates unless the provider is not ready
Evaluate(e, t) ==
    /\ life \in {"ready", "error"} /\ ev[e].pc \in {"idle", "done"}
    /\ ev' = [ev EXCEPT ![e] = [NoEvaluation EXCEPT !.pc = "begun", !.type = t]]
    /\ UNCHANGED <<opts, relay, faults, life, inits, request, shutdownVars, etag, config,
                   eventVars, cache, purges, collect>>

\* InProcess.checkFlagExists: a flag that is not there ends the evaluation
CheckFlagExists(e) ==
    /\ ev[e].pc = "begun" /\ ~opts.remote
    /\ ev' = IF config.flags = 0 THEN [ev EXCEPT ![e] = NoEvaluation]
             ELSE [ev EXCEPT ![e].pc = "flag", ![e].flag = config.flags]
    /\ UNCHANGED <<opts, relay, faults, life, inits, request, shutdownVars, etag, config,
                   eventVars, cache, purges, collect>>

\* getEvaluationContextEnrichment, and the evaluation with both
EvaluateInProcess(e) ==
    /\ ev[e].pc = "flag"
    /\ ev' = [ev EXCEPT ![e].pc = "done", ![e].other = config.enrichment]
    /\ UNCHANGED <<opts, relay, faults, life, inits, request, shutdownVars, etag, config,
                   eventVars, cache, purges, collect>>

\* GetBool and its siblings: an entry of another type is an error, and no hit
CacheGet(t) == IF opts.cache /\ cache # None /\ cache.type = t THEN cache ELSE None

EvaluateCached(e) ==
    /\ ev[e].pc = "begun" /\ opts.remote
    /\ LET hit == CacheGet(ev[e].type)
       IN ev' = IF hit = None THEN [ev EXCEPT ![e].pc = "asked"]
                ELSE [ev EXCEPT ![e] = [pc |-> "done", type |-> ev[e].type, flag |-> hit.version,
                                        other |-> hit.type, purges |-> hit.purges]]
    /\ UNCHANGED <<opts, relay, faults, life, inits, request, shutdownVars, etag, config,
                   eventVars, cache, purges, collect>>

\* OFREP's answer: a value for the type of the flag, or an error, which has no
\* metadata that would make it cacheable
EvaluateAnswered(e) ==
    /\ ev[e].pc = "asked"
    /\ \/ /\ FlagType(relay) = ev[e].type
          /\ ev' = [ev EXCEPT ![e].pc = "answered", ![e].flag = relay, ![e].purges = purges]
       \/ ev' = [ev EXCEPT ![e] = NoEvaluation]
    /\ UNCHANGED <<opts, relay, faults, life, inits, request, shutdownVars, etag, config,
                   eventVars, cache, purges, collect>>

\* Set, when the relay's metadata say the answer is cacheable
CacheSet(e) ==
    /\ ev[e].pc = "answered"
    /\ \/ opts.cache /\ cache' = [type |-> ev[e].type, version |-> ev[e].flag,
                                  purges |-> ev[e].purges]
       \/ UNCHANGED cache
    /\ ev' = [ev EXCEPT ![e] = NoEvaluation]
    /\ UNCHANGED <<opts, relay, faults, life, inits, request, shutdownVars, etag, config,
                   eventVars, purges, collect>>

\* The entry's time to live has passed, or the LRU evicts it
CacheExpires ==
    /\ cache # None
    /\ cache' = None
    /\ UNCHANGED <<opts, relay, faults, life, inits, request, shutdownVars, etag, config,
                   eventVars, purges, ev, collect>>

-----------------------------------------------------------------------------
(* The specification *)

Poll == PollTick \/ PollAnswered \/ InProcessRefresh \/ InProcessAnnounce
        \/ RemotePurge \/ RemoteEtag
Shutdown == EvaluatorShutdown \/ ShutdownReturns

Step ==
    \/ RelayChanges
    \/ InitWithContext \/ InitAnswered \/ InProcessInit \/ RemoteInit
    \/ Poll \/ PollStops
    \/ ShutdownWithContext \/ Shutdown
    \/ \E c \in 1 .. MaxInits : CollectorEnds(c)
    \/ EventRead
    \/ CacheExpires
    \/ \E e \in Evaluations :
          \/ \E t \in Types : Evaluate(e, t)
          \/ CheckFlagExists(e) \/ EvaluateInProcess(e)
          \/ EvaluateCached(e) \/ EvaluateAnswered(e) \/ CacheSet(e)

\* Where two Inits, two pollers, or an old Shutdown and a new poller would share
\* the channels and the etag the model ends
Next == ~overlapped /\ Step

Spec == NewProvider /\ [][Next]_vars

\* The goroutines run on, requests end by the client's timeout, and a select
\* with a closed stopPolling takes it in the end.
FairSpec ==
    /\ Spec
    /\ WF_vars(~overlapped /\ Poll) /\ SF_vars(~overlapped /\ PollStops)
    /\ WF_vars(~overlapped /\ Shutdown)
    /\ \A c \in 1 .. MaxInits : WF_vars(~overlapped /\ CollectorEnds(c))

-----------------------------------------------------------------------------
(* Properties *)

\* An in-process evaluation takes the flag and the enrichment under two locks
\* (inprocess.go, evaluate): a refresh between them mixes two configurations,
\* but the enrichment is never older than the flag, nor ahead of the store.
EvaluationConsistent ==
    \A e \in Evaluations :
        ev[e].pc = "done" /\ ~opts.remote =>
            ev[e].flag <= ev[e].other /\ ev[e].other <= config.enrichment

\* A ProviderConfigChange that is in the channel is about a configuration that
\* evaluations already see (loadConfiguration before handleRefreshResult): a
\* handler that evaluates again does not get the old answer.
AnnouncedIsStored ==
    \A i \in DOMAIN events :
        events[i].kind = "CONFIG_CHANGE" => config.flags >= events[i].version

\* Unless an event found the channel full, the status the SDK comes to when it
\* has read the channel of a ready provider is what the last refresh found:
\* STALE after a failure, READY after an answer (handleRefreshResult).
StatusFollowsRefresh ==
    life = "ready" /\ ~dropped /\ (events # <<>> \/ ~opts.remote) =>
        (IF events = <<>> THEN status ELSE EventStatus[Last(events).kind])
            = IF stale THEN "STALE" ELSE "READY"

\* What the relay answered since the last purge or baseline is at least as new
\* as the etag the poller knows: only answers that were on their way, or were
\* left by an earlier life, survive a change (remote.go, startPolling).
CacheFresh ==
    cache # None /\ cache.purges = purges => cache.version >= etag

\* An answer served from the cache is of the type asked for, also when the flag
\* has changed its type in between (cache.go, Get*).
ServedTypeMatches ==
    \A e \in Evaluations :
        ev[e].pc = "done" /\ opts.remote => ev[e].other = ev[e].type

\* The remote evaluator's shutdownOnce was used before this poller was started,
\* so that Shutdown does not close its stopPolling
OnceSpent == opts.remote /\ once /\ poll.pc # "off"
\* An Init after a failed one has left two collectors for one token
TwoCollectors == collectors.doubled

\* A ShutdownWithContext that does not overtake an Init returns and leaves no
\* poller, whatever requests fail meanwhile, unless a remote evaluator was shut
\* down before it was initialised, two collectors compete for Stop's token or the
\* provider is initialised again before it returns.
ShutdownCompletes ==
    (closing = "collector" /\ init.pc = "off" /\ ~OnceSpent /\ ~TwoCollectors)
        ~> ((closing = "no" /\ poll.pc = "off") \/ overlapped)

\* A change of the relay's configuration reaches a provider that stays
\* registered, failed polls notwithstanding: the flags of an in-process
\* evaluator, the etag of a remote one that caches.
ChangeArrives ==
    (life = "ready" /\ relay = MaxVersion /\ (opts.remote => opts.cache))
        ~> (etag = MaxVersion \/ life # "ready")

\* An evaluation answers from configurations that were stored, the enrichment not
\* older than the flag, or from a cached answer of the type that was asked for.
AnswerConsistent == TypeOK /\ EvaluationConsistent /\ ServedTypeMatches

\* The events tell handlers nothing that is not stored yet, and the last of
\* them agrees with the last refresh.
EventsTruthful == AnnouncedIsStored /\ StatusFollowsRefresh

=============================================================================
