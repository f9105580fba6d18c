# A TLA+ verification of open-feature/go-sdk-contrib

The repository holds OpenFeature providers and hooks for Go.  The parts with
behaviour of their own, goroutines, channels, timers and caches that are hard to
test, are the flagd provider, the GO Feature Flag provider, the multi-provider and
the flagd HTTP connector; each has its modules here.  The other providers are
adapters of a vendor's client or of an HTTP protocol; they are modelled together,
by what they make of a request and of an answer and by the order of the writes in
Init and Shutdown.

## Inventory

| Part | State | Operations | Interacts through | Hard behaviour |
|---|---|---|---|---|
| flagd RPC resolver (`providers/flagd/pkg/service/rpc`, `internal/cache`) | cache and its flag, retry counter, client, event channel (1), stream-ready channel (1) | Init, Shutdown, five Resolve functions, the event stream goroutine | unary calls and event stream of flagd; `EventChannel` read by the provider | evaluations race invalidations; lost notifications; retries and exhaustion; shutdown while a send blocks |
| flagd in-process resolver (`service/in_process/service.go`, `grpc_sync.go`) | flag store, ready flag, stale timer, syncData (1), events (5), sync events (10) | Init, Shutdown, Sync, data listener, event monitor, connection monitor, timer callback, five Resolve functions | gRPC sync stream; `EventChannel` | six goroutines; event order; closing channels; recovery after outages |
| flagd provider (`pkg/provider.go`) | status, initialized, mutex, unbuffered event stream | Init with deadline, handleEvents, Shutdown, setStatus | wraps one of the resolvers | a mutex held across waits |
| flagd configuration (`pkg/configuration.go`) | settings | defaults, environment, options, validation | read once by NewProvider | precedence; 16-bit ports |
| GO Feature Flag data collector (`pkg/manager/data_collector_manager.go`, `pkg/hook`) | bounded buffer, mutex, ticker, stop channel | AddEvent, SendData, Start, Stop; called by Track and the hook | HTTP `POST /v1/data/collector` | flush races, failed flushes, stop protocol |
| GO Feature Flag provider and evaluators (`pkg/provider.go`, `pkg/evaluator`, `pkg/manager/cache.go`, `pkg/api`) | flag configuration and enrichment, etag, stale flag, answer cache, event channel, stop channel | Init, poll, evaluate, Shutdown | HTTP polling of the relay proxy, events to the SDK | refresh against evaluation; purge against answers in flight; repeated Init and Shutdown |
| flagd HTTP connector (`tools/flagd-http-connector`) | ETag and Last-Modified kept, fail-safe and polling cache, shutdown lock | Sync, poll, cache update goroutines, Shutdown | HTTP, a cache shared by services, the resolver's channel | lock held across a blocking send; what a failed request leaves behind |
| multi-provider (`providers/multi-provider`) | provider slice, status, per-evaluation channels and contexts | Init, Shutdown, three strategies | the wrapped providers | concurrent evaluation, select among ready channels, timeouts |
| OFREP provider (`providers/ofrep`) | none | resolve | HTTP | status mapping |
| vendor adapters (harness, unleash, statsig, prefab, launchdarkly, flipt, configcat, flagsmith, from-env, aws-ssm, optimizely, rocketflag, go-feature-flag-in-process) | status, client | Init, Shutdown, evaluation functions | vendor SDKs | status before client; type conversion; dropped errors |
| hooks (open-telemetry, validator, code readiness) | none | hook methods | SDK | none of note |

What makes them correct: a cache entry is not older than the configuration
unless there is a recorded reason; Init and Shutdown return; what happened
(change, outage, recovery, giving up) is reported, in an order from which the
application can tell the current state; a reader of the events converges to the
store; no accepted usage event is lost; the outcome of an evaluation follows from
the answers and not from the schedule; an evaluation returns a value of the type
asked for, or an error and the default.

## Modules

| Module | Models | Uses |
|---|---|---|
| FlagdRpc, MCFlagdRpc, FlagdRpcProofs | the RPC resolver | |
| FlagdInProcess | the in-process resolver's synchronisation | |
| FlagdProvider, FlagdProviderProofs | `pkg/provider.go` over the in-process resolver; the proofs are about both | EXTENDS FlagdInProcess |
| FlagdConfiguration, FlagdConfigurationProofs | `pkg/configuration.go`, NewProvider's choice of service and of source | |
| DataCollector, DataCollectorProofs | the data collector | |
| GoffProvider, GoffProviderProofs | provider, both evaluators, cache, configuration request | |
| HttpConnector, HttpConnectorProofs | the HTTP connector | |
| MultiProvider, MultiProviderProofs | construction, life cycle, three strategies | |
| Resolution | pure operators: context conversion and answer mapping of fifteen adapters | |
| ProviderContract | abstract specification: what a provider promises | EXTENDS Resolution |
| Adapters, AdaptersProofs | Init, Shutdown and an evaluation of an adapter | EXTENDS Resolution, refines ProviderContract |

### FlagdRpc

Translates `rpc/service.go`, `rpc/retryCounter.go` and `internal/cache`.  The
flagd daemon is external: it holds for every flag a definition (a version and a
type), changes it, and notifies the change on the stream when one is open.
`sp` is the program counter of `startEventStream`/`streamClient`:

    off -> retry -> connect -> receive -> (remove ->) send -> receive ...
                        |         |-> send -> failed -> backoff -> retry
                        |-> failed
    retry -> disable -> purge -> exhausted -> send -> finished

`send` is the blocking `sendEvent`, `after` where the goroutine continues.
`ev[e]` is the evaluation of an application goroutine: `get` (cache lookup),
`call` (the unary call), `answered` (before the second `IsEnabled`), `add`
(before `Cache.Add`), `done`.  Every read of the cache, of its flag and every
removal is a step of its own, since evaluations take no lock.  `cacheEnabled` is
read and written without synchronisation; its reads are single steps.  Whether the
cache is configured at all is one of CacheModes.

Two history variables explain why an entry may be old: `missed` (the flag
changed while no stream could report it, or the notification was lost with its
stream) and `raced` (an evaluation held an older answer while the entry was
invalidated).  They are read by the properties only.  Both situations are
reachable.  README.md line 130 of the provider, "cached until an event is received
concerning the cached flag (at which point it is removed from cache)", is
therefore too strong: CacheCoherent says exactly how much too strong.

### FlagdInProcess

Translates `in_process/service.go` and `grpc_sync.go`.  A configuration maps
flags to versions, 0 meaning absent; the evaluator rejects the members of
`Malformed`.  Program counters: `sy` (Sync), `cm` (monitorConnectionState), `lp`
(runDataSyncListener with processSyncData), `mp` (runEventSyncMonitor).  Sends
on the events channel block whatever the context, as in the code; sends on the
sync events channel never do.  `computeChangedFlags` is a pure operator.  The
receive goroutine of `handleFlagSync` is folded into `CycleErrors`: which of the
queued error, the closed channel and the buffered configuration the select takes
is a choice.  Sync hands a configuration over and sets its `ready` in a later step
(SyncMarksReady), as `grpc_sync.go:293-297` does.  The source may change at any
time, whatever the stale timer does.  The connection is up when the service starts;
it may go down in the next step.  `panicked` records a send on the closed sync
events channel, `applied` that the listener has put a configuration into the store.

handleProviderReady is never called with an event Sync sends, so it has no
action.  File and custom sync providers, a second Init and a Shutdown before
Init are not modelled.

### FlagdProvider

Composes `pkg/provider.go` with FlagdInProcess: it EXTENDS it, replaces its
abstract reader by Init's select and handleEvents, and calls its Init and
Shutdown under `mtx`.  handleEvents takes an event, blocks until the SDK receives
it, then needs the mutex for setStatus.

### FlagdConfiguration

A configuration is a function on field names; an option, and a reading of the
environment, is the part it assigns.  The action ApplyOption takes one option after
another, Build does what NewProvider does afterwards: the port from the
environment of the chosen resolver (cut to 16 bits), its default, an offline path
that turns in-process into file, the checks, and the source of flags.  Text
fields are interchangeable and so are numbers, hence two and one of them.  A cache
or a resolver in the environment may have a value the code does not know: it sets
nothing when the defaults are read, and in a FromEnv among the options it puts the
default back.  `Reset` names everything that FromEnv resets in this way, and
LastOptionWins holds for every field but for it.

### DataCollector

Translates `data_collector_manager.go` with its callers `Provider.Track` and the
hook's After and Error, and the DataCollectorDisabled option they look at.  `ap[e]`
follows one AddEvent, `sp` Stop, `cp[c]` the goroutine that the c-th Start left: every
InitWithContext calls Start, whatever still runs, so that several goroutines may share
the one stop channel while ticker and goroutineDone are those of the last Start.
`overlapped` records that a Start found an earlier goroutine or a Stop at work,
`panicked` that a goroutineDone was closed twice.  The mutex is explicit, since it is held during the HTTP request.  A
failed request may have delivered its batch.  Each event is produced once, so a
second delivery is visible.

### GoffProvider

One provider with either evaluator.  A configuration is the version of the relay
it was read at; `config` keeps the versions of the flags and of the enrichment
apart, since evaluate reads them under two locks.  `poll` is the polling goroutine,
`init` InitWithContext, `closing` ShutdownWithContext; the SDK may call Shutdown
during Init and Init again after either.  Of the data collector only what Start
and Stop leave is kept: the goroutines, the token in the stop channel and the
goroutine Stop waits for.

InitWithContext has no guard in the code.  One that finds another Init, a poller or a
Shutdown still at work sets `overlapped`, and there the model ends (`Next` is
`~overlapped /\ Step`): this is a bound, named in ShutdownCompletes.  With the pollers
of earlier lives running on, the state space is out of TLC's reach.

### HttpConnector

`worker` is the one thread that fetches: Sync for the first payload, then the
goroutine it starts.  `closing` is Shutdown waiting for the write side of
shutdownLock, which a sender holds on the read side; Go's RWMutex admits no new
reader then.  Every payload goes to the cache by a goroutine of its own
(`updates`), in any order.  A 200 carries the headers of one of HeaderSets, and the
fetcher keeps them in place of what it had, an absent one too; the source may answer
200 although the condition holds, and 304 although the fetcher sent none (the
`Headers` option may hold a condition), with and without the fetcher.  What other services do to the shared cache is the
environment's choice.

### MultiProvider

The strategies keep no state between evaluations, so one is modelled.  `order` is
the slice made from the map, in any order.  `finish`, `errChan` and the goroutines'
`pc` are the channels; "not found" goes over an unbuffered channel, so its sender is
`blocked` until the collector takes it.  The collector's select is a choice among
its actions.  Whether and when a provider answers is up to the environment.  A
fallback's answer may lack metadata: writing to that nil map ends the evaluation in a
panic (`phase = "panicked"`, `comparison.go:331`).

### Resolution, ProviderContract, Adapters

Resolution has one operator per adapter and per conversion of an evaluation
context, from a request (type, default, context) and an answer of the backend to a
result (value, error code, reason).  Values are kinds and numbers in halves, so
that parsing, truncation and rounding are visible.  Adapters puts them behind the
life of an adapter: Init and Shutdown write the status and the client in two steps,
in the order of each adapter, and an evaluation checks the one before it uses the
other.  That a second Init opens a new client is how Unleash and Statsig are used, an
assumption on these vendors.  ProviderContract is the abstract specification; Adapters implements it
under a mapping of the program counter (KeepsContract).

## Runs

| Run | Properties | Bounds |
|---|---|---|
| rpc_cache | CacheCoherent, InitVerdict | one flag that is changed and retyped, all five types, all error codes, one evaluation, one message on the wire, one attempt |
| rpc_live | ShutdownCompletes, InitCompletes, ExhaustionReported, ChangeReported | two flags, two attempts, the cache configured on and off, no evaluations |
| ip_live | InitMeansServing, ShutdownCompletes, SourceConverges, OutageReported | one flag, a first configuration that may be malformed, no later change, one failure with or without a fatal code, channels of one, a shutdown |
| provider_status | SourceFollowed, StaleHasTimer, PanicOnlyInShutdown, StatusTruthful | one flag, one failure, one change (an addition, a deletion or a malformed configuration) and one firing of the stale timer, in any order, the deadline of Init, a shutdown |
| collector | NothingLost, DuplicatesOnlyByFailure, StopIsLast, FlushedOnStop, StopCompletes, FlushedPeriodically | two events, a buffer of one, two starts that may overlap, one stop without start, one failed request |
| multi_provider | OutcomeJustified, FirstSuccessVerdict, ComparisonOutcome, EvaluationEnds | up to three providers, two values, with and without fallback |
| http_connector | CacheSound, SyncHandsOver, NothingAfterShutdown, ShutdownEnds | every combination of caches, two versions, answers with an ETag or with a Last-Modified, one bad answer or unasked 304, two cache updates in flight |
| goff_provider | AnswerConsistent, EventsTruthful, CacheFresh, ShutdownCompletes, ChangeArrives | one evaluation at a time beside the poller, two versions, two failed requests, two Inits (the model ends at one that overlaps) and two Shutdowns, an event channel of two |
| adapters | AnswerConveyed, ClosedUse, KeepsContract | every adapter, request, context and answer class; two Inits |
| flagd_config | ConnectsAsConfigured, LastOptionWins | every environment, with known and unknown values, any two options |
| ip_recovery | refutes RecoveryAnnounced | one change, one failure |
| provider_forwarding | refutes ShutdownWhileForwarding | two changes, events channel of one |

A property with several parts is the conjunction of named ones: CacheSound, for
example, of TypeOK, HeadersNameSent and OutageLeavesCache.  Each part has its comment
in the module.

The channels are smaller than in the code (EventCap 1 or 2 for 5, SyncEventCap 1
for 10), so that they fill up within a short behaviour; the same states are
reached with the real capacities after more changes.  MaxChanges, MaxBreaks,
MaxVersion, WireCap, MaxFailures, MaxFaults, MaxInits, MaxShutdowns, MaxOptions bound
the environment and the application only.  LiveSpec describes what happens
while the grace period of the stale timer lasts.  ip_live has no change after the first
configuration: with one it takes up to five minutes, and convergence after a change, at
rest rather than in the end, is what SourceFollowed says in provider_status and, for any
number of changes, in ServiceFollows.  rpc_cache has one flag, since all
types of two flags are too many states; that several flags do not disturb each other
is what the theorem CacheCoherence covers.  CHECK_DEADLOCK is off where the system
may stop: after Shutdown, or when the bounded environment has nothing left to do.

### What the violations show

- *ip_recovery*: `handleSyncEvent` clears `ready` and sends STALE later.  A
  configuration applied in between sends READY first; STALE is then the last
  event although the service is ready, and no later READY corrects it.
- *provider_forwarding*: Shutdown holds `mtx` and waits for the listener, the
  listener waits for room in the events channel, handleEvents waits for `mtx`.

### Exceptions the properties name

Where the code falls short of what one would like to state, the property names
the exception, so that it says exactly what holds:

- a fired stale timer is never started again, so a second outage stays STALE
  though the comment of `start` says "starts or restarts" (StaleHasTimer);
- the connection monitor may send on the closed sync events channel, which
  panics, in a shutdown only (PanicOnlyInShutdown);
- while Shutdown holds the provider's mutex nobody reads the events of the in-process
  service, and its listener, whose sends do not select on the context, may stay blocked
  on a full channel (ListenerBlocked in ShutdownCompletes); provider_forwarding shows
  that the provider reaches this;
- a service without a cache drops the notification before it sends the change event,
  whereas line 181 of the flagd README lists the event for every change
  (ChangeReported);
- a Stop without a running collector leaves a value that ends the next one
  (FlushedPeriodically); a Start that overlaps an earlier collector or a Stop leaves
  two goroutines for one value, of which the wrong one may take it, go on sending after
  Stop, or close a channel twice (StopIsLast, StopCompletes, FlushedPeriodically); the
  last flush of Stop is not repeated when it fails, although the README promises that no
  buffered events are lost on shutdown (FlushedOnStop);
- first success with errors and not founds mixed sits out its timeout, and
  comparison never reads the timeout, whereas line 44 of the multi-provider's README
  gives one to both (EvaluationEnds); the error of a single provider and of the
  fallback is dropped in a comparison (SuccessIsAnAnswer); after an error the caller gets
  the default with a general error, not "that error result" of line 80, the variant
  of an agreement is that of the first to arrive, and a fallback without metadata
  ends in a panic (ComparisonOutcome);
- a filled polling cache makes Sync succeed without handing anything to the
  resolver, against line 35 of the connector's README, and so does a 304 to the first
  request (SyncHandsOver); a torn body or a bad status under the HTTP cache leaves
  headers that suppress the update (HeadersNameSent);
- an answer on its way survives the purge of the remote cache (CacheFresh), which
  line 236 of the GO Feature Flag README does not say; a remote evaluator that is
  shut down twice does not stop its second poller, and a repeated Init leaves two
  collectors for one token (ShutdownCompletes); the event that finds the channel full
  is dropped for good (EventsTruthful);
- Harness and Prefab drop their client's error, the in-process GO Feature Flag
  module an unknown code (FailureReported); Statsig, Flagsmith and from-env truncate, and
  the application gets its default, without an error, for an object of AWS SSM, Prefab or
  Flipt and for a bool of Flagsmith (Withheld in ValueIsAnswer); from-env reports a missing integer as a type mismatch
  (UniformErrors);
- Harness and Prefab publish READY before the client, Flipt goes on over an address
  it could not parse or dial: such an evaluation ends the program (the mapping of
  `usable` in KeepsContract);
- FromEnv among the options resets a number whose variable is not set, a certificate
  path under FLAGD_TLS alone, and a cache or a resolver whose variable has an unknown
  value (LastOptionWins).  It never sets the port, so that the port of an option wins
  over the environment whatever the order, against lines 111-116 of the flagd README
  (ConnectsToPort); and an offline path wins over a custom sync provider, which lines
  71-74 call preferred (FileSource).

### Hazards without a property

Found while modelling, and not listed with the hazards because nothing can be stated
that would not restate a line: the FlagChanges of the RPC event start with empty
strings (`rpc/service.go:646`); the retry delay starts at zero and stays there until
the first message (`retryCounter.go:19`); after Shutdown a monitor may start the
stale timer again, and an inner Init that waits never returns
(`in_process/service.go:255`, `:426`); the flush in AddEvent holds the mutex for as
long as the relay takes; the goroutines of providers that answer "not found" late
are leaked (`comparison.go:268`); the metadata map and the enrichment's map are
written by concurrent evaluations; a Shutdown that overtakes Init or Sync leaves a
poller behind (`http_connector.go:306`, `inprocess.go:223`).

## Fairness

Weak fairness of a goroutine says only that it runs when it can.  FlagdRpc
assumes nothing of the application, and of the daemon only that an attempt to connect
is answered, by it or by an error of the network: the answer is a step of the stream
goroutine, and InitCompletes needs it.  ShutdownCompletes and
InitCompletes hold with nobody reading the events channel (sendEvent selects on
the context), and the two reporting properties have the reader as a premise.
FlagdInProcess additionally assumes a reader of the events channel until Shutdown is
called (from then on handleEvents waits for the mutex that Shutdown holds), that the
caller of Init takes its answer, and that a
broken connection comes back; gRPC reconnects by itself.  In DataCollector the mutex
is granted to a waiter that finds it free again and again (Go's mutex has a
starvation mode), a ticker that is not stopped ticks, and a request ends; nothing is
assumed after a panic, which ends the process.  MultiProvider assumes nothing of the
providers, the timer or the caller.  In HttpConnector a request ends by the client's
timeout, the resolver reads or closes its channel, and a sender that can enter again
and again does.  In GoffProvider the pollers run and the select takes a closed stop
channel in the end, since it chooses uniformly; its fairness ends where the model does,
at an Init that overlaps.

## Proofs

Every safety property a passing run checks, invariant or action property, is also a
theorem.  Each module of proofs EXTENDS the module it is about and holds for all values of
the constants that satisfy the module's ASSUMEs: any sets of flags, goroutines,
evaluations, providers, events and fields, any bounds on the environment, and channels,
caches and buffers of any positive size.

| Module | Theorem | Property |
|---|---|---|
| FlagdRpcProofs | CacheCoherence, InitVerdictKept | CacheCoherent, InitVerdict |
| FlagdProviderProofs | ServiceServes, ServiceFollows, ServiceStaleTimer, ServicePanics | InitMeansServing, SourceFollowed, StaleHasTimer, PanicOnlyInShutdown |
| FlagdProviderProofs | ProviderImplementsService, ProviderKeepsService, ProviderTruthful | ProviderSpec => Spec, the four above inside the provider, StatusTruthful |
| FlagdConfigurationProofs | LastWins, BuiltAsConfigured | LastOptionWins, ConnectsAsConfigured |
| DataCollectorProofs | NoAcceptedEventLost, NoUnexplainedDuplicate, LastFlushAlone, FlushAtStop | NothingLost, DuplicatesOnlyByFailure, StopIsLast, FlushedOnStop |
| GoffProviderProofs | ProviderAnswers, ProviderEvents, ProviderCacheFresh | AnswerConsistent, EventsTruthful, CacheFresh |
| HttpConnectorProofs | ConnectorCacheSound, ConnectorHandsOver, ConnectorQuietAfterShutdown | CacheSound, SyncHandsOver, NothingAfterShutdown |
| MultiProviderProofs | EvaluationJustified, FirstSuccessJustified, ComparisonJustified | OutcomeJustified, FirstSuccessVerdict, ComparisonOutcome |
| AdaptersProofs | AdaptersClosedUse, AdaptersKeepContract, AdaptersConveyAnswers | ClosedUse, KeepsContract, AnswerConveyed |

The assumptions are the types of the bounds, and that values which stand for "nothing" are
none of the values they are compared with: NoEntry is no definition, None no version, NoOne
no provider, value or answer (a provider whose answer is mistaken for the absence of one
would be counted wrongly), a malformed configuration no configuration.  A multi-provider has
a finite set of providers, not empty, since NewMultiProvider refuses an empty map.  The
fields of a configuration are disjoint by kind (FieldsAssumption), as the fields of a struct
are; on a field with two meanings an option could overwrite another.

None of the properties is inductive.  What each proof adds, and why:

*FlagdRpc.*  An entry is filled from an answer that travels through `answered` and `add`,
so CoherenceInv covers answers in flight (EntryInv, AddsStatic).  A notification excuses an
old entry only while it can still arrive: StreamInv says that undelivered messages exist
only while the goroutine is in streamClient, and that an enabled cache is switched off only
on the way out.  When caching is configured off, notifications are dropped, so the invariant
is that nothing is ever cached (UnusedCache).  One lemma per group of actions
(EntryDaemonChange, EntryHandleChange, EntryRemove, EntryAnswer, EntryAdd, ...) shows what
each does to a single entry.  VerdictInv adds what the stream-ready channel holds before
Init has read it.

*FlagdInProcess and FlagdProvider.*  SourceFollowed compares the two ends of a pipeline, so
ServiceInv says what its middle holds: LatestOnItsWay that the last configuration of the
source is the stored one or the last of those in the stream, the buffer and the listener's
hands; ViewCatchesUp that a flag the reader has not refreshed is named by an event in the
channel or still to be sent.  InitMeansServing needs AnnouncedFirst (READY is in the channel
before initSuccess is closed) and GivesUpEarly (a Sync that has served never gives up but in
a shutdown), StaleHasTimer needs StaleGuarded: the timer runs, or the goroutine that will
start it, or say something newer, is on its way.  The provider's Init and Shutdown call the
service, and handleEvents reads its channel, as the service's own specification allows them
to (ProviderImplementsService): hence everything proved of the service holds in the
provider, and ProviderInv only adds which event handleEvents holds.

*FlagdConfiguration.*  Options are applied one by one, to a configuration the environment
has been read into; ValuesInv says of every field that it has the value of the last setter
among those applied so far, or the default where Reset says so.  Precedence of any number of options follows by induction over
the steps, without induction over the sequence.

*The collector.*  What a request delivers is a copy taken earlier.  SendingInv says that
the holder of the mutex is the one that sends, and that its copy still equals the buffer;
RetryInv bounds the deliveries of what is still buffered by the failed requests; StopInv
ties Stop to the end of the one goroutine there is while no Start overlapped.  CollectInv is their conjunction with the type
invariant.  FlushAtStop is an action property.

*GoffProvider.*  CacheFresh is about entries; AnswersAfterPurge extends it to the
answers on their way to the cache that came after the last purge.  EventsTruthful needs to know the
last event that found room (NewestEventAgrees) and the status after all are read
(StatusAgrees).  OneRequester says that Init and the poller never request at once, which is
what makes a stored configuration at least as new as the one its requester read.

*HttpConnector.*  HeadersFollowed says where the payload is that a kept header belongs to:
handed over, in the worker's hands, or lost to a torn body, a shutdown or a resolver that is
gone.  FirstFetch is what makes SyncHandsOver inductive: before Sync returns there is no
header to send, and the channel has room.
ShutWhenQuiet ties the shutdown to the lock.

*MultiProvider.*  The collectors count, and a verdict depends on the counts being right:
Counted says that the number of not founds equals the cardinality of the set of providers
that said so, Delivered that a result is taken at most once and from a provider that gave
it.  The lemmas Fits and Accounted turn these into sizes of disjoint subsets of a finite
set, which yields both that no buffer overflows and that a collector that has counted to
the end has heard everyone.  Compared and Decides then show that the outcome of a comparison
is the one its answers determine.

*Adapters.*  One lemma per adapter shows what Resolve makes of any answer (UnleashConforms,
LaunchDarklyConforms, ...); ResolveConforms, ResolveConveys and FailureHasCode combine them.
The state part is small: Prepared carries the checks of Verify to the call, ReadyOpen and
Undisturbed say that a Ready adapter at rest has an open client and that an evaluation nothing
overlapped may rely on it.  The refinement of ProviderContract has a lemma per kind of step
(ReturnRefines, AbortRefines, InternalRefines, LifeRefines).  Its constants are the model's
own classes of requests and answers, so that the theorem is about any number of
initialisations of these fifteen adapters, not about other answers.

Two notations are chosen so that the provers and TLC mean the same: conditions that overlap
are IF, never CASE, whose choice among true conditions TLA+ leaves open; and UNION and SUBSET
are in parentheses beside another set operator.

## Only model-checked

The liveness properties: ShutdownCompletes, InitCompletes, ExhaustionReported, ChangeReported
(FlagdRpc); ShutdownCompletes, SourceConverges, OutageReported (FlagdInProcess);
StopCompletes, FlushedPeriodically (DataCollector); EvaluationEnds; ShutdownEnds;
ShutdownCompletes and ChangeArrives (GoffProvider).  They need fairness, hence ENABLED, which
the installed provers do not handle.  The two violations are TLC's as well: a proof that a
property fails would be a behaviour.

## Not modelled, and the plan

Next: abstract specifications for what is now a set of invariants, and the refinements
proved: a bag of accepted events that the collector delivers, a map of versions that the
caches of FlagdRpc and GoffProvider lag behind, one atomic evaluation that the
multi-provider's goroutines implement.

Not modelled: a second Init of the flagd services, FlagdProvider over the RPC
resolver, the file and custom sync providers of the in-process resolver; the hooks,
which keep no state; what follows an Init of the GO Feature Flag provider that
overlaps an earlier life (see its module); the reasons of LaunchDarkly and Flipt's error
for a nil context, each collapsed into the class of answers it shares an outcome with; a custom strategy of the multi-provider, which is the
caller's code.  Left out for good: generated and vendored code, logging, tests and
the flagd test framework, the contents of flag rules (the evaluators of flagd and GO
Feature Flag are libraries).
