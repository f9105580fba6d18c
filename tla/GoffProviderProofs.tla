------------------------- MODULE GoffProviderProofs -------------------------
(***************************************************************************)
(* Proofs about GoffProvider for every set of evaluations, every buffer of *)
(* the event channel and every bound.                                      *)
(***************************************************************************)
EXTENDS GoffProvider, TLAPS

-----------------------------------------------------------------------------
(* The parts of the inductive invariant *)

Requests(pcs) == [pc : pcs, answer : Answers]
Event == [kind : {"READY", "CONFIG_CHANGE", "STALE"}, version : Versions]
EvaluationRecord ==
    [pc : {"idle", "begun", "flag", "asked", "answered", "done"}, type : Types \cup {None},
     flag : Versions, other : Versions \cup Types, purges : Nat]

\* TypeOK with the shapes of the records it leaves open
Typed ==
    /\ opts \in SelectEvaluator
    /\ relay \in 1 .. MaxVersion /\ faults \in 0 .. MaxFaults
    /\ life \in {"new", "initialising", "ready", "error", "down"}
    /\ inits \in 0 .. MaxInits /\ shutdowns \in 0 .. MaxShutdowns /\ overlapped \in BOOLEAN
    /\ stopped \in BOOLEAN /\ once \in BOOLEAN
    /\ closing \in {"no", "collector", "poller"}
    /\ etag \in Versions /\ config \in [flags : Versions, enrichment : Versions]
    /\ stale \in BOOLEAN /\ dropped \in BOOLEAN
    /\ status \in {"NOT_READY", "READY", "STALE", "ERROR"}
    /\ cache = None \/ cache \in [type : Types, version : Versions, purges : Nat]
    /\ init \in Requests({"off", "asked", "answered"})
    /\ poll \in Requests({"off", "select", "asked", "answered", "purged"})
    /\ events \in Seq(Event) /\ Len(events) <= EventChannelBuffer
    /\ purges \in Nat
    /\ ev \in [Evaluations -> EvaluationRecord]
    /\ collectors \in [live : SUBSET (1 .. MaxInits), current : 0 .. MaxInits,
                       token : BOOLEAN, doubled : BOOLEAN]

\* Init and the poller do not run at the same time, and who is answered has a
\* configuration that is not older than the one stored
OneRequester ==
    /\ ~overlapped /\ init.pc # "off" => poll.pc = "off"
    /\ config.enrichment = config.flags /\ config.flags <= relay /\ etag <= relay
    /\ init.pc = "off" => init.answer = 0
    /\ init.pc = "answered" /\ init.answer \in Versions
         => init.answer <= relay /\ (~opts.remote => config.flags <= init.answer)
    /\ poll.pc \in {"answered", "purged"} /\ poll.answer \in Versions
         => config.flags <= poll.answer /\ poll.answer <= relay
    /\ poll.pc = "purged" => poll.answer \in Versions
    /\ poll.pc = "purged" /\ ~opts.remote => config.flags = poll.answer

\* Which evaluator an evaluation runs in, and what it has seen of the store
EvaluationsOwn ==
    \A e \in Evaluations :
        /\ ev[e].pc # "idle" => ev[e].type \in Types
        /\ ev[e].pc = "flag" => ~opts.remote /\ ev[e].flag <= config.flags
        /\ ev[e].pc \in {"asked", "answered"} => opts.remote
        /\ ev[e].pc = "done" /\ ~opts.remote =>
             ev[e].other \in Versions /\ ev[e].flag <= ev[e].other
               /\ ev[e].other <= config.enrichment

\* The last event that found room agrees with the stale flag
NewestEventAgrees ==
    events # <<>> /\ ~dropped
      => EventStatus[Last(events).kind] = IF stale THEN "STALE" ELSE "READY"

\* So does the status, when all events are read
StatusAgrees ==
    life = "ready" /\ ~dropped /\ events = <<>> /\ ~opts.remote
      => status = IF stale THEN "STALE" ELSE "READY"

\* The etag the poller knows, or is about to know
Baseline(v) == etag <= v /\ (poll.pc = "purged" /\ opts.remote => poll.answer <= v)

\* Answers that came after the last purge, in the cache or on their way to it
AnswersAfterPurge ==
    /\ ~opts.cache => cache = None
    /\ cache # None => cache.purges <= purges /\ (cache.purges = purges => Baseline(cache.version))
    /\ \A e \in Evaluations : ev[e].pc = "answered" =>
          ev[e].purges <= purges /\ (ev[e].purges = purges => Baseline(ev[e].flag))

ProviderInv ==
    /\ Typed /\ OneRequester /\ EvaluationsOwn /\ ServedTypeMatches
    /\ AnnouncedIsStored /\ NewestEventAgrees /\ StatusAgrees /\ AnswersAfterPurge

-----------------------------------------------------------------------------
(* Types *)

USE DEF vars, request, shutdownVars, eventVars, collect

\* The records the actions build
LEMMA Records ==
    /\ Idle \in Requests({"off"}) /\ Waiting \in Requests({"select"})
    /\ NoEvaluation \in EvaluationRecord /\ NoEvaluation.pc = "idle"
    /\ Versions \subseteq Answers /\ 0 \in Versions
    /\ Failed \notin Versions /\ NotModified \notin Versions /\ Failed # NotModified
BY BoundsAssumption DEF Idle, Waiting, Requests, NoEvaluation, EvaluationRecord, Answers,
   Versions, Failed, NotModified

\* emitEvent keeps the channel typed and within its buffer
LEMMA EmitType ==
    ASSUME Typed, NEW kind \in {"READY", "CONFIG_CHANGE", "STALE"},
           NEW version \in Versions, EmitEvent(kind, version)
    PROVE  events' \in Seq(Event) /\ Len(events') <= EventChannelBuffer /\ dropped' \in BOOLEAN
<1>1. [kind |-> kind, version |-> version] \in Event
  BY DEF Event
<1>2. CASE Len(events) < EventChannelBuffer
  <2>1. events' = Append(events, [kind |-> kind, version |-> version]) /\ dropped' = FALSE
    BY <1>2 DEF EmitEvent
  <2>2. events' \in Seq(Event) /\ Len(events') = Len(events) + 1
    BY <1>1, <2>1 DEF Typed
  <2>3. Len(events') <= EventChannelBuffer
    BY <1>2, <2>2, BoundsAssumption DEF Typed
  <2>4. QED
    BY <2>1, <2>2, <2>3
<1>3. CASE ~(Len(events) < EventChannelBuffer)
  <2>1. events' = events /\ dropped' = TRUE
    BY <1>3 DEF EmitEvent
  <2>2. QED
    BY <2>1 DEF Typed
<1>4. QED
  BY <1>2, <1>3

\* So does handleRefreshResult
LEMMA RefreshType ==
    ASSUME Typed, NEW answer \in Answers, HandleRefreshResult(answer)
    PROVE  /\ events' \in Seq(Event) /\ Len(events') <= EventChannelBuffer
           /\ dropped' \in BOOLEAN /\ stale' \in BOOLEAN
<1>1. stale' \in BOOLEAN
  BY DEF HandleRefreshResult
<1>2. CASE UNCHANGED <<events, dropped>>
  BY <1>1, <1>2 DEF Typed
<1>3. CASE EmitEvent("STALE", 0) \/ EmitEvent("READY", 0)
  BY <1>1, <1>3, EmitType, Records
<1>4. CASE answer \in Versions /\ EmitEvent("CONFIG_CHANGE", answer)
  BY <1>1, <1>4, EmitType
<1>5. QED
  BY <1>2, <1>3, <1>4, Zenon DEF HandleRefreshResult

\* NewProviderWithContext starts well typed
LEMMA NewProviderType == NewProvider => Typed
<1> SUFFICES ASSUME NewProvider PROVE Typed
  OBVIOUS
<1>1. stopped \in BOOLEAN /\ once \in BOOLEAN /\ stale \in BOOLEAN /\ dropped \in BOOLEAN
  BY DEF NewProvider, NewEvaluator
<1>2. collectors \in [live : SUBSET (1 .. MaxInits), current : 0 .. MaxInits,
                      token : BOOLEAN, doubled : BOOLEAN]
  BY BoundsAssumption DEF NewProvider
<1>3. /\ init \in Requests({"off", "asked", "answered"})
      /\ poll \in Requests({"off", "select", "asked", "answered", "purged"})
  BY Records DEF NewProvider, NewEvaluator, Requests
<1>4. events \in Seq(Event) /\ Len(events) <= EventChannelBuffer
  BY BoundsAssumption DEF NewProvider
<1>5. QED
  <2>1. overlapped \in BOOLEAN
    BY DEF NewProvider
  <2>2. QED
    BY <1>1, <1>2, <1>3, <1>4, <2>1, Records, BoundsAssumption
       DEF NewProvider, NewEvaluator, Typed, Versions

\* The types the runs check
LEMMA TypedIsTypeOK == Typed => TypeOK
<1> SUFFICES ASSUME Typed PROVE TypeOK
  OBVIOUS
<1>1. /\ init.pc \in {"off", "asked", "answered"} /\ init.answer \in Answers
      /\ poll.pc \in {"off", "select", "asked", "answered", "purged"} /\ poll.answer \in Answers
  BY DEF Typed, Requests
<1>2. \A e \in Evaluations : ev[e].type \in Types \cup {None}
  BY DEF Typed, EvaluationRecord
<1>3. collectors.live \subseteq 1 .. MaxInits /\ collectors.current \in 0 .. MaxInits
  BY DEF Typed
<1>4. QED
  BY <1>1, <1>2, <1>3 DEF Typed, TypeOK

\* The relay's answer to a request, and the failures it may count
LEMMA GetConfigurationFacts ==
    ASSUME Typed, NEW known, NEW answer \in Answers, GetConfiguration(known, answer)
    PROVE  faults' \in 0 .. MaxFaults /\ (answer \in Versions => answer = relay)
BY BoundsAssumption, Records DEF Typed, GetConfiguration

\* The variables that only Init, the poller and Shutdown move
LEMMA RelayType == ASSUME Typed, RelayChanges PROVE Typed'
BY BoundsAssumption DEF RelayChanges, Typed

\* InitWithContext and the answer it waits for keep the types
LEMMA InitType ==
    ASSUME Typed, InitWithContext \/ InitAnswered
    PROVE  Typed'
<1>1. CASE InitWithContext
  <2>1. inits' \in 0 .. MaxInits /\ inits + 1 \in 1 .. MaxInits
    BY <1>1, BoundsAssumption DEF InitWithContext, Typed
  <2>2. collectors' \in [live : SUBSET (1 .. MaxInits), current : 0 .. MaxInits,
                         token : BOOLEAN, doubled : BOOLEAN]
    <3>1. CASE opts.collector
      <4> DEFINE both == collectors.doubled \/ collectors.live # {}
      <4>1. collectors' = [collectors EXCEPT !.current = inits + 1,
                                             !.live = @ \cup {inits + 1},
                                             !.doubled = both]
        BY <1>1, <3>1 DEF InitWithContext, StartCollector
      <4>2. collectors \in [live : SUBSET (1 .. MaxInits), current : 0 .. MaxInits,
                            token : BOOLEAN, doubled : BOOLEAN]
        BY DEF Typed
      <4>3. both \in BOOLEAN
        OBVIOUS
      <4> HIDE DEF both
      <4>4. collectors' = [live |-> collectors.live \cup {inits + 1}, current |-> inits + 1,
                           token |-> collectors.token, doubled |-> both]
        BY <4>1, <4>2
      <4>5. /\ collectors.live \cup {inits + 1} \in SUBSET (1 .. MaxInits)
            /\ inits + 1 \in 0 .. MaxInits /\ collectors.token \in BOOLEAN
        BY <2>1, <4>2
      <4>6. QED
        BY <4>3, <4>4, <4>5
    <3>2. CASE ~opts.collector
      BY <1>1, <3>2 DEF InitWithContext, StartCollector, Typed
    <3>3. QED
      BY <3>1, <3>2
  <2>3. init' \in Requests({"off", "asked", "answered"})
    BY <1>1, Records DEF InitWithContext, Requests
  <2>4. overlapped' \in BOOLEAN
    BY <1>1 DEF InitWithContext
  <2>5. QED
    BY <1>1, <2>1, <2>2, <2>3, <2>4 DEF InitWithContext, Typed
<1>2. CASE InitAnswered
  <2>1. PICK a \in Answers : /\ GetConfiguration(IF opts.remote THEN 0 ELSE etag, a)
                             /\ init' = [pc |-> "answered", answer |-> a]
    BY <1>2 DEF InitAnswered
  <2>2. faults' \in 0 .. MaxFaults
    BY <2>1, GetConfigurationFacts
  <2>3. init' \in Requests({"off", "asked", "answered"})
    BY <2>1 DEF Requests
  <2>4. QED
    BY <1>2, <2>2, <2>3 DEF InitAnswered, Typed
<1>3. QED
  BY <1>1, <1>2

\* What StartPolling, InitReturns and StoreConfiguration leave behind
LEMMA InitPieces ==
    ASSUME Typed
    PROVE  /\ StartPolling => /\ stopped' \in BOOLEAN /\ once' \in BOOLEAN
                              /\ poll' \in Requests({"select"})
           /\ \A o \in {"ready", "error"} : InitReturns(o) =>
                /\ init' = Idle
                /\ life' \in {"new", "initialising", "ready", "error", "down"}
                /\ status' \in {"NOT_READY", "READY", "STALE", "ERROR"}
           /\ \A a \in Versions : StoreConfiguration(a) =>
                etag' \in Versions /\ config' \in [flags : Versions, enrichment : Versions]
<1>1. ASSUME StartPolling
      PROVE  stopped' \in BOOLEAN /\ once' \in BOOLEAN /\ poll' \in Requests({"select"})
  <2>1. stopped' \in BOOLEAN /\ once' \in BOOLEAN
    BY <1>1 DEF StartPolling
  <2>2. poll' \in Requests({"select"})
    BY <1>1, Records DEF StartPolling, Requests
  <2>3. QED
    BY <2>1, <2>2
<1>2. ASSUME NEW o \in {"ready", "error"}, InitReturns(o)
      PROVE  /\ init' = Idle
             /\ life' \in {"new", "initialising", "ready", "error", "down"}
             /\ status' \in {"NOT_READY", "READY", "STALE", "ERROR"}
  BY <1>2 DEF InitReturns, Typed
<1>3. ASSUME NEW a \in Versions, StoreConfiguration(a)
      PROVE  etag' \in Versions /\ config' \in [flags : Versions, enrichment : Versions]
  BY <1>3 DEF StoreConfiguration
<1>4. QED
  BY <1>1, <1>2, <1>3

\* The end of Init keeps the types
LEMMA InitEndsType ==
    ASSUME Typed, InProcessInit \/ RemoteInit
    PROVE  Typed'
<1>1. Idle \in Requests({"off", "asked", "answered"})
  BY Records DEF Requests
<1>2. Requests({"select"}) \subseteq Requests({"off", "select", "asked", "answered", "purged"})
  BY DEF Requests
<1>3. init.answer \in Answers
  BY DEF Typed, Requests
<1>4. CASE InProcessInit
  <2>1. /\ init' = Idle
        /\ life' \in {"new", "initialising", "ready", "error", "down"}
        /\ status' \in {"NOT_READY", "READY", "STALE", "ERROR"}
    BY <1>4, InitPieces DEF InProcessInit
  <2>2. CASE init.answer = Failed
    BY <1>1, <1>4, <2>1, <2>2 DEF InProcessInit, Typed
  <2>3. CASE init.answer # Failed
    <3>1. etag' \in Versions /\ config' \in [flags : Versions, enrichment : Versions]
      BY <1>4, <2>3, InitPieces DEF InProcessInit, Typed
    <3>2. /\ events' \in Seq(Event) /\ Len(events') <= EventChannelBuffer
          /\ dropped' \in BOOLEAN /\ stale' \in BOOLEAN
      BY <1>3, <1>4, <2>3, RefreshType DEF InProcessInit
    <3>3. /\ stopped' \in BOOLEAN /\ once' \in BOOLEAN
          /\ poll' \in Requests({"off", "select", "asked", "answered", "purged"})
      BY <1>2, <1>4, <2>3, InitPieces DEF InProcessInit
    <3>4. QED
      BY <1>1, <1>4, <2>1, <3>1, <3>2, <3>3 DEF InProcessInit, Typed
  <2>4. QED
    BY <2>2, <2>3
<1>5. CASE RemoteInit
  <2>1. /\ init' = Idle
        /\ life' \in {"new", "initialising", "ready", "error", "down"}
        /\ status' \in {"NOT_READY", "READY", "STALE", "ERROR"}
    BY <1>5, InitPieces DEF RemoteInit
  <2>2. etag' \in Versions /\ purges' \in Nat
    BY <1>5 DEF RemoteInit, Typed
  <2>3. /\ stopped' \in BOOLEAN /\ once' \in BOOLEAN
        /\ poll' \in Requests({"off", "select", "asked", "answered", "purged"})
    <3>1. CASE opts.cache
      BY <1>2, <1>5, <3>1, InitPieces DEF RemoteInit
    <3>2. CASE ~opts.cache
      BY <1>5, <3>2 DEF RemoteInit, Typed
    <3>3. QED
      BY <3>1, <3>2
  <2>4. QED
    BY <1>1, <1>5, <2>1, <2>2, <2>3 DEF RemoteInit, Typed
<1>6. QED
  BY <1>4, <1>5

\* The poller keeps the types
LEMMA PollType ==
    ASSUME Typed, Poll \/ PollStops, poll.pc = "purged" => poll.answer \in Versions
    PROVE  Typed'
<1> DEFINE PollRecords == Requests({"off", "select", "asked", "answered", "purged"})
<1>1. Idle \in PollRecords /\ Waiting \in PollRecords
  BY Records DEF Requests
<1>2. poll \in PollRecords /\ poll.answer \in Answers
  BY DEF Typed, Requests
<1>3. [poll EXCEPT !.pc = "purged"] \in PollRecords
  BY <1>2 DEF Requests
<1>4. CASE PollTick
  <2>1. poll' \in PollRecords
    BY <1>4, Records DEF PollTick, Typed, Requests
  <2>2. QED
    BY <1>4, <2>1 DEF PollTick, Typed
<1>5. CASE PollAnswered
  <2>1. PICK a \in Answers : /\ GetConfiguration(poll.answer, a)
                             /\ poll' = [pc |-> "answered", answer |-> a]
    BY <1>5 DEF PollAnswered
  <2>2. faults' \in 0 .. MaxFaults
    BY <2>1, GetConfigurationFacts
  <2>3. poll' \in PollRecords
    BY <2>1 DEF Requests
  <2>4. QED
    BY <1>5, <2>2, <2>3 DEF PollAnswered, Typed
<1>6. CASE InProcessRefresh
  <2>1. poll' \in PollRecords
    BY <1>1, <1>3, <1>6 DEF InProcessRefresh
  <2>2. CASE poll.answer \in Versions
    <3>1. etag' \in Versions /\ config' \in [flags : Versions, enrichment : Versions]
      BY <1>6, <2>2, InitPieces DEF InProcessRefresh
    <3>2. QED
      BY <1>6, <2>1, <2>2, <3>1 DEF InProcessRefresh, Typed
  <2>3. CASE poll.answer \notin Versions
    <3>1. /\ events' \in Seq(Event) /\ Len(events') <= EventChannelBuffer
          /\ dropped' \in BOOLEAN /\ stale' \in BOOLEAN
      BY <1>2, <1>6, <2>3, RefreshType DEF InProcessRefresh
    <3>2. QED
      BY <1>6, <2>1, <2>3, <3>1 DEF InProcessRefresh, Typed
  <2>4. QED
    BY <2>2, <2>3
<1>7. CASE InProcessAnnounce
  <2>1. /\ events' \in Seq(Event) /\ Len(events') <= EventChannelBuffer
        /\ dropped' \in BOOLEAN /\ stale' \in BOOLEAN
    BY <1>2, <1>7, RefreshType DEF InProcessAnnounce
  <2>2. QED
    BY <1>1, <1>7, <2>1 DEF InProcessAnnounce, Typed
<1>8. CASE RemotePurge
  <2>1. poll' \in PollRecords
    BY <1>1, <1>3, <1>8 DEF RemotePurge
  <2>2. purges' \in Nat /\ (cache' = None \/ cache' = cache)
    BY <1>8 DEF RemotePurge, Purge, Typed
  <2>3. QED
    BY <1>8, <2>1, <2>2 DEF RemotePurge, Typed
<1>9. CASE RemoteEtag
  BY <1>1, <1>9 DEF RemoteEtag, Typed
<1>10. CASE PollStops
  BY <1>1, <1>10 DEF PollStops, Typed
<1>11. QED
  BY <1>4, <1>5, <1>6, <1>7, <1>8, <1>9, <1>10 DEF Poll

\* Shutdown, the collector's goroutines and the SDK keep the types
LEMMA ShutdownType ==
    ASSUME Typed,
           \/ ShutdownWithContext \/ Shutdown \/ EventRead \/ CacheExpires
           \/ \E c \in 1 .. MaxInits : CollectorEnds(c)
    PROVE  Typed'
<1>1. collectors \in [live : SUBSET (1 .. MaxInits), current : 0 .. MaxInits,
                      token : BOOLEAN, doubled : BOOLEAN]
  BY DEF Typed
<1>2. CASE ShutdownWithContext
  <2> DEFINE put == collectors.token \/ opts.collector
  <2>1. collectors' = [collectors EXCEPT !.token = put]
    BY <1>2 DEF ShutdownWithContext
  <2>2. put \in BOOLEAN
    OBVIOUS
  <2> HIDE DEF put
  <2>3. collectors' \in [live : SUBSET (1 .. MaxInits), current : 0 .. MaxInits,
                         token : BOOLEAN, doubled : BOOLEAN]
    BY <1>1, <2>1, <2>2
  <2>4. shutdowns' \in 0 .. MaxShutdowns
    BY <1>2, BoundsAssumption DEF ShutdownWithContext, Typed
  <2>5. QED
    BY <1>2, <2>3, <2>4 DEF ShutdownWithContext, Typed
<1>3. CASE EvaluatorShutdown
  <2>1. stopped' \in BOOLEAN /\ once' \in BOOLEAN
    BY <1>3 DEF EvaluatorShutdown
  <2>2. closing' \in {"no", "collector", "poller"}
    BY <1>3 DEF EvaluatorShutdown
  <2>3. QED
    BY <1>3, <2>1, <2>2 DEF EvaluatorShutdown, Typed
<1>4. CASE ShutdownReturns
  BY <1>4 DEF ShutdownReturns, Typed
<1>5. CASE EventRead
  <2>1. events \in Seq(Event) /\ events # <<>>
    BY <1>5 DEF EventRead, Typed
  <2>2. Head(events) \in Event /\ events' \in Seq(Event) /\ Len(events') = Len(events) - 1
    BY <1>5, <2>1 DEF EventRead
  <2>3. status' \in {"NOT_READY", "READY", "STALE", "ERROR"}
    BY <1>5, <2>2 DEF EventRead, Event, EventStatus
  <2>4. Len(events') <= EventChannelBuffer
    BY <2>1, <2>2, BoundsAssumption DEF Typed
  <2>5. QED
    BY <1>5, <2>2, <2>3, <2>4 DEF EventRead, Typed
<1>6. CASE CacheExpires
  BY <1>6 DEF CacheExpires, Typed
<1>7. ASSUME NEW c \in 1 .. MaxInits, CollectorEnds(c) PROVE Typed'
  <2>1. collectors' \in [live : SUBSET (1 .. MaxInits), current : 0 .. MaxInits,
                         token : BOOLEAN, doubled : BOOLEAN]
    <3>1. collectors' = [live |-> collectors.live \ {c}, current |-> collectors.current,
                         token |-> FALSE, doubled |-> collectors.doubled]
      BY <1>1, <1>7 DEF CollectorEnds
    <3>2. QED
      BY <1>1, <3>1
  <2>2. UNCHANGED <<opts, relay, faults, life, inits, request, shutdownVars, etag, config,
                    eventVars, cache, purges, ev>>
    BY <1>7 DEF CollectorEnds
  <2>3. QED
    BY <2>1, <2>2 DEF Typed
<1>8. QED
  BY <1>2, <1>3, <1>4, <1>5, <1>6, <1>7 DEF Shutdown

\* What an evaluation's step does to its own record: every evaluator in turn
LEMMA EvaluationsType ==
    ASSUME Typed, NEW e \in Evaluations,
           \/ \E t \in Types : Evaluate(e, t)
           \/ CheckFlagExists(e) \/ EvaluateInProcess(e)
           \/ EvaluateCached(e) \/ EvaluateAnswered(e) \/ CacheSet(e),
           ev[e].pc # "idle" => ev[e].type \in Types
    PROVE  Typed'
<1>1. ev \in [Evaluations -> EvaluationRecord] /\ ev[e] \in EvaluationRecord
  BY DEF Typed
<1>2. ASSUME NEW r \in EvaluationRecord, ev' = [ev EXCEPT ![e] = r]
      PROVE  ev' \in [Evaluations -> EvaluationRecord]
  BY <1>1, <1>2
<1>3. ASSUME NEW t \in Types, Evaluate(e, t) PROVE Typed'
  <2>1. [NoEvaluation EXCEPT !.pc = "begun", !.type = t] \in EvaluationRecord
    BY Records DEF EvaluationRecord
  <2>2. ev' \in [Evaluations -> EvaluationRecord]
    BY <1>2, <1>3, <2>1 DEF Evaluate
  <2>3. UNCHANGED <<opts, relay, faults, life, inits, request, shutdownVars, etag, config,
                    eventVars, cache, purges, collect>>
    BY <1>3 DEF Evaluate
  <2>4. QED
    BY <2>2, <2>3 DEF Typed
<1>4. CASE CheckFlagExists(e)
  <2>1. [ev[e] EXCEPT !.pc = "flag", !.flag = config.flags] \in EvaluationRecord
    BY <1>1 DEF EvaluationRecord, Typed
  <2>2. ev' \in [Evaluations -> EvaluationRecord]
    BY <1>1, <1>2, <1>4, <2>1, Records DEF CheckFlagExists
  <2>3. QED
    BY <1>4, <2>2 DEF CheckFlagExists, Typed
<1>5. CASE EvaluateInProcess(e)
  <2>1. [ev[e] EXCEPT !.pc = "done", !.other = config.enrichment] \in EvaluationRecord
    BY <1>1 DEF EvaluationRecord, Typed
  <2>2. ev' \in [Evaluations -> EvaluationRecord]
    BY <1>1, <1>2, <1>5, <2>1 DEF EvaluateInProcess
  <2>3. QED
    BY <1>5, <2>2 DEF EvaluateInProcess, Typed
<1>6. CASE EvaluateCached(e)
  <2>1. ev' \in [Evaluations -> EvaluationRecord]
    <3>1. CASE CacheGet(ev[e].type) = None
      <4>1. [ev[e] EXCEPT !.pc = "asked"] \in EvaluationRecord
        BY <1>1 DEF EvaluationRecord
      <4>2. QED
        BY <1>1, <1>2, <1>6, <3>1, <4>1 DEF EvaluateCached
    <3>2. CASE CacheGet(ev[e].type) # None
      <4>1. CacheGet(ev[e].type) = cache /\ cache \in [type : Types, version : Versions, purges : Nat]
        BY <3>2 DEF CacheGet, Typed
      <4>2. [pc |-> "done", type |-> ev[e].type, flag |-> cache.version,
             other |-> cache.type, purges |-> cache.purges] \in EvaluationRecord
        BY <1>1, <4>1 DEF EvaluationRecord
      <4>3. QED
        BY <1>2, <1>6, <3>2, <4>1, <4>2 DEF EvaluateCached
    <3>3. QED
      BY <3>1, <3>2
  <2>2. QED
    BY <1>6, <2>1 DEF EvaluateCached, Typed
<1>7. CASE EvaluateAnswered(e)
  <2>1. [ev[e] EXCEPT !.pc = "answered", !.flag = relay, !.purges = purges] \in EvaluationRecord
    <3>1. relay \in Versions /\ purges \in Nat
      BY BoundsAssumption DEF Typed, Versions
    <3>2. QED
      BY <1>1, <3>1 DEF EvaluationRecord
  <2>2. ev' \in [Evaluations -> EvaluationRecord]
    BY <1>1, <1>2, <1>7, <2>1, Records DEF EvaluateAnswered
  <2>3. QED
    BY <1>7, <2>2 DEF EvaluateAnswered, Typed
<1>8. CASE CacheSet(e)
  <2>1. [type |-> ev[e].type, version |-> ev[e].flag, purges |-> ev[e].purges]
          \in [type : Types, version : Versions, purges : Nat]
    BY <1>1, <1>8 DEF CacheSet, EvaluationRecord
  <2>2. cache' = None \/ cache' \in [type : Types, version : Versions, purges : Nat]
    BY <1>8, <2>1 DEF CacheSet, Typed
  <2>3. ev' \in [Evaluations -> EvaluationRecord]
    BY <1>2, <1>8, Records DEF CacheSet
  <2>4. QED
    BY <1>8, <2>2, <2>3 DEF CacheSet, Typed
<1>9. QED
  BY <1>3, <1>4, <1>5, <1>6, <1>7, <1>8

-----------------------------------------------------------------------------
(* One requester at a time: configurations are stored in their order *)

\* Numbers of the invariant are integers
LEMMA Numbers ==
    ASSUME Typed
    PROVE  /\ relay \in Int /\ etag \in Int /\ config.flags \in Int /\ config.enrichment \in Int
           /\ 0 <= relay /\ Versions \subseteq Int
BY BoundsAssumption DEF Typed, Versions

\* Evaluations, Shutdown and the SDK touch no request and no configuration
LEMMA RequestsUntouched ==
    ASSUME \/ ShutdownWithContext \/ Shutdown \/ EventRead \/ CacheExpires
           \/ \E c \in 1 .. MaxInits : CollectorEnds(c)
           \/ \E e \in Evaluations :
                \/ \E t \in Types : Evaluate(e, t)
                \/ CheckFlagExists(e) \/ EvaluateInProcess(e)
                \/ EvaluateCached(e) \/ EvaluateAnswered(e) \/ CacheSet(e)
    PROVE  UNCHANGED <<opts, relay, init, poll, etag, config, purges, stale, dropped>>
<1>1. CASE ShutdownWithContext \/ Shutdown \/ EventRead \/ CacheExpires
  BY <1>1 DEF ShutdownWithContext, Shutdown, EvaluatorShutdown, ShutdownReturns, EventRead,
     CacheExpires
<1>2. CASE \E c \in 1 .. MaxInits : CollectorEnds(c)
  BY <1>2 DEF CollectorEnds
<1>3. ASSUME NEW e \in Evaluations, (\E t \in Types : Evaluate(e, t)) \/ CheckFlagExists(e)
                                      \/ EvaluateInProcess(e)
      PROVE  UNCHANGED <<opts, relay, init, poll, etag, config, purges, stale, dropped>>
  BY <1>3 DEF Evaluate, CheckFlagExists, EvaluateInProcess
<1>4. ASSUME NEW e \in Evaluations, EvaluateCached(e) \/ EvaluateAnswered(e) \/ CacheSet(e)
      PROVE  UNCHANGED <<opts, relay, init, poll, etag, config, purges, stale, dropped>>
  BY <1>4 DEF EvaluateCached, EvaluateAnswered, CacheSet
<1>5. QED
  BY <1>1, <1>2, <1>3, <1>4

\* Init and the poller take turns, and neither stores an older configuration;
\* the flags and the enrichment only grow
LEMMA RequesterStep ==
    ASSUME Typed, OneRequester, Next
    PROVE  OneRequester' /\ config.flags <= config'.flags
<1> USE Numbers DEF OneRequester
<1> ~overlapped
  BY DEF Next
<1>1. ASSUME UNCHANGED <<opts, relay, init, poll, etag, config>>
      PROVE  OneRequester' /\ config.flags <= config'.flags
  BY <1>1
<1>2. CASE RelayChanges
  <2>1. /\ relay' = relay + 1 /\ UNCHANGED <<opts, init, poll, etag, config>>
        /\ \A v \in Versions : v <= relay => v <= relay'
    BY <1>2 DEF RelayChanges
  <2>2. etag \in Versions /\ config.flags \in Versions
    BY DEF Typed
  <2>3. QED
    BY <2>1, <2>2
<1>3. CASE InitWithContext
  <2>1. /\ UNCHANGED <<opts, relay, poll, etag, config>>
        /\ init'.answer = 0 /\ init'.pc # "off"
        /\ init'.pc = "answered" => opts.remote
    BY <1>3 DEF InitWithContext
  <2>2. overlapped' = ~(closing = "no" /\ init.pc = "off" /\ poll.pc = "off")
    BY <1>3 DEF InitWithContext
  <2>3. ~overlapped' => poll.pc = "off"
    BY <2>2
  <2>4. QED
    BY <2>1, <2>3
<1>4. CASE InitAnswered
  <2>1. PICK a \in Answers : /\ GetConfiguration(IF opts.remote THEN 0 ELSE etag, a)
                             /\ init' = [pc |-> "answered", answer |-> a]
    BY <1>4 DEF InitAnswered
  <2>2. a \in Versions => a = relay
    BY <2>1, GetConfigurationFacts
  <2>3. poll.pc = "off" /\ UNCHANGED <<opts, relay, poll, etag, config>>
    BY <1>4 DEF InitAnswered
  <2>4. QED
    BY <2>1, <2>2, <2>3
<1>5. CASE InProcessInit
  <2>1. /\ init' = Idle /\ poll.pc = "off" /\ UNCHANGED <<opts, relay>>
        /\ poll' = poll \/ poll' = Waiting
    BY <1>5 DEF InProcessInit, InitReturns, StartPolling, Waiting
  <2>2. \/ UNCHANGED <<etag, config>>
        \/ init.answer \in Versions /\ etag' = init.answer
             /\ config' = [flags |-> init.answer, enrichment |-> init.answer]
    BY <1>5 DEF InProcessInit, StoreConfiguration
  <2>3. init.pc = "answered" /\ ~opts.remote
    BY <1>5 DEF InProcessInit
  <2>4. init'.pc = "off" /\ init'.answer = 0 /\ poll'.pc \in {"off", "select"}
    BY <2>1 DEF Idle, Waiting
  <2>5. QED
    BY <2>1, <2>2, <2>3, <2>4
<1>6. CASE RemoteInit
  <2>1. /\ init' = Idle /\ poll.pc = "off" /\ UNCHANGED <<opts, relay, config>>
        /\ poll' = poll \/ poll' = Waiting
    BY <1>6 DEF RemoteInit, InitReturns, StartPolling, Waiting
  <2>2. etag' = etag \/ (init.answer \in Versions /\ etag' = init.answer)
    BY <1>6 DEF RemoteInit
  <2>3. init.pc = "answered" /\ opts.remote
    BY <1>6 DEF RemoteInit
  <2>4. init'.pc = "off" /\ init'.answer = 0 /\ poll'.pc \in {"off", "select"}
    BY <2>1 DEF Idle, Waiting
  <2>5. QED
    BY <2>1, <2>2, <2>3, <2>4
<1>7. CASE PollTick
  <2>1. /\ poll'.pc = "asked" /\ init.pc = "off"
        /\ UNCHANGED <<opts, relay, init, etag, config>>
    BY <1>7 DEF PollTick
  <2>2. QED
    BY <2>1
<1>8. CASE PollAnswered
  <2>1. PICK a \in Answers : /\ GetConfiguration(poll.answer, a)
                             /\ poll' = [pc |-> "answered", answer |-> a]
    BY <1>8 DEF PollAnswered
  <2>2. a \in Versions => a = relay
    BY <2>1, GetConfigurationFacts
  <2>3. init.pc = "off" /\ UNCHANGED <<opts, relay, init, etag, config>>
    BY <1>8 DEF PollAnswered
  <2>4. QED
    BY <2>1, <2>2, <2>3
<1>9. CASE InProcessRefresh
  <2>1. init.pc = "off" /\ UNCHANGED <<opts, relay, init>> /\ poll.pc = "answered"
    BY <1>9 DEF InProcessRefresh
  <2>2. CASE poll.answer \in Versions
    <3>1. /\ etag' = poll.answer /\ poll'.answer = poll.answer /\ poll'.pc = "purged"
          /\ config'.flags = poll.answer /\ config'.enrichment = poll.answer
      BY <1>9, <2>2 DEF InProcessRefresh, StoreConfiguration, Typed, Requests
    <3>2. QED
      BY <2>1, <2>2, <3>1
  <2>3. CASE poll.answer \notin Versions
    <3>1. poll'.pc = "select" /\ UNCHANGED <<etag, config>>
      BY <1>9, <2>3 DEF InProcessRefresh, Waiting
    <3>2. QED
      BY <2>1, <3>1
  <2>4. QED
    BY <2>2, <2>3
<1>10. CASE RemotePurge
  <2>1. /\ init.pc = "off" /\ UNCHANGED <<opts, relay, init, etag, config>>
        /\ poll.pc = "answered" /\ opts.remote
        /\ \/ poll'.pc = "select"
           \/ poll'.pc = "purged" /\ poll'.answer = poll.answer /\ poll.answer \in Versions
    BY <1>10 DEF RemotePurge, Waiting, Typed, Requests
  <2>2. QED
    BY <2>1
<1>11. CASE InProcessAnnounce \/ RemoteEtag
  <2>1. /\ init.pc = "off" /\ UNCHANGED <<opts, relay, init, config>> /\ poll'.pc = "select"
        /\ etag' = etag \/ (poll.pc = "purged" /\ etag' = poll.answer)
    BY <1>11 DEF InProcessAnnounce, RemoteEtag, Waiting
  <2>2. QED
    BY <2>1
<1>12. CASE PollStops
  <2>1. poll'.pc = "off" /\ UNCHANGED <<opts, relay, init, etag, config>>
    BY <1>12 DEF PollStops, Idle
  <2>2. QED
    BY <2>1
<1>13. QED
  BY <1>1, <1>2, <1>3, <1>4, <1>5, <1>6, <1>7, <1>8, <1>9, <1>10, <1>11, <1>12,
     RequestsUntouched DEF Next, Step, Poll

-----------------------------------------------------------------------------
(* Evaluations *)

\* Init, the poller, the relay and Shutdown do not touch an evaluation
LEMMA EvaluationsUntouched ==
    ASSUME \/ RelayChanges \/ InitWithContext \/ InitAnswered \/ InProcessInit \/ RemoteInit
           \/ Poll \/ PollStops \/ ShutdownWithContext \/ Shutdown \/ EventRead \/ CacheExpires
           \/ \E c \in 1 .. MaxInits : CollectorEnds(c)
    PROVE  UNCHANGED <<ev, opts>>
<1>1. CASE RelayChanges \/ InitWithContext \/ InitAnswered \/ InProcessInit \/ RemoteInit
  BY <1>1 DEF RelayChanges, InitWithContext, InitAnswered, InProcessInit, RemoteInit
<1>2. CASE Poll \/ PollStops
  BY <1>2 DEF Poll, PollTick, PollAnswered, InProcessRefresh, InProcessAnnounce, RemotePurge,
     RemoteEtag, PollStops
<1>3. CASE ShutdownWithContext \/ Shutdown \/ EventRead \/ CacheExpires
  BY <1>3 DEF ShutdownWithContext, Shutdown, EvaluatorShutdown, ShutdownReturns, EventRead,
     CacheExpires
<1>4. CASE \E c \in 1 .. MaxInits : CollectorEnds(c)
  BY <1>4 DEF CollectorEnds
<1>5. QED
  BY <1>1, <1>2, <1>3, <1>4

\* What the invariant says of one evaluation
Own(e) ==
    /\ ev[e].pc # "idle" => ev[e].type \in Types
    /\ ev[e].pc = "flag" => ~opts.remote /\ ev[e].flag <= config.flags
    /\ ev[e].pc \in {"asked", "answered"} => opts.remote
    /\ ev[e].pc = "done" /\ ~opts.remote =>
         ev[e].other \in Versions /\ ev[e].flag <= ev[e].other /\ ev[e].other <= config.enrichment
    /\ ev[e].pc = "done" /\ opts.remote => ev[e].other = ev[e].type

\* Every evaluation has seen of the store what was there, in its order
LEMMA EvaluationsStep ==
    ASSUME Typed, OneRequester, EvaluationsOwn, ServedTypeMatches, Next
    PROVE  EvaluationsOwn' /\ ServedTypeMatches'
<1>1. \A e \in Evaluations : Own(e)
  BY DEF EvaluationsOwn, ServedTypeMatches, Own
<1> SUFFICES ASSUME NEW d \in Evaluations PROVE Own(d)'
  BY DEF EvaluationsOwn, ServedTypeMatches, Own
<1>2. /\ ev \in [Evaluations -> EvaluationRecord] /\ ev[d] \in EvaluationRecord
      /\ ev[d].flag \in Int
  BY Numbers DEF Typed, EvaluationRecord
<1>3. /\ config.flags <= config'.flags /\ config.enrichment = config.flags
      /\ config'.enrichment = config'.flags /\ config.flags \in Int /\ config'.flags \in Int
  <2>1. Typed /\ OneRequester /\ OneRequester' /\ config.flags <= config'.flags
    BY RequesterStep
  <2>2. config'.flags \in Int
    <3>1. config' \in [flags : Versions, enrichment : Versions]
      <4>1. CASE UNCHANGED config
        BY <4>1 DEF Typed
      <4>2. CASE \E a \in Versions : StoreConfiguration(a)
        BY <4>2, InitPieces
      <4>3. CASE InProcessInit \/ InProcessRefresh
        BY <4>1, <4>2, <4>3 DEF InProcessInit, InProcessRefresh
      <4>4. CASE RelayChanges \/ InitWithContext \/ InitAnswered \/ RemoteInit \/ PollStops
        BY <4>1, <4>4 DEF RelayChanges, InitWithContext, InitAnswered, RemoteInit, PollStops
      <4>5. CASE PollTick \/ PollAnswered \/ InProcessAnnounce \/ RemotePurge \/ RemoteEtag
        BY <4>1, <4>5 DEF PollTick, PollAnswered, InProcessAnnounce, RemotePurge, RemoteEtag
      <4>6. QED
        BY <4>1, <4>3, <4>4, <4>5, RequestsUntouched DEF Next, Step, Poll
    <3>2. QED
      BY <3>1, Numbers
  <2>3. QED
    BY <2>1, <2>2, Numbers DEF OneRequester
<1>4. ASSUME ev'[d] = ev[d], opts' = opts PROVE Own(d)'
  <2>1. Own(d)
    BY <1>1
  <2>2. ev[d].other \in Versions => ev[d].other \in Int
    BY Numbers
  <2>3. QED
    BY <1>2, <1>3, <1>4, <2>1, <2>2 DEF Own
<1>5. ASSUME NEW e \in Evaluations,
             \/ \E t \in Types : Evaluate(e, t)
             \/ CheckFlagExists(e) \/ EvaluateInProcess(e)
             \/ EvaluateCached(e) \/ EvaluateAnswered(e) \/ CacheSet(e)
      PROVE  Own(d)'
  <2>1. UNCHANGED <<opts, relay, config>>
    BY <1>5, RequestsUntouched
  <2>2. CASE d # e
    <3>1. ev'[d] = ev[d]
      BY <1>2, <1>5, <2>2 DEF Evaluate, CheckFlagExists, EvaluateInProcess, EvaluateCached,
         EvaluateAnswered, CacheSet
    <3>2. QED
      BY <1>4, <2>1, <3>1
  <2>3. CASE d = e
    <3>1. Own(d) /\ NoEvaluation.pc = "idle"
      BY <1>1, Records
    <3>2. ASSUME ev'[d] = NoEvaluation PROVE Own(d)'
      BY <3>1, <3>2 DEF Own
    <3>3. ASSUME NEW t \in Types, Evaluate(e, t) PROVE Own(d)'
      <4>1. ev'[d].pc = "begun" /\ ev'[d].type = t
        BY <1>2, <2>3, <3>3 DEF Evaluate, NoEvaluation
      <4>2. QED
        BY <4>1 DEF Own
    <3>4. CASE CheckFlagExists(e)
      <4>1. \/ ev'[d] = NoEvaluation
            \/ /\ ev'[d].pc = "flag" /\ ev'[d].type = ev[d].type /\ ev'[d].flag = config.flags
               /\ ev[d].pc = "begun" /\ ~opts.remote
        BY <1>2, <2>3, <3>4 DEF CheckFlagExists, EvaluationRecord
      <4>2. QED
        BY <1>3, <2>1, <3>1, <3>2, <4>1 DEF Own
    <3>5. CASE EvaluateInProcess(e)
      <4>1. /\ ev'[d].pc = "done" /\ ev'[d].type = ev[d].type /\ ev'[d].flag = ev[d].flag
            /\ ev'[d].other = config.enrichment /\ ev[d].pc = "flag"
        BY <1>2, <2>3, <3>5 DEF EvaluateInProcess, EvaluationRecord
      <4>2. config.enrichment \in Versions
        BY DEF Typed
      <4>3. QED
        BY <1>2, <1>3, <2>1, <3>1, <4>1, <4>2 DEF Own
    <3>6. CASE EvaluateCached(e)
      <4>1. opts.remote /\ ev[d].pc = "begun"
        BY <2>3, <3>6 DEF EvaluateCached
      <4>2. CASE CacheGet(ev[d].type) = None
        <5>1. ev'[d].pc = "asked" /\ ev'[d].type = ev[d].type
          BY <1>2, <2>3, <3>6, <4>2 DEF EvaluateCached, EvaluationRecord
        <5>2. QED
          BY <2>1, <3>1, <4>1, <5>1 DEF Own
      <4>3. CASE CacheGet(ev[d].type) # None
        <5>1. CacheGet(ev[d].type) = cache /\ cache.type = ev[d].type
          BY <4>3 DEF CacheGet
        <5>2. ev'[d] = [pc |-> "done", type |-> ev[d].type, flag |-> cache.version,
                        other |-> cache.type, purges |-> cache.purges]
          BY <1>2, <2>3, <3>6, <4>3, <5>1 DEF EvaluateCached
        <5>3. ev'[d].pc = "done" /\ ev'[d].type = ev[d].type /\ ev'[d].other = ev[d].type
          BY <5>1, <5>2
        <5>4. QED
          BY <2>1, <3>1, <4>1, <5>3 DEF Own
      <4>4. QED
        BY <4>2, <4>3
    <3>7. CASE EvaluateAnswered(e)
      <4>1. \/ ev'[d] = NoEvaluation
            \/ ev'[d].pc = "answered" /\ ev'[d].type = ev[d].type /\ ev[d].pc = "asked"
        BY <1>2, <2>3, <3>7 DEF EvaluateAnswered, EvaluationRecord
      <4>2. QED
        BY <2>1, <3>1, <3>2, <4>1 DEF Own
    <3>8. CASE CacheSet(e)
      BY <1>2, <2>3, <3>2, <3>8 DEF CacheSet
    <3>9. QED
      BY <1>5, <3>3, <3>4, <3>5, <3>6, <3>7, <3>8
  <2>4. QED
    BY <2>2, <2>3
<1>6. QED
  BY <1>4, <1>5, EvaluationsUntouched DEF Next, Step

-----------------------------------------------------------------------------
(* Events *)

\* The last of several elements stays the last when the first is taken
LEMMA TailLast ==
    ASSUME NEW S, NEW s \in Seq(S), s # <<>>, Len(s) # 1
    PROVE  Tail(s) # <<>> /\ Tail(s)[Len(Tail(s))] = s[Len(s)]
<1>1. Len(s) \in Nat /\ Len(s) > 1
  <2>1. Len(s) \in Nat /\ Len(s) > 0
    OBVIOUS
  <2>2. QED
    BY <2>1
<1>2. /\ Tail(s) \in Seq(S) /\ Len(Tail(s)) = Len(s) - 1
      /\ \A i \in 1 .. (Len(s) - 1) : Tail(s)[i] = s[i + 1]
  OBVIOUS
<1>3. Tail(s)[Len(s) - 1] = s[Len(s)]
  BY <1>1, <1>2
<1>4. Len(Tail(s)) # 0
  BY <1>1, <1>2
<1>5. Len(<<>>) = 0
  OBVIOUS
<1>6. Tail(s) # <<>>
  BY <1>4, <1>5, Zenon
<1>7. QED
  BY <1>2, <1>3, <1>6

\* An event that is emitted is the last one in the channel, or is dropped
LEMMA EmitFacts ==
    ASSUME Typed, NEW kind \in {"READY", "CONFIG_CHANGE", "STALE"},
           NEW version \in Versions, EmitEvent(kind, version)
    PROVE  \/ /\ dropped' /\ events' = events
           \/ /\ ~dropped' /\ events' # <<>> /\ Last(events').kind = kind
              /\ \A i \in DOMAIN events' :
                    \/ i \in DOMAIN events /\ events'[i] = events[i]
                    \/ events'[i] = [kind |-> kind, version |-> version]
<1> DEFINE new == [kind |-> kind, version |-> version]
<1>1. CASE Len(events) < EventChannelBuffer
  <2>1. events' = Append(events, new) /\ ~dropped' /\ new \in Event /\ events \in Seq(Event)
    BY <1>1 DEF EmitEvent, Event, Typed
  <2>2. new.kind = kind
    OBVIOUS
  <2> HIDE DEF new
  <2>3. /\ events' # <<>> /\ events'[Len(events')] = new
        /\ \A i \in DOMAIN events' : (i \in DOMAIN events /\ events'[i] = events[i]) \/ events'[i] = new
    BY <2>1
  <2>4. QED
    BY <2>1, <2>2, <2>3 DEF Last, new
<1>2. CASE ~(Len(events) < EventChannelBuffer)
  BY <1>2 DEF EmitEvent
<1>3. QED
  BY <1>1, <1>2

\* A refresh leaves the last event in agreement with the stale flag, drops it,
\* or had nothing to say; what it announces is the configuration it is about
LEMMA RefreshFacts ==
    ASSUME Typed, NEW answer \in Answers, HandleRefreshResult(answer), NewestEventAgrees
    PROVE  /\ NewestEventAgrees'
           /\ \/ dropped'
              \/ events' # <<>>
              \/ UNCHANGED <<events, dropped, stale>>
           /\ \A i \in DOMAIN events' :
                 \/ i \in DOMAIN events /\ events'[i] = events[i]
                 \/ events'[i].kind = "CONFIG_CHANGE" =>
                      answer \in Versions /\ events'[i].version = answer
           /\ answer # Failed => ~stale'
<1>1. /\ EventStatus["READY"] = "READY" /\ EventStatus["CONFIG_CHANGE"] = "READY"
      /\ EventStatus["STALE"] = "STALE"
  BY DEF EventStatus
<1>2. stale' <=> answer = Failed
  BY DEF HandleRefreshResult
<1>3. CASE answer = Failed /\ ~stale
  <2>1. EmitEvent("STALE", 0) /\ stale'
    BY <1>2, <1>3 DEF HandleRefreshResult
  <2>2. \/ dropped' /\ events' = events
        \/ /\ ~dropped' /\ events' # <<>> /\ Last(events').kind = "STALE"
           /\ \A i \in DOMAIN events' :
                 \/ i \in DOMAIN events /\ events'[i] = events[i]
                 \/ events'[i].kind = "STALE"
    BY <2>1, EmitFacts, Records
  <2>3. NewestEventAgrees'
    BY <1>1, <2>1, <2>2 DEF NewestEventAgrees
  <2>4. QED
    BY <1>3, <2>2, <2>3
<1>4. CASE answer \in Versions
  <2>1. EmitEvent("CONFIG_CHANGE", answer) /\ ~stale'
    BY <1>2, <1>4, Records DEF HandleRefreshResult
  <2>2. QED
    BY <1>1, <2>1, <1>4, EmitFacts DEF NewestEventAgrees
<1>5. CASE answer = NotModified /\ stale
  <2>1. EmitEvent("READY", 0) /\ ~stale'
    BY <1>2, <1>5, Records DEF HandleRefreshResult
  <2>2. QED
    BY <1>1, <2>1, EmitFacts, Records DEF NewestEventAgrees
<1>6. CASE (answer = Failed /\ stale) \/ (answer = NotModified /\ ~stale)
  <2>1. UNCHANGED <<events, dropped>>
    BY <1>6, Records DEF HandleRefreshResult
  <2>2. stale' = stale
    BY <1>2, <1>6, Records DEF Typed
  <2>3. QED
    BY <1>2, <2>1, <2>2 DEF NewestEventAgrees
<1>7. QED
  BY <1>3, <1>4, <1>5, <1>6 DEF Answers

\* The channel says nothing that is not stored, its last event agrees with the
\* stale flag, and so does the status of a ready provider that has read it all
LEMMA EventsStep ==
    ASSUME Typed, OneRequester, AnnouncedIsStored, NewestEventAgrees, StatusAgrees, Next
    PROVE  AnnouncedIsStored' /\ NewestEventAgrees' /\ StatusAgrees'
<1>1. config.flags <= config'.flags /\ config.flags \in Int
  BY RequesterStep, Numbers
<1>2. ASSUME NEW i \in DOMAIN events PROVE events[i].version \in Int
  <2>1. events[i] \in Event
    BY DEF Typed
  <2>2. QED
    BY <2>1, Numbers DEF Event
<1>3. \A i \in DOMAIN events :
         events[i].kind = "CONFIG_CHANGE" => config.flags >= events[i].version
  BY DEF AnnouncedIsStored
<1>4. ASSUME NEW answer \in Answers, HandleRefreshResult(answer),
             answer \in Versions => config'.flags = answer, config'.flags \in Int
      PROVE  AnnouncedIsStored' /\ NewestEventAgrees'
  <2>1. NewestEventAgrees'
    BY <1>4, RefreshFacts
  <2>2. ASSUME NEW i \in DOMAIN events', events'[i].kind = "CONFIG_CHANGE"
        PROVE  config'.flags >= events'[i].version
    <3>1. CASE i \in DOMAIN events /\ events'[i] = events[i]
      BY <1>1, <1>2, <1>3, <1>4, <2>2, <3>1
    <3>2. CASE answer \in Versions /\ events'[i].version = answer
      BY <1>4, <3>2
    <3>3. QED
      BY <1>4, <2>2, <3>1, <3>2, RefreshFacts
  <2>3. QED
    BY <2>1, <2>2 DEF AnnouncedIsStored
<1>5. ASSUME UNCHANGED <<events, dropped, stale, config, opts>>,
             life' = "ready" => (status' = status /\ life = "ready") \/ opts.remote
      PROVE  AnnouncedIsStored' /\ NewestEventAgrees' /\ StatusAgrees'
  BY <1>5 DEF AnnouncedIsStored, NewestEventAgrees, StatusAgrees
<1>6. ASSUME NEW answer \in Answers, HandleRefreshResult(answer), UNCHANGED <<life, status, opts>>
      PROVE  StatusAgrees'
  <2>1. dropped' \/ events' # <<>> \/ UNCHANGED <<events, dropped, stale>>
    BY <1>6, RefreshFacts
  <2>2. QED
    BY <1>6, <2>1 DEF StatusAgrees
<1>7. CASE RelayChanges \/ InitWithContext \/ InitAnswered
  BY <1>5, <1>7 DEF RelayChanges, InitWithContext, InitAnswered
<1>8. CASE RemoteInit
  BY <1>5, <1>8 DEF RemoteInit
<1>9. CASE InProcessInit
  <2>1. init.answer \in Answers /\ init.pc = "answered" /\ ~opts.remote /\ opts' = opts
    BY <1>9 DEF InProcessInit, Typed, Requests
  <2>2. CASE init.answer = Failed
    <3>1. UNCHANGED <<events, dropped, stale, config>> /\ InitReturns("error")
      BY <1>9, <2>2 DEF InProcessInit
    <3>2. life' = "ready" => status' = status /\ life = "ready"
      BY <3>1 DEF InitReturns
    <3>3. QED
      BY <1>5, <2>1, <3>1, <3>2
  <2>3. CASE init.answer # Failed
    <3>1. /\ HandleRefreshResult(init.answer) /\ InitReturns("ready")
          /\ init.answer \in Versions => config'.flags = init.answer
          /\ init.answer \notin Versions => config' = config
      BY <1>9, <2>3 DEF InProcessInit, StoreConfiguration
    <3>2. config'.flags \in Int
      BY <3>1, Numbers
    <3>3. AnnouncedIsStored' /\ NewestEventAgrees'
      BY <1>4, <2>1, <3>1, <3>2
    <3>4. StatusAgrees'
      <4>1. life' = "ready" => status' = "READY" \/ (status' = status /\ life = "ready")
        BY <3>1 DEF InitReturns
      <4>2. ~stale' /\ (dropped' \/ events' # <<>> \/ UNCHANGED <<events, dropped, stale>>)
        BY <2>1, <2>3, <3>1, RefreshFacts
      <4>3. QED
        BY <2>1, <4>1, <4>2 DEF StatusAgrees
    <3>5. QED
      BY <3>3, <3>4
  <2>4. QED
    BY <2>2, <2>3
<1>10. poll.answer \in Answers
  BY DEF Typed, Requests
<1>11. CASE InProcessRefresh
  <2>1. CASE poll.answer \in Versions
    <3>1. /\ UNCHANGED <<events, dropped, stale, life, status, opts>>
          /\ config'.flags = poll.answer
      BY <1>11, <2>1 DEF InProcessRefresh, StoreConfiguration
    <3>2. AnnouncedIsStored'
      <4>1. config'.flags \in Int
        BY <2>1, <3>1, Numbers
      <4>2. QED
        BY <1>1, <1>2, <1>3, <3>1, <4>1 DEF AnnouncedIsStored
    <3>3. QED
      BY <3>1, <3>2 DEF NewestEventAgrees, StatusAgrees
  <2>2. CASE poll.answer \notin Versions
    <3>1. HandleRefreshResult(poll.answer) /\ UNCHANGED <<config, life, status, opts>>
      BY <1>11, <2>2 DEF InProcessRefresh
    <3>2. QED
      BY <1>1, <1>4, <1>6, <1>10, <2>2, <3>1
  <2>3. QED
    BY <2>1, <2>2
<1>12. CASE InProcessAnnounce
  <2>1. /\ HandleRefreshResult(poll.answer) /\ UNCHANGED <<config, life, status, opts>>
        /\ poll.pc = "purged" /\ ~opts.remote
    BY <1>12 DEF InProcessAnnounce
  <2>2. config'.flags = poll.answer /\ config'.flags \in Int
    BY <1>1, <2>1 DEF OneRequester
  <2>3. QED
    BY <1>4, <1>6, <1>10, <2>1, <2>2
<1>13. CASE PollTick \/ PollAnswered \/ RemotePurge \/ RemoteEtag \/ PollStops
  BY <1>5, <1>13 DEF PollTick, PollAnswered, RemotePurge, RemoteEtag, PollStops
<1>14. CASE ShutdownWithContext \/ Shutdown \/ CacheExpires
  BY <1>5, <1>14 DEF ShutdownWithContext, Shutdown, EvaluatorShutdown, ShutdownReturns,
     CacheExpires
<1>15. CASE \E c \in 1 .. MaxInits : CollectorEnds(c)
  BY <1>5, <1>15 DEF CollectorEnds
<1>16. CASE EventRead
  <2>1. /\ events \in Seq(Event) /\ events # <<>> /\ events' = Tail(events)
        /\ status' = EventStatus[Head(events).kind]
        /\ UNCHANGED <<opts, life, config, stale, dropped>>
    BY <1>16 DEF EventRead, Typed
  <2>2. \A i \in DOMAIN events' : i + 1 \in DOMAIN events /\ events'[i] = events[i + 1]
    BY <2>1
  <2>3. AnnouncedIsStored'
    BY <1>3, <2>1, <2>2 DEF AnnouncedIsStored
  <2>4. CASE Len(events) = 1
    <3>1. events' = <<>> /\ Head(events) = Last(events)
      BY <2>1, <2>4 DEF Last
    <3>2. QED
      BY <2>1, <2>3, <3>1 DEF NewestEventAgrees, StatusAgrees
  <2>5. CASE Len(events) # 1
    <3>1. events' # <<>> /\ Last(events') = Last(events)
      BY <2>1, <2>5, TailLast DEF Last
    <3>2. QED
      BY <2>1, <2>3, <3>1 DEF NewestEventAgrees, StatusAgrees
  <2>6. QED
    BY <2>4, <2>5
<1>17. ASSUME NEW e \in Evaluations,
              \/ \E t \in Types : Evaluate(e, t)
              \/ CheckFlagExists(e) \/ EvaluateInProcess(e)
              \/ EvaluateCached(e) \/ EvaluateAnswered(e) \/ CacheSet(e)
       PROVE  AnnouncedIsStored' /\ NewestEventAgrees' /\ StatusAgrees'
  <2>1. UNCHANGED <<events, dropped, stale, config, opts, life, status>>
    BY <1>17 DEF Evaluate, CheckFlagExists, EvaluateInProcess, EvaluateCached,
       EvaluateAnswered, CacheSet
  <2>2. QED
    BY <1>5, <2>1
<1>18. QED
  BY <1>7, <1>8, <1>9, <1>11, <1>12, <1>13, <1>14, <1>15, <1>16, <1>17 DEF Next, Step, Poll

-----------------------------------------------------------------------------
(* The evaluation cache of the remote evaluator *)

\* An answer of version v that came when the cache had been purged p times
Fresh(p, v) == p <= purges /\ (p = purges => Baseline(v))

\* The same of the next state
FreshNext(p, v) ==
    /\ p <= purges'
    /\ p = purges' => etag' <= v /\ (poll'.pc = "purged" /\ opts'.remote => poll'.answer <= v)

\* Nothing a step does makes an answer stale that counts as fresh afterwards
LEMMA FreshStep ==
    ASSUME Typed, OneRequester, NEW p \in Nat, NEW v \in Versions, Fresh(p, v), opts.remote, Next
    PROVE  FreshNext(p, v)
<1>1. purges \in Nat /\ v \in Int /\ etag \in Int
  BY Numbers DEF Typed
<1>2. ASSUME UNCHANGED <<etag, poll, purges, opts>> PROVE FreshNext(p, v)
  BY <1>2 DEF Fresh, FreshNext, Baseline
<1>3. ASSUME UNCHANGED <<etag, purges>>, poll'.pc # "purged" PROVE FreshNext(p, v)
  BY <1>3 DEF Fresh, FreshNext, Baseline
<1>4. ASSUME purges' = purges + 1 PROVE FreshNext(p, v)
  BY <1>1, <1>4 DEF Fresh, FreshNext
<1>5. CASE RelayChanges \/ InitWithContext \/ InitAnswered
  BY <1>2, <1>5 DEF RelayChanges, InitWithContext, InitAnswered
<1>6. CASE RemoteInit
  <2>1. poll.pc = "off" /\ (poll' = poll \/ poll' = Waiting)
    BY <1>6 DEF RemoteInit, StartPolling, Waiting, OneRequester, Next
  <2>2. poll'.pc # "purged"
    BY <2>1 DEF Waiting
  <2>3. QED
    BY <1>3, <1>4, <1>6, <2>2 DEF RemoteInit
<1>7. CASE PollTick \/ PollAnswered \/ PollStops
  <2>1. poll'.pc # "purged" /\ UNCHANGED <<etag, purges>>
    BY <1>7 DEF PollTick, PollAnswered, PollStops, Idle
  <2>2. QED
    BY <1>3, <2>1
<1>8. CASE RemotePurge
  <2>1. CASE poll.answer \in Versions
    BY <1>4, <1>8, <2>1 DEF RemotePurge, Purge
  <2>2. CASE poll.answer \notin Versions
    BY <1>3, <1>8, <2>2 DEF RemotePurge, Waiting
  <2>3. QED
    BY <2>1, <2>2
<1>9. CASE RemoteEtag
  <2>1. poll.pc = "purged" /\ etag' = poll.answer /\ poll'.pc = "select" /\ purges' = purges
    BY <1>9 DEF RemoteEtag, Waiting
  <2>2. QED
    BY <2>1 DEF Fresh, FreshNext, Baseline
<1>10. CASE InProcessInit \/ InProcessRefresh \/ InProcessAnnounce
  BY <1>10 DEF InProcessInit, InProcessRefresh, InProcessAnnounce
<1>11. QED
  BY <1>2, <1>5, <1>6, <1>7, <1>8, <1>9, <1>10, RequestsUntouched DEF Next, Step, Poll

\* What is in the cache, or on its way to it, is fresh in that sense
LEMMA CacheStep ==
    ASSUME Typed, OneRequester, EvaluationsOwn, AnswersAfterPurge, Next
    PROVE  AnswersAfterPurge'
<1>1. opts' = opts
  BY RequestsUntouched, EvaluationsUntouched DEF Next, Step
<1>2. opts.cache => opts.remote
  BY DEF Typed, SelectEvaluator
<1>3. /\ cache # None => /\ Fresh(cache.purges, cache.version)
                         /\ cache.purges \in Nat /\ cache.version \in Versions /\ opts.remote
      /\ \A d \in Evaluations : ev[d].pc = "answered" =>
            /\ Fresh(ev[d].purges, ev[d].flag)
            /\ ev[d].purges \in Nat /\ ev[d].flag \in Versions /\ opts.remote
  <2>1. \A d \in Evaluations : ev[d].purges \in Nat /\ ev[d].flag \in Versions
    BY DEF Typed, EvaluationRecord
  <2>2. cache # None => cache.purges \in Nat /\ cache.version \in Versions /\ opts.remote
    BY <1>2 DEF Typed, AnswersAfterPurge
  <2>3. QED
    BY <2>1, <2>2 DEF AnswersAfterPurge, EvaluationsOwn, Fresh
<1>4. \/ cache' = cache \/ cache' = None
      \/ \E e \in Evaluations : /\ ev[e].pc = "answered" /\ opts.cache
                                /\ cache' = [type |-> ev[e].type, version |-> ev[e].flag,
                                             purges |-> ev[e].purges]
  <2>1. CASE RelayChanges \/ InitWithContext \/ InitAnswered \/ InProcessInit \/ RemoteInit
    BY <2>1 DEF RelayChanges, InitWithContext, InitAnswered, InProcessInit, RemoteInit
  <2>2. CASE Poll \/ PollStops
    BY <2>2 DEF Poll, PollTick, PollAnswered, InProcessRefresh, InProcessAnnounce, RemotePurge,
       RemoteEtag, PollStops, Purge
  <2>3. CASE ShutdownWithContext \/ Shutdown \/ EventRead \/ CacheExpires
    BY <2>3 DEF ShutdownWithContext, Shutdown, EvaluatorShutdown, ShutdownReturns, EventRead,
       CacheExpires
  <2>4. CASE \E c \in 1 .. MaxInits : CollectorEnds(c)
    BY <2>4 DEF CollectorEnds
  <2>5. ASSUME NEW e \in Evaluations,
               \/ \E t \in Types : Evaluate(e, t)
               \/ CheckFlagExists(e) \/ EvaluateInProcess(e)
               \/ EvaluateCached(e) \/ EvaluateAnswered(e)
        PROVE  cache' = cache
    BY <2>5 DEF Evaluate, CheckFlagExists, EvaluateInProcess, EvaluateCached, EvaluateAnswered
  <2>6. ASSUME NEW e \in Evaluations, CacheSet(e)
        PROVE  \/ cache' = cache
               \/ /\ ev[e].pc = "answered" /\ opts.cache
                  /\ cache' = [type |-> ev[e].type, version |-> ev[e].flag,
                               purges |-> ev[e].purges]
    BY <2>6 DEF CacheSet
  <2>7. QED
    BY <2>1, <2>2, <2>3, <2>4, <2>5, <2>6 DEF Next, Step
<1>5. ASSUME cache' # None PROVE FreshNext(cache'.purges, cache'.version) /\ opts.cache
  <2>1. CASE cache' = cache
    <3>1. cache # None /\ opts.cache
      BY <1>5, <2>1 DEF AnswersAfterPurge
    <3>2. FreshNext(cache.purges, cache.version)
      BY <1>3, <3>1, FreshStep
    <3>3. QED
      BY <2>1, <3>1, <3>2
  <2>2. ASSUME NEW e \in Evaluations, ev[e].pc = "answered", opts.cache,
               cache' = [type |-> ev[e].type, version |-> ev[e].flag, purges |-> ev[e].purges]
        PROVE  FreshNext(cache'.purges, cache'.version)
    <3>1. cache'.purges = ev[e].purges /\ cache'.version = ev[e].flag
      BY <2>2
    <3>2. FreshNext(ev[e].purges, ev[e].flag)
      BY <1>3, <2>2, FreshStep
    <3>3. QED
      BY <3>1, <3>2
  <2>3. QED
    BY <1>4, <1>5, <2>1, <2>2
<1>6. ASSUME NEW d \in Evaluations, ev'[d].pc = "answered"
      PROVE  FreshNext(ev'[d].purges, ev'[d].flag)
  <2>1. CASE ev'[d] = ev[d]
    <3>1. FreshNext(ev[d].purges, ev[d].flag)
      BY <1>3, <1>6, <2>1, FreshStep
    <3>2. QED
      BY <2>1, <3>1
  <2>2. ASSUME NEW e \in Evaluations,
               \/ \E t \in Types : Evaluate(e, t)
               \/ CheckFlagExists(e) \/ EvaluateInProcess(e)
               \/ EvaluateCached(e) \/ EvaluateAnswered(e) \/ CacheSet(e),
               ev'[d] # ev[d]
        PROVE  FreshNext(ev'[d].purges, ev'[d].flag)
    <3>1. /\ ev \in [Evaluations -> EvaluationRecord] /\ ev[e] \in EvaluationRecord
          /\ NoEvaluation.pc = "idle" /\ purges \in Nat
      BY Records DEF Typed
    <3>2. UNCHANGED <<opts, relay, poll, etag, purges>>
      BY <2>2, RequestsUntouched
    <3>3. d = e
      BY <2>2, <3>1 DEF Evaluate, CheckFlagExists, EvaluateInProcess, EvaluateCached,
         EvaluateAnswered, CacheSet
    <3>4. ~((\E t \in Types : Evaluate(e, t)) \/ CheckFlagExists(e) \/ EvaluateInProcess(e))
      <4>1. ASSUME NEW t \in Types, Evaluate(e, t) PROVE ev'[d].pc = "begun"
        BY <3>1, <3>3, <4>1 DEF Evaluate, NoEvaluation
      <4>2. ASSUME CheckFlagExists(e) PROVE ev'[d] = NoEvaluation \/ ev'[d].pc = "flag"
        BY <3>1, <3>3, <4>2 DEF CheckFlagExists, EvaluationRecord
      <4>3. ASSUME EvaluateInProcess(e) PROVE ev'[d].pc = "done"
        BY <3>1, <3>3, <4>3 DEF EvaluateInProcess, EvaluationRecord
      <4>4. QED
        BY <1>6, <3>1, <4>1, <4>2, <4>3
    <3>5. ~EvaluateCached(e) /\ ~CacheSet(e)
      BY <1>6, <3>1, <3>3 DEF EvaluateCached, CacheSet, EvaluationRecord
    <3>6. EvaluateAnswered(e) /\ ev'[d].flag = relay /\ ev'[d].purges = purges
      BY <1>6, <2>2, <3>1, <3>3, <3>4, <3>5 DEF EvaluateAnswered, EvaluationRecord
    <3>7. QED
      BY <3>1, <3>2, <3>6 DEF FreshNext, OneRequester
  <2>3. QED
    BY <2>1, <2>2, EvaluationsUntouched DEF Next, Step
<1>7. QED
  BY <1>1, <1>5, <1>6 DEF AnswersAfterPurge, Baseline, FreshNext

-----------------------------------------------------------------------------
(* The theorems *)

\* The inductive invariant holds of a new provider, ...
LEMMA InvInit == NewProvider => ProviderInv
<1> SUFFICES ASSUME NewProvider PROVE ProviderInv
  OBVIOUS
<1>1. Typed
  BY NewProviderType
<1>2. /\ init.pc = "off" /\ init.answer = 0 /\ poll.pc = "off" /\ config.flags = 0
      /\ config.enrichment = 0 /\ etag = 0 /\ relay = 1 /\ cache = None /\ events = <<>>
      /\ life = "new" /\ \A e \in Evaluations : ev[e].pc = "idle"
  BY Records DEF NewProvider, NewEvaluator, Idle
<1>3. OneRequester /\ EvaluationsOwn /\ ServedTypeMatches
  BY <1>2 DEF OneRequester, EvaluationsOwn, ServedTypeMatches
<1>4. AnnouncedIsStored /\ NewestEventAgrees /\ StatusAgrees
  BY <1>2 DEF AnnouncedIsStored, NewestEventAgrees, StatusAgrees
<1>5. AnswersAfterPurge
  BY <1>2 DEF AnswersAfterPurge
<1>6. QED
  BY <1>1, <1>3, <1>4, <1>5 DEF ProviderInv

\* ... and after every step
LEMMA InvNext == ASSUME ProviderInv, [Next]_vars PROVE ProviderInv'
<1>1. CASE Next
  <2>1. Typed'
    <3>1. /\ poll.pc = "purged" => poll.answer \in Versions
          /\ \A e \in Evaluations : ev[e].pc # "idle" => ev[e].type \in Types
      BY DEF ProviderInv, OneRequester, EvaluationsOwn
    <3>2. QED
      BY <1>1, <3>1, RelayType, InitType, InitEndsType, PollType, ShutdownType, EvaluationsType
         DEF Next, Step, ProviderInv
  <2>2. OneRequester' /\ EvaluationsOwn' /\ ServedTypeMatches'
    BY <1>1, RequesterStep, EvaluationsStep DEF ProviderInv
  <2>3. AnnouncedIsStored' /\ NewestEventAgrees' /\ StatusAgrees' /\ AnswersAfterPurge'
    BY <1>1, EventsStep, CacheStep DEF ProviderInv
  <2>4. QED
    BY <2>1, <2>2, <2>3 DEF ProviderInv
<1>2. CASE UNCHANGED vars
  <2>1. Typed' /\ OneRequester'
    BY <1>2 DEF ProviderInv, Typed, OneRequester
  <2>2. EvaluationsOwn' /\ ServedTypeMatches' /\ AnswersAfterPurge'
    BY <1>2 DEF ProviderInv, EvaluationsOwn, ServedTypeMatches, AnswersAfterPurge, Baseline
  <2>3. AnnouncedIsStored' /\ NewestEventAgrees' /\ StatusAgrees'
    BY <1>2 DEF ProviderInv, AnnouncedIsStored, NewestEventAgrees, StatusAgrees
  <2>4. QED
    BY <2>1, <2>2, <2>3 DEF ProviderInv
<1>3. QED
  BY <1>1, <1>2

\* Every behaviour of the provider keeps the inductive invariant.
THEOREM ProviderInvariant == Spec => []ProviderInv
<1>1. ProviderInv /\ [Next]_vars => ProviderInv'
  BY InvNext
<1>2. QED
  BY <1>1, InvInit, PTL DEF Spec

\* An in-process evaluation never combines a flag with an older enrichment, nor
\* with one that is not stored, and the remote evaluator serves from its cache
\* only answers of the type asked for, for every number of concurrent
\* evaluations (inprocess.go evaluate, cache.go Get*).
THEOREM ProviderAnswers == Spec => []AnswerConsistent
<1>1. ProviderInv => AnswerConsistent
  BY TypedIsTypeOK DEF ProviderInv, EvaluationsOwn, AnswerConsistent, EvaluationConsistent
<1>2. QED
  BY <1>1, ProviderInvariant, PTL

\* A ProviderConfigChange in the channel is about a configuration that is stored,
\* and unless the channel overflowed the last event agrees with the last refresh,
\* for every buffer size (handleRefreshResult, emitEvent).
THEOREM ProviderEvents == Spec => []EventsTruthful
<1>1. ProviderInv => EventsTruthful
  BY DEF ProviderInv, EventsTruthful, StatusFollowsRefresh, NewestEventAgrees, StatusAgrees
<1>2. QED
  BY <1>1, ProviderInvariant, PTL

\* What the cache of the remote evaluator holds since its last purge is not older
\* than the etag its poller knows (remote.go startPolling, cache.go).
THEOREM ProviderCacheFresh == Spec => []CacheFresh
<1>1. ASSUME ProviderInv PROVE CacheFresh
  <2> SUFFICES ASSUME cache # None, cache.purges = purges PROVE cache.version >= etag
    BY DEF CacheFresh
  <2>1. Typed /\ etag <= cache.version
    BY <1>1 DEF ProviderInv, AnswersAfterPurge, Baseline
  <2>2. cache.version \in Versions
    BY <2>1 DEF Typed
  <2>3. cache.version \in Int /\ etag \in Int
    BY <2>1, <2>2, Numbers
  <2>4. QED
    BY <2>1, <2>3
<1>2. QED
  BY <1>1, ProviderInvariant, PTL
=============================================================================
