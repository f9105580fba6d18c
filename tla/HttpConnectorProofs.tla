------------------------ MODULE HttpConnectorProofs ------------------------
(***************************************************************************)
(* Proofs about HttpConnector for every number of versions, of bad answers *)
(* and of cache updates in flight.                                         *)
(***************************************************************************)
EXTENDS HttpConnector, TLAPS, FiniteSetTheorems

USE DEF vars, conn, fetcher, Empty, Payloads

-----------------------------------------------------------------------------
(* The parts of the inductive invariant *)

\* Only an initialised connector is shut down, and the shutdown waits for the
\* sender that holds the lock
ShutWhenQuiet ==
    /\ shut => initialized
    /\ worker.pc = "blocked" => ~shut

\* Before Sync has returned: the first fetch has no header to send, and the first
\* send finds room in the channel
FirstFetch ==
    /\ ~initialized => channel = None
    /\ ~initialized /\ worker.pc \in {"idle", "request"} => etag = Empty /\ modified = Empty
    /\ worker.pc \in {"polling", "ended", "blocked"} => initialized
    /\ worker.pc \in {"fallback", "resend"} => ~initialized

\* Where the payload is that a header of the fetcher belongs to
Followed(header) ==
    opts.http /\ header # Empty =>
      /\ worker.pc \in {"idle", "request", "polling", "ended"}
           => sent = header \/ spoilt \/ shut \/ gone
      /\ worker.pc \in {"fallback", "resend"} => spoilt \/ gone
      /\ worker.pc \in {"send", "blocked"} => worker.payload = header \/ spoilt

HeadersFollowed == Followed(etag) /\ Followed(modified)

\* Without the HTTP cache nothing that is on its way is empty
NothingEmpty ==
    ~opts.http =>
      /\ worker.pc \in {"send", "resend", "blocked"} => worker.payload # Empty
      /\ sent # Empty /\ Empty \notin updates

ConnectorInv ==
    TypeOK /\ ShutWhenQuiet /\ FirstFetch /\ HeadersFollowed /\ NothingEmpty /\ SyncHandsOver

-----------------------------------------------------------------------------
(* What the shared pieces of the actions do *)

Pcs == {"idle", "request", "send", "fallback", "resend", "blocked", "polling", "ended"}

WorkerType == worker \in [pc : Pcs, payload : Payloads]

\* A fetch ends in the polling loop of an initialised connector, or goes to the
\* cache in Sync
LEMMA FetchEndsFacts ==
    ASSUME NEW success \in BOOLEAN, initialized \in BOOLEAN, FetchEnds(success)
    PROVE  /\ WorkerType' /\ initialized' \in BOOLEAN
           /\ \/ worker'.pc = "polling" /\ initialized' /\ (success \/ initialized)
              \/ worker'.pc = "fallback" /\ ~initialized /\ ~initialized' /\ ~success
<1>1. CASE success \/ initialized
  <2>1. worker' = [pc |-> "polling", payload |-> 0] /\ initialized' = TRUE
    BY <1>1 DEF FetchEnds, StartPolling
  <2>2. WorkerType' /\ worker'.pc = "polling"
    BY <2>1, BoundsAssumption DEF WorkerType, Pcs
  <2>3. QED
    BY <1>1, <2>1, <2>2
<1>2. CASE ~(success \/ initialized)
  <2>1. worker' = [pc |-> "fallback", payload |-> 0] /\ initialized' = initialized
    BY <1>2 DEF FetchEnds
  <2>2. WorkerType' /\ worker'.pc = "fallback"
    BY <2>1, BoundsAssumption DEF WorkerType, Pcs
  <2>3. QED
    BY <1>2, <2>1, <2>2
<1>3. QED
  BY <1>1, <1>2

\* A payload that was read goes on to the channel and, with a cache, to the cache
LEMMA ReceivedFacts ==
    ASSUME TypeOK, NEW payload \in Payloads, Received(payload)
    PROVE  /\ WorkerType' /\ worker'.pc = "send" /\ worker'.payload = payload
           /\ updates' \in SUBSET Payloads /\ Cardinality(updates') <= MaxPending
           /\ updates' \subseteq updates \cup {payload}
           /\ initialized' = initialized
BY DEF Received, WorkerType, Pcs, TypeOK

\* The headers the fetcher keeps are those of the answer, or none; a connector
\* without the fetcher keeps what it had
LEMMA StoreHeadersFacts ==
    ASSUME TypeOK, StoreHeaders
    PROVE  /\ etag' \in Payloads /\ modified' \in Payloads
           /\ opts.http => etag' \in {Empty, source} /\ modified' \in {Empty, source}
<1>1. source \in Payloads /\ 0 \in Payloads
  BY BoundsAssumption DEF TypeOK
<1>2. QED
  BY <1>1 DEF StoreHeaders, TypeOK

\* A cache update that has run leaves no more of them than there were
LEMMA UpdatesShrink ==
    ASSUME TypeOK, NEW payload \in updates
    PROVE  Cardinality(updates \ {payload}) <= MaxPending
<1>1. IsFiniteSet(0 .. MaxVersion)
  BY FS_Interval, BoundsAssumption
<1>2. IsFiniteSet(updates)
  BY <1>1, FS_Subset DEF TypeOK
<1>3. Cardinality(updates) \in Nat
  BY <1>2, FS_CardinalityType
<1>4. Cardinality(updates \ {payload}) = Cardinality(updates) - 1
  BY <1>2, FS_RemoveElement
<1>5. QED
  BY <1>3, <1>4, BoundsAssumption DEF TypeOK

-----------------------------------------------------------------------------
(* Type correctness *)

\* NewHttpConnector starts well typed
LEMMA InitType == Init => TypeOK
<1> SUFFICES ASSUME Init PROVE TypeOK
  OBVIOUS
<1>1. Cardinality(updates) <= MaxPending
  BY FS_EmptySet, BoundsAssumption DEF Init, NewHttpConnector
<1>2. /\ initialized \in BOOLEAN /\ shut \in BOOLEAN /\ closing \in BOOLEAN
      /\ due \in BOOLEAN /\ gone \in BOOLEAN /\ spoilt \in BOOLEAN
  BY DEF Init, NewHttpConnector
<1>3. cache \in [poll : Payloads, failsafe : Payloads] /\ worker \in [pc : Pcs, payload : Payloads]
  BY BoundsAssumption DEF Init, NewHttpConnector, Idle, Pcs
<1>4. QED
  BY <1>1, <1>2, <1>3, BoundsAssumption DEF Init, NewHttpConnector, TypeOK, Pcs

\* The variables a fetch or a send moves, in one place
FetchType ==
    /\ WorkerType /\ initialized \in BOOLEAN /\ start \in {"ok", "cached", "unmodified", "nothing"}
    /\ etag \in Payloads /\ modified \in Payloads /\ spoilt \in BOOLEAN /\ faults \in 0 .. MaxFaults
    /\ updates \in SUBSET Payloads /\ Cardinality(updates) <= MaxPending
    /\ channel \in Payloads \cup {None} /\ sent \in Payloads \cup {None}

\* A fetch or a send that keeps its own variables typed keeps all of them typed
LEMMA FetchTyped ==
    ASSUME TypeOK, FetchType', UNCHANGED <<opts, source, cache, shut, closing, due, gone>>
    PROVE  TypeOK'
BY DEF TypeOK, FetchType, WorkerType, Pcs

\* The beginning of a fetch
LEMMA FetchAndUpdateType ==
    ASSUME TypeOK, FetchAndUpdate,
           UNCHANGED <<opts, source, faults, cache, shut, closing, fetcher, due, updates,
                       channel, gone, sent, spoilt>>
    PROVE  TypeOK'
<1>1. WorkerType' /\ initialized' \in BOOLEAN
  <2>1. CASE FetchEnds(TRUE) \/ FetchEnds(FALSE)
    BY <2>1, FetchEndsFacts DEF TypeOK
  <2>2. CASE worker' = [pc |-> "request", payload |-> 0] /\ initialized' = initialized
    <3>1. WorkerType'
      BY <2>2, BoundsAssumption DEF WorkerType, Pcs
    <3>2. QED
      BY <2>2, <3>1 DEF TypeOK
  <2>3. QED
    BY <2>1, <2>2, Zenon DEF FetchAndUpdate
<1>2. start' \in {"ok", "cached", "unmodified", "nothing"}
  BY DEF FetchAndUpdate, TypeOK
<1>3. QED
  BY <1>1, <1>2, FetchTyped DEF FetchType, TypeOK

\* The answers to a request keep the types
LEMMA AnsweredType ==
    ASSUME TypeOK, Answered
    PROVE  TypeOK'
<1>1. source \in Payloads /\ 0 \in Payloads
  BY BoundsAssumption DEF TypeOK
<1>2. faults < MaxFaults => faults + 1 \in 0 .. MaxFaults
  BY BoundsAssumption DEF TypeOK
<1>3. CASE Fetched
  BY <1>1, <1>3, StoreHeadersFacts, ReceivedFacts, FetchTyped DEF Fetched, FetchType, TypeOK
<1>4. CASE NotModified
  BY <1>2, <1>4, FetchEndsFacts, FetchTyped DEF NotModified, FetchType, TypeOK
<1>5. CASE Torn
  BY <1>1, <1>2, <1>5, StoreHeadersFacts, FetchEndsFacts, FetchTyped
     DEF Torn, FetchType, TypeOK
<1>6. CASE Unreachable
  BY <1>2, <1>6, FetchEndsFacts, FetchTyped DEF Unreachable, FetchType, TypeOK
<1>7. CASE BadStatus
  BY <1>1, <1>2, <1>7, ReceivedFacts, FetchEndsFacts, FetchTyped
     DEF BadStatus, FetchType, TypeOK
<1>8. QED
  BY <1>3, <1>4, <1>5, <1>6, <1>7 DEF Answered

\* So do the sends
LEMMA SendsType ==
    ASSUME TypeOK, Sends
    PROVE  TypeOK'
<1>1. worker.payload \in Payloads
  BY DEF TypeOK
<1>2. ASSUME NEW pc, NEW success \in BOOLEAN, SendEnds(pc, success)
      PROVE  WorkerType' /\ initialized' \in BOOLEAN
  <2>1. CASE pc = "resend"
    <3>1. worker' = [pc |-> "polling", payload |-> 0] /\ initialized' = TRUE
      BY <1>2, <2>1 DEF SendEnds, StartPolling
    <3>2. QED
      BY <3>1, BoundsAssumption DEF WorkerType, Pcs
  <2>2. CASE pc # "resend"
    BY <1>2, <2>2, FetchEndsFacts DEF SendEnds, TypeOK
  <2>3. QED
    BY <2>1, <2>2
<1>3. CASE SendDataSync
  <2>1. WorkerType' /\ initialized' \in BOOLEAN
    <3>1. CASE SendEnds(worker.pc, FALSE) \/ SendEnds(worker.pc, TRUE)
      BY <1>2, <3>1
    <3>2. CASE worker' = [worker EXCEPT !.pc = "blocked"] /\ initialized' = initialized
      BY <3>2 DEF TypeOK, WorkerType, Pcs
    <3>3. QED
      BY <1>3, <3>1, <3>2 DEF SendDataSync
  <2>2. channel' \in Payloads \cup {None} /\ sent' \in Payloads \cup {None}
    BY <1>1, <1>3 DEF SendDataSync, Handed, TypeOK
  <2>3. QED
    BY <1>3, <2>1, <2>2, FetchTyped DEF SendDataSync, FetchType, TypeOK
<1>4. CASE SendUnblocks
  <2>1. WorkerType' /\ initialized' \in BOOLEAN
    BY <1>4, FetchEndsFacts DEF SendUnblocks, TypeOK
  <2>2. channel' \in Payloads \cup {None} /\ sent' \in Payloads \cup {None}
    BY <1>1, <1>4 DEF SendUnblocks, Handed, TypeOK
  <2>3. QED
    BY <1>4, <2>1, <2>2, FetchTyped DEF SendUnblocks, FetchType, TypeOK
<1>5. QED
  BY <1>3, <1>4 DEF Sends

\* The caches, the source, the resolver and Shutdown keep the types
LEMMA OthersType ==
    ASSUME TypeOK,
           \/ PollerEnds \/ UpdateCache \/ UpdateFromCache \/ IntervalPasses
           \/ PollingEntryExpires \/ OtherServiceFetches \/ SourceChanges
           \/ ShutdownCalled \/ Shutdown \/ ChannelRead \/ ChannelClosed
    PROVE  TypeOK'
<1>1. CASE PollerEnds
  BY <1>1, BoundsAssumption, FetchTyped DEF PollerEnds, FetchType, WorkerType, Pcs, TypeOK
<1>2. CASE UpdateCache
  <2>1. PICK payload \in updates :
           /\ cache' = [poll |-> payload, failsafe |-> UpdatePayloadIfNeeded(payload)]
           /\ due' = (due /\ ~opts.failsafe)
           /\ updates' = updates \ {payload}
           /\ UNCHANGED <<opts, source, faults, worker, initialized, shut, closing, fetcher,
                          channel, gone, sent, spoilt, start>>
    BY <1>2, Zenon DEF UpdateCache
  <2>2. cache' \in [poll : Payloads, failsafe : Payloads]
    BY <2>1 DEF UpdatePayloadIfNeeded, TypeOK
  <2>3. due' \in BOOLEAN
    BY <2>1
  <2>4. updates' \in SUBSET Payloads /\ Cardinality(updates') <= MaxPending
    BY <2>1, UpdatesShrink DEF TypeOK
  <2>5. QED
    BY <2>1, <2>2, <2>3, <2>4 DEF TypeOK
<1>3. CASE UpdateFromCache
  <2>1. WorkerType' /\ initialized' \in BOOLEAN /\ start' \in {"ok", "cached", "unmodified", "nothing"}
    <3> DEFINE payload == CASE opts.cache /\ cache.poll # 0 -> cache.poll
                            [] opts.failsafe /\ cache.poll = 0 -> cache.failsafe
                            [] OTHER -> 0
    <3>1. payload \in Payloads
      BY BoundsAssumption DEF TypeOK
    <3> HIDE DEF payload
    <3>2. CASE StartPolling /\ start' = "nothing"
      <4>1. worker' = [pc |-> "polling", payload |-> 0] /\ initialized' = TRUE
        BY <3>2 DEF StartPolling
      <4>2. QED
        BY <3>2, <4>1, BoundsAssumption DEF WorkerType, Pcs
    <3>3. CASE worker' = [pc |-> "resend", payload |-> payload]
               /\ UNCHANGED <<initialized, start>>
      BY <3>1, <3>3 DEF WorkerType, Pcs, TypeOK
    <3>4. QED
      BY <1>3, <3>2, <3>3 DEF UpdateFromCache, payload
  <2>2. QED
    BY <1>3, <2>1, FetchTyped DEF UpdateFromCache, FetchType, TypeOK
<1>4. CASE IntervalPasses
  BY <1>4 DEF IntervalPasses, TypeOK
<1>5. CASE PollingEntryExpires
  BY <1>5, BoundsAssumption DEF PollingEntryExpires, TypeOK
<1>6. CASE OtherServiceFetches
  BY <1>6, BoundsAssumption DEF OtherServiceFetches, TypeOK
<1>7. CASE SourceChanges
  BY <1>7, BoundsAssumption DEF SourceChanges, TypeOK
<1>8. CASE ShutdownCalled
  BY <1>8 DEF ShutdownCalled, TypeOK
<1>9. CASE Shutdown
  BY <1>9 DEF Shutdown, TypeOK
<1>10. CASE ChannelRead
  BY <1>10 DEF ChannelRead, TypeOK
<1>11. CASE ChannelClosed
  BY <1>11 DEF ChannelClosed, TypeOK
<1>12. QED
  BY <1>1, <1>2, <1>3, <1>4, <1>5, <1>6, <1>7, <1>8, <1>9, <1>10, <1>11

\* Every step keeps the types
LEMMA NextType == ASSUME TypeOK, [Next]_vars PROVE TypeOK'
<1>1. CASE Sync
  BY <1>1, FetchAndUpdateType DEF Sync
<1>2. CASE Tick
  BY <1>2, FetchAndUpdateType DEF Tick
<1>3. CASE UNCHANGED vars
  BY <1>3 DEF TypeOK
<1>4. QED
  BY <1>1, <1>2, <1>3, AnsweredType, SendsType, OthersType DEF Next

-----------------------------------------------------------------------------
(* The invariant, action by action *)

\* What relates the variables, without their types
Related == ShutWhenQuiet /\ FirstFetch /\ HeadersFollowed /\ NothingEmpty /\ SyncHandsOver

USE DEF Related, ShutWhenQuiet, FirstFetch, HeadersFollowed, Followed, NothingEmpty, SyncHandsOver

\* A fetch begins: the polling cache answers it, or a request is sent
LEMMA BeginStep ==
    ASSUME TypeOK, Related, Sync \/ Tick
    PROVE  Related'
<1>1. /\ worker.pc \in {"idle", "polling"} /\ FetchAndUpdate
      /\ UNCHANGED <<opts, source, shut, fetcher, updates, channel, gone, sent, spoilt>>
  BY DEF Sync, Tick
<1>2. CASE opts.polling /\ cache.poll # 0
  <2>1. FetchEnds(TRUE) /\ start' = IF initialized THEN start ELSE "cached"
    BY <1>1, <1>2 DEF FetchAndUpdate
  <2>2. worker'.pc = "polling" /\ initialized'
    BY <2>1, FetchEndsFacts DEF TypeOK
  <2>3. HeadersFollowed' /\ ShutWhenQuiet'
    BY <1>1, <2>2
  <2>4. FirstFetch' /\ NothingEmpty'
    BY <1>1, <2>2
  <2>5. SyncHandsOver'
    BY <1>1, <2>1, <2>2
  <2>6. QED
    BY <2>3, <2>4, <2>5
<1>3. CASE FetchEnds(FALSE) /\ UNCHANGED start /\ ~opts.http /\ shut
  <2>1. worker'.pc = "polling" /\ initialized' /\ initialized
    BY <1>3, FetchEndsFacts DEF TypeOK
  <2>2. QED
    BY <1>1, <1>3, <2>1
<1>4. CASE worker' = [pc |-> "request", payload |-> 0] /\ UNCHANGED <<initialized, start>>
  <2>1. worker'.pc = "request"
    BY <1>4
  <2>2. QED
    BY <1>1, <1>4, <2>1
<1>5. QED
  BY <1>1, <1>2, <1>3, <1>4, Zenon DEF FetchAndUpdate

\* The answers: a fetch that fails before Sync has returned had no etag, unless
\* its body was torn
LEMMA AnsweredStep ==
    ASSUME TypeOK, Related, Answered
    PROVE  Related'
<1> source \in Payloads /\ source # 0 /\ 0 \in Payloads
  BY BoundsAssumption DEF TypeOK
<1>1. worker.pc = "request" /\ UNCHANGED <<opts, source, shut, channel, gone, sent>>
  BY DEF Answered, Fetched, NotModified, Torn, Unreachable, BadStatus
<1>2. ASSUME NEW success \in BOOLEAN, FetchEnds(success), updates' = updates,
             success => initialized,
             \/ UNCHANGED <<fetcher, spoilt>>
             \/ spoilt',
             UNCHANGED start
      PROVE  Related'
  <2>1. \/ worker'.pc = "polling" /\ initialized' /\ initialized
        \/ worker'.pc = "fallback" /\ ~initialized /\ ~initialized'
    BY <1>2, FetchEndsFacts DEF TypeOK
  <2>2. ShutWhenQuiet' /\ FirstFetch'
    BY <1>1, <2>1
  <2>3. HeadersFollowed'
    BY <1>1, <1>2, <2>1
  <2>4. NothingEmpty' /\ SyncHandsOver'
    BY <1>1, <1>2, <2>1
  <2>5. QED
    BY <2>2, <2>3, <2>4
<1>3. ASSUME NEW payload \in Payloads, Received(payload),
             opts.http => spoilt' \/ (etag' \in {0, payload} /\ modified' \in {0, payload}),
             UNCHANGED start,
             ~opts.http => payload # 0
      PROVE  Related'
  <2>1. /\ worker'.pc = "send" /\ worker'.payload = payload
        /\ updates' \subseteq updates \cup {payload} /\ initialized' = initialized
    BY <1>3, ReceivedFacts
  <2>2. QED
    BY <1>1, <1>3, <2>1
<1>4. CASE Fetched
  BY <1>3, <1>4, StoreHeadersFacts DEF Fetched
<1>5. CASE NotModified
  <2>1. /\ FetchEnds(TRUE) /\ UNCHANGED <<fetcher, updates, spoilt>>
        /\ start' = IF initialized THEN start ELSE "unmodified"
    BY <1>5 DEF NotModified
  <2>2. CASE initialized
    BY <1>2, <2>1, <2>2
  <2>3. CASE ~initialized
    <3>1. worker'.pc = "polling" /\ initialized' /\ start' = "unmodified"
      BY <2>1, <2>3, FetchEndsFacts DEF TypeOK
    <3>2. QED
      BY <1>1, <2>1, <2>3, <3>1
  <2>4. QED
    BY <2>2, <2>3
<1>6. CASE Torn
  BY <1>2, <1>6 DEF Torn
<1>7. CASE Unreachable
  BY <1>2, <1>7 DEF Unreachable
<1>8. CASE BadStatus
  <2>1. CASE opts.http
    <3>1. Received(0) /\ spoilt' /\ UNCHANGED start
      BY <1>8, <2>1 DEF BadStatus
    <3>2. QED
      BY <1>3, <2>1, <3>1
  <2>2. CASE ~opts.http
    BY <1>2, <1>8, <2>2 DEF BadStatus
  <2>3. QED
    BY <2>1, <2>2
<1>9. QED
  BY <1>4, <1>5, <1>6, <1>7, <1>8 DEF Answered

\* The sends: what is handed over is the payload of the worker
LEMMA SendsStep ==
    ASSUME TypeOK, Related, Sends
    PROVE  Related' /\ (shut => channel' = channel)
<1>1. worker.payload \in Payloads /\ worker.payload # None
  BY NoneAssumption DEF TypeOK
<1>2. /\ worker.pc \in {"send", "resend", "blocked"}
      /\ UNCHANGED <<opts, shut, fetcher, updates, gone, spoilt, start>>
  BY DEF Sends, SendDataSync, SendUnblocks
<1>3. ASSUME worker'.pc = "polling", initialized', Handed, ~shut
      PROVE  Related'
  BY <1>1, <1>2, <1>3 DEF Handed
<1>4. ASSUME worker'.pc = "polling", initialized', gone \/ shut, UNCHANGED <<channel, sent>>,
             initialized \/ gone
      PROVE  Related'
  BY <1>1, <1>2, <1>4
<1>5. ASSUME worker'.pc = "fallback", ~initialized, ~initialized', gone, UNCHANGED <<channel, sent>>
      PROVE  Related'
  BY <1>1, <1>2, <1>5
<1>6. ASSUME NEW success \in BOOLEAN, SendEnds(worker.pc, success), worker.pc # "blocked"
      PROVE  \/ worker'.pc = "polling" /\ initialized'
                  /\ (success \/ initialized \/ worker.pc = "resend")
             \/ worker'.pc = "fallback" /\ ~initialized /\ ~initialized' /\ ~success
  <2>1. CASE worker.pc = "resend"
    BY <1>6, <2>1 DEF SendEnds, StartPolling
  <2>2. CASE worker.pc # "resend"
    BY <1>6, <2>2, FetchEndsFacts DEF SendEnds, TypeOK
  <2>3. QED
    BY <2>1, <2>2
<1>7. CASE SendDataSync
  <2>1. CASE (shut \/ gone) /\ SendEnds(worker.pc, FALSE) /\ UNCHANGED <<channel, sent>>
    BY <1>4, <1>5, <1>6, <1>7, <2>1 DEF SendDataSync
  <2>2. CASE ~shut /\ Handed /\ SendEnds(worker.pc, TRUE)
    BY <1>3, <1>6, <1>7, <2>2 DEF SendDataSync
  <2>3. CASE ~shut /\ ~gone /\ channel # None /\ worker' = [worker EXCEPT !.pc = "blocked"]
             /\ UNCHANGED <<initialized, channel, sent>>
    <3>1. worker'.pc = "blocked" /\ worker'.payload = worker.payload
      BY <2>3 DEF TypeOK
    <3>2. initialized /\ worker.pc = "send"
      BY <1>7, <2>3 DEF SendDataSync
    <3>3. QED
      BY <1>2, <2>3, <3>1, <3>2
  <2>4. QED
    BY <1>7, <2>1, <2>2, <2>3, Zenon DEF SendDataSync
<1>8. CASE SendUnblocks
  <2>1. ~shut /\ initialized
    BY <1>8 DEF SendUnblocks
  <2>2. CASE gone /\ FetchEnds(FALSE) /\ UNCHANGED <<channel, sent>>
    BY <1>4, <2>1, <2>2, FetchEndsFacts DEF TypeOK
  <2>3. CASE Handed /\ FetchEnds(TRUE)
    BY <1>3, <2>1, <2>3, FetchEndsFacts DEF TypeOK
  <2>4. QED
    BY <1>8, <2>1, <2>2, <2>3, Zenon DEF SendUnblocks
<1>9. QED
  BY <1>7, <1>8 DEF Sends

\* The caches, the source, the resolver and Shutdown
LEMMA OthersStep ==
    ASSUME TypeOK, Related,
           \/ PollerEnds \/ UpdateCache \/ UpdateFromCache \/ IntervalPasses
           \/ PollingEntryExpires \/ OtherServiceFetches \/ SourceChanges
           \/ ShutdownCalled \/ Shutdown \/ ChannelRead \/ ChannelClosed
    PROVE  Related'
<1>1. CASE PollerEnds
  BY <1>1 DEF PollerEnds
<1>2. CASE UpdateCache
  BY <1>2 DEF UpdateCache
<1>3. CASE UpdateFromCache
  <2>1. /\ ~initialized /\ worker.pc = "fallback"
        /\ UNCHANGED <<opts, shut, fetcher, updates, channel, gone, sent, spoilt>>
    BY <1>3 DEF UpdateFromCache
  <2>2. \/ worker' = [pc |-> "polling", payload |-> 0] /\ initialized' /\ start' = "nothing"
        \/ \E payload \in Payloads \ {0} :
              /\ worker' = [pc |-> "resend", payload |-> payload]
              /\ UNCHANGED <<initialized, start>>
    BY <1>3 DEF UpdateFromCache, StartPolling, TypeOK
  <2>3. QED
    BY <2>1, <2>2
<1>4. CASE IntervalPasses \/ PollingEntryExpires \/ OtherServiceFetches \/ SourceChanges
  BY <1>4 DEF IntervalPasses, PollingEntryExpires, OtherServiceFetches, SourceChanges
<1>5. CASE ShutdownCalled
  BY <1>5 DEF ShutdownCalled
<1>6. CASE Shutdown
  BY <1>6 DEF Shutdown
<1>7. CASE ChannelRead \/ ChannelClosed
  BY <1>7 DEF ChannelRead, ChannelClosed
<1>8. QED
  BY <1>1, <1>2, <1>3, <1>4, <1>5, <1>6, <1>7

-----------------------------------------------------------------------------
(* The theorems *)

\* The inductive invariant holds of a new connector, ...
LEMMA InvInit == Init => ConnectorInv
<1> SUFFICES ASSUME Init PROVE ConnectorInv
  OBVIOUS
<1>1. TypeOK
  BY InitType
<1>2. worker.pc = "idle"
  BY DEF Init, NewHttpConnector, Idle
<1>3. sent # 0
  BY NoneAssumption DEF Init, NewHttpConnector
<1>4. QED
  BY <1>1, <1>2, <1>3 DEF Init, NewHttpConnector, ConnectorInv

\* ... and after every step
LEMMA InvNext == ASSUME ConnectorInv, [Next]_vars PROVE ConnectorInv'
<1>1. TypeOK'
  BY NextType DEF ConnectorInv
<1>2. Related'
  <2>1. TypeOK /\ Related
    BY DEF ConnectorInv
  <2>2. CASE UNCHANGED vars
    BY <2>1, <2>2
  <2>3. QED
    BY <2>1, <2>2, BeginStep, AnsweredStep, SendsStep, OthersStep DEF Next
<1>3. QED
  BY <1>1, <1>2 DEF ConnectorInv

\* Every behaviour of the connector keeps the inductive invariant.
THEOREM ConnectorInvariant == Spec => []ConnectorInv
<1>1. ConnectorInv /\ [Next]_vars => ConnectorInv'
  BY InvNext
<1>2. QED
  BY <1>1, InvInit, PTL DEF Spec

\* What the connector remembers of the source (the headers of the HTTP cache and the
\* payloads on their way to the caches) is what it handed over, but for a torn
\* body or a bad status (http_cache_fetcher.go, updateCache).
THEOREM ConnectorCacheSound == Spec => []CacheSound
<1>1. ConnectorInv => CacheSound
  BY DEF ConnectorInv, CacheSound, HeadersNameSent, OutageLeavesCache
<1>2. QED
  BY <1>1, ConnectorInvariant, PTL

\* Once Sync has returned the resolver has a payload, unless it closed its channel,
\* no cache covered the failure, or the polling cache was filled (Sync,
\* fetchAndUpdate, updateFromCache).
THEOREM ConnectorHandsOver == Spec => []SyncHandsOver
<1>1. ConnectorInv => SyncHandsOver
  BY DEF ConnectorInv
<1>2. QED
  BY <1>1, ConnectorInvariant, PTL

\* No step of a connector that is shut down puts a payload into the channel,
\* although a fetch or a send may be under way (sendDataSync, Shutdown).
THEOREM ConnectorQuietAfterShutdown == Spec => NothingAfterShutdown
<1>1. ASSUME ConnectorInv, [Next]_vars
      PROVE  [shut => channel' \in {channel, None}]_vars
  <2>1. TypeOK /\ Related
    BY <1>1 DEF ConnectorInv
  <2>2. CASE Sends
    BY <2>1, <2>2, SendsStep
  <2>3. CASE ChannelRead
    BY <2>3 DEF ChannelRead
  <2>4. CASE Sync \/ Tick \/ PollerEnds \/ Answered
    BY <2>4 DEF Sync, Tick, PollerEnds, Answered, Fetched, NotModified, Torn, Unreachable,
       BadStatus
  <2>5. CASE UpdateCache \/ UpdateFromCache \/ IntervalPasses \/ PollingEntryExpires
    BY <2>5 DEF UpdateCache, UpdateFromCache, IntervalPasses, PollingEntryExpires
  <2>6. CASE OtherServiceFetches \/ SourceChanges \/ ShutdownCalled \/ Shutdown \/ ChannelClosed
    BY <2>6 DEF OtherServiceFetches, SourceChanges, ShutdownCalled, Shutdown, ChannelClosed
  <2>7. QED
    BY <1>1, <2>2, <2>3, <2>4, <2>5, <2>6 DEF Next
<1>2. QED
  BY <1>1, ConnectorInvariant, PTL DEF Spec, NothingAfterShutdown
=============================================================================
