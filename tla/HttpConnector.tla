---------------------------- MODULE HttpConnector ----------------------------
(***************************************************************************)
(* The HTTP connector of tools/flagd-http-connector: a sync provider for   *)
(* the in-process resolver that polls a URL and hands every payload to the *)
(* resolver's channel, with an optional payload cache that several         *)
(* services share.                                                         *)
(*                                                                         *)
(* One thread fetches at a time: Sync itself for the first payload, then   *)
(* the goroutine Sync leaves behind.  It takes the read side of            *)
(* shutdownLock around a send that may block; Shutdown takes the write     *)
(* side.  Every payload is also written to the cache by a goroutine of its *)
(* own.  A payload is the version of the source it was read from; what the *)
(* other services do to the shared cache is the environment's choice.      *)
(***************************************************************************)
EXTENDS Integers, FiniteSets

CONSTANTS
    MaxVersion,  \* how often the source changes
    MaxFaults,   \* bad answers of the source
    MaxPending,  \* cache updates in flight per service
    HeaderSets,  \* which of its headers an answer of the source may carry
    None         \* no payload

ASSUME BoundsAssumption ==
    MaxVersion \in Nat \ {0} /\ MaxFaults \in Nat /\ MaxPending \in Nat \ {0}
ASSUME HeadersAssumption == HeaderSets \subseteq SUBSET {"ETag", "Last-Modified"}
ASSUME NoneAssumption == None \notin Nat

VARIABLES
    opts,        \* UseHttpCache, PayloadCache given, UseFailsafeCache, UsePollingCache
    source,      \* the version the source serves
    faults,      \* bad answers so far
    cache,       \* the shared PayloadCache: polling key and fail-safe key
    worker,      \* the thread that fetches: where it is, what it carries
    initialized, \* isInitialized
    shut,        \* isShutdown
    closing,     \* Shutdown: not called, waiting for the lock
    etag,        \* cachedETag of the HttpCacheFetcher
    modified,    \* its cachedLastModified
    due,         \* the update interval of the fail-safe cache has passed
    updates,     \* updateCache goroutines that have not run
    channel,     \* the resolver's channel, one place
    gone,        \* the resolver has closed the channel
    sent,        \* the last payload handed to the channel
    spoilt,      \* since the last good answer one was torn or bad
    start        \* why the first fetch had nothing to hand over

fetcher == <<etag, modified>>
conn == <<worker, initialized, shut, closing, fetcher, due, updates, channel, gone,
          sent, spoilt, start>>
vars == <<opts, source, faults, cache, conn>>

Empty == 0             \* the empty string as a payload, or as a header that is not there
Payloads == 0 .. MaxVersion

\* Validate: both caches need a PayloadCache.
Validate == {o \in [http : BOOLEAN, cache : BOOLEAN, failsafe : BOOLEAN, polling : BOOLEAN] :
               (o.failsafe \/ o.polling) => o.cache}

Idle == [pc |-> "idle", payload |-> Empty]

TypeOK ==
    /\ opts \in Validate
    /\ source \in 1 .. MaxVersion
    /\ faults \in 0 .. MaxFaults
    /\ cache \in [poll : Payloads, failsafe : Payloads]
    /\ worker \in [pc : {"idle", "request", "send", "fallback", "resend", "blocked",
                          "polling", "ended"},
                    payload : Payloads]
    /\ initialized \in BOOLEAN
    /\ shut \in BOOLEAN
    /\ closing \in BOOLEAN
    /\ etag \in Payloads /\ modified \in Payloads
    /\ due \in BOOLEAN
    /\ updates \in SUBSET Payloads
    /\ Cardinality(updates) <= MaxPending
    /\ channel \in Payloads \cup {None}
    /\ gone \in BOOLEAN
    /\ sent \in Payloads \cup {None}
    /\ spoilt \in BOOLEAN
    /\ start \in {"ok", "cached", "unmodified", "nothing"}

\* NewHttpConnector, with options that Validate accepts.  The cache may hold
\* what another service, or an earlier run, left there.
NewHttpConnector ==
    /\ opts \in Validate
    /\ source = 1 /\ faults = 0
    /\ cache \in [poll : {Empty, 1}, failsafe : {Empty, 1}]
    /\ ~opts.cache => cache = [poll |-> Empty, failsafe |-> Empty]
    /\ worker = Idle
    /\ initialized = FALSE
    /\ shut = FALSE
    /\ closing = FALSE
    /\ etag = Empty /\ modified = Empty
    /\ due = TRUE
    /\ updates = {}
    /\ channel = None
    /\ gone = FALSE
    /\ sent = None
    /\ spoilt = FALSE
    /\ start = "ok"

Init == NewHttpConnector

-----------------------------------------------------------------------------
(***************************************************************************)
(* The end of a fetch.  In Sync a failure leads to updateFromCache, and    *)
(* then, whatever came of it, the goroutine starts and the connector is    *)
(* initialised; in the goroutine the loop goes on.                         *)
(***************************************************************************)
StartPolling ==
    /\ worker' = [pc |-> "polling", payload |-> Empty]
    /\ initialized' = TRUE

\* Mistake: Sync does not fall back to the cache.
FetchEndsAlways(success) == StartPolling

FetchEnds(success) ==
    IF success \/ initialized
    THEN StartPolling
    ELSE /\ worker' = [pc |-> "fallback", payload |-> Empty]
         /\ UNCHANGED initialized

\* fetchAndUpdate: a payload in the polling cache ends the fetch, and nothing
\* is sent; the direct request is not made after a shutdown.
FetchAndUpdate ==
    \/ /\ opts.polling /\ cache.poll # Empty
       /\ FetchEnds(TRUE)
       /\ start' = IF initialized THEN start ELSE "cached"
    \/ /\ ~(opts.polling /\ cache.poll # Empty) /\ ~opts.http /\ shut
       /\ FetchEnds(FALSE) /\ UNCHANGED start
    \/ /\ ~(opts.polling /\ cache.poll # Empty) /\ (opts.http \/ ~shut)
       /\ worker' = [pc |-> "request", payload |-> Empty]
       /\ UNCHANGED <<initialized, start>>

\* Sync, called by the resolver; a second call finds it initialised.
Sync ==
    /\ worker.pc = "idle"
    /\ FetchAndUpdate
    /\ UNCHANGED <<opts, source, faults, cache, shut, closing, fetcher, due, updates,
                   channel, gone, sent, spoilt>>

\* The ticker; Shutdown stops it.
Tick ==
    /\ worker.pc = "polling" /\ ~shut
    /\ FetchAndUpdate
    /\ UNCHANGED <<opts, source, faults, cache, shut, closing, fetcher, due, updates,
                   channel, gone, sent, spoilt>>

\* The goroutine sees shutdownChan closed.
PollerEnds ==
    /\ worker.pc = "polling" /\ shut
    /\ worker' = [pc |-> "ended", payload |-> Empty]
    /\ UNCHANGED <<opts, source, faults, cache, initialized, shut, closing, fetcher, due,
                   updates, channel, gone, sent, spoilt, start>>

-----------------------------------------------------------------------------
(***************************************************************************)
(* The request.                                                            *)
(***************************************************************************)

\* A payload has been read: it is sent on, and a goroutine updates the cache.
Received(payload) ==
    /\ worker' = [pc |-> "send", payload |-> payload]
    /\ updates' = IF opts.cache THEN updates \cup {payload} ELSE updates
    /\ Cardinality(updates') <= MaxPending
    /\ UNCHANGED initialized

\* The fetcher keeps the headers of a 200 in place of those it had, an absent
\* one too.
StoreHeaders ==
    IF opts.http
    THEN \E headers \in HeaderSets :
            /\ etag' = IF "ETag" \in headers THEN source ELSE Empty
            /\ modified' = IF "Last-Modified" \in headers THEN source ELSE Empty
    ELSE UNCHANGED fetcher

\* 200 with its body; a source may ignore the condition.
Fetched ==
    /\ worker.pc = "request"
    /\ Received(source)
    /\ StoreHeaders
    /\ spoilt' = FALSE
    /\ UNCHANGED <<opts, source, faults, cache, shut, closing, due, channel, gone,
                   sent, start>>

\* The condition the fetcher sends holds: If-None-Match, and If-Modified-Since
\* when there is no etag.
ConditionMet ==
    opts.http /\ IF etag # Empty THEN etag = source ELSE modified = source

\* 304, with the fetcher or without: nothing is sent, and that is a success.
\* One that no condition of the fetcher asked for - the options' Headers may
\* hold one - is among the bad answers.
NotModified ==
    /\ worker.pc = "request"
    /\ \/ ConditionMet /\ UNCHANGED faults
       \/ faults < MaxFaults /\ faults' = faults + 1
    /\ FetchEnds(TRUE)
    /\ start' = IF initialized THEN start ELSE "unmodified"
    /\ UNCHANGED <<opts, source, cache, shut, closing, fetcher, due, updates,
                   channel, gone, sent, spoilt>>

\* 200 whose body cannot be read: the headers are stored before the body is.
Torn ==
    /\ worker.pc = "request" /\ faults < MaxFaults
    /\ faults' = faults + 1
    /\ StoreHeaders
    /\ spoilt' = TRUE
    /\ FetchEnds(FALSE)
    /\ UNCHANGED <<opts, source, cache, shut, closing, due, updates, channel, gone,
                   sent, start>>

\* No answer within the timeout of the client.
Unreachable ==
    /\ worker.pc = "request" /\ faults < MaxFaults
    /\ faults' = faults + 1
    /\ FetchEnds(FALSE)
    /\ UNCHANGED <<opts, source, cache, shut, closing, fetcher, due, updates, channel,
                   gone, sent, spoilt, start>>

\* Mistake: the status is not looked at.
BadStatusUnseen ==
    /\ worker.pc = "request" /\ faults < MaxFaults
    /\ faults' = faults + 1
    /\ Received(Empty) /\ spoilt' = TRUE
    /\ UNCHANGED <<opts, source, cache, shut, closing, fetcher, due, channel, gone, sent,
                   start>>

\* Any other status: an error without the fetcher; with it, an empty payload.
BadStatus ==
    /\ worker.pc = "request" /\ faults < MaxFaults
    /\ faults' = faults + 1
    /\ IF opts.http
       THEN Received(Empty) /\ spoilt' = TRUE
       ELSE FetchEnds(FALSE) /\ UNCHANGED <<updates, spoilt>>
    /\ UNCHANGED <<opts, source, cache, shut, closing, fetcher, due, channel, gone, sent,
                   start>>

-----------------------------------------------------------------------------
(***************************************************************************)
(* sendDataSync, called with a fetched payload ("send") or one from the    *)
(* cache ("resend").  The read lock cannot be taken while Shutdown holds   *)
(* or waits for the write lock; it is held while the send blocks.          *)
(***************************************************************************)

\* The result of updateFromCache is not looked at.
SendEnds(pc, success) ==
    IF pc = "resend" THEN StartPolling ELSE FetchEnds(success)

Handed ==
    /\ channel' = worker.payload
    /\ sent' = worker.payload

\* Mistake: the flag is not looked at under the lock.
SendDataSyncUnchecked ==
    /\ worker.pc \in {"send", "resend"} /\ ~closing
    /\ \/ /\ gone
          /\ SendEnds(worker.pc, FALSE)
          /\ UNCHANGED <<channel, sent>>
       \/ /\ ~gone /\ channel = None
          /\ Handed
          /\ SendEnds(worker.pc, TRUE)
    /\ UNCHANGED <<opts, source, faults, cache, shut, closing, fetcher, due, updates,
                   gone, spoilt, start>>

SendDataSync ==
    /\ worker.pc \in {"send", "resend"} /\ ~closing
    /\ \/ /\ shut \/ gone      \* a closed channel panics, and is recovered
          /\ SendEnds(worker.pc, FALSE)
          /\ UNCHANGED <<channel, sent>>
       \/ /\ ~shut /\ ~gone /\ channel = None
          /\ Handed
          /\ SendEnds(worker.pc, TRUE)
       \/ /\ ~shut /\ ~gone /\ channel # None
          /\ worker' = [worker EXCEPT !.pc = "blocked"]
          /\ UNCHANGED <<initialized, channel, sent>>
    /\ UNCHANGED <<opts, source, faults, cache, shut, closing, fetcher, due, updates,
                   gone, spoilt, start>>

\* Mistake: the blocked sender takes the lock again before it goes on.
SendUnblocksRelocking ==
    /\ worker.pc = "blocked" /\ ~closing /\ ~gone /\ channel = None
    /\ Handed
    /\ FetchEnds(TRUE)
    /\ UNCHANGED <<opts, source, faults, cache, shut, closing, fetcher, due, updates,
                   gone, spoilt, start>>

\* The channel has room again, or was closed under the blocked sender.  Only
\* a fetched payload blocks: the first send of a service finds room.
SendUnblocks ==
    /\ worker.pc = "blocked"
    /\ \/ /\ gone
          /\ FetchEnds(FALSE)
          /\ UNCHANGED <<channel, sent>>
       \/ /\ ~gone /\ channel = None
          /\ Handed
          /\ FetchEnds(TRUE)
    /\ UNCHANGED <<opts, source, faults, cache, shut, closing, fetcher, due, updates,
                   gone, spoilt, start>>

-----------------------------------------------------------------------------
(***************************************************************************)
(* The caches.                                                             *)
(***************************************************************************)

\* FailSafeCache.UpdatePayloadIfNeeded: at most once per interval.
UpdatePayloadIfNeeded(payload) ==
    IF opts.failsafe /\ due THEN payload ELSE cache.failsafe

\* updateCache: the fail-safe key when its interval has passed, and the
\* polling key, whether or not UsePollingCache is set.
UpdateCache ==
    \E payload \in updates :
        /\ cache' = [poll |-> payload, failsafe |-> UpdatePayloadIfNeeded(payload)]
        /\ due' = (due /\ ~opts.failsafe)
        /\ updates' = updates \ {payload}
        /\ UNCHANGED <<opts, source, faults, worker, initialized, shut, closing,
                       fetcher, channel, gone, sent, spoilt, start>>

\* updateFromCache: the polling key, then the fail-safe key.
UpdateFromCache ==
    /\ worker.pc = "fallback"
    /\ LET payload == CASE opts.cache /\ cache.poll # Empty -> cache.poll
                        [] opts.failsafe /\ cache.poll = Empty -> cache.failsafe
                        [] OTHER -> Empty
       IN IF payload = Empty
          THEN StartPolling /\ start' = "nothing"
          ELSE /\ worker' = [pc |-> "resend", payload |-> payload]
               /\ UNCHANGED <<initialized, start>>
    /\ UNCHANGED <<opts, source, faults, cache, shut, closing, fetcher, due, updates,
                   channel, gone, sent, spoilt>>

\* The interval of the fail-safe cache passes; the entry under the polling
\* key expires.
IntervalPasses ==
    /\ ~due
    /\ due' = TRUE
    /\ UNCHANGED <<opts, source, faults, cache, worker, initialized, shut, closing,
                   fetcher, updates, channel, gone, sent, spoilt, start>>

PollingEntryExpires ==
    /\ cache.poll # Empty
    /\ cache' = [cache EXCEPT !.poll = Empty]
    /\ UNCHANGED <<opts, source, faults, conn>>

-----------------------------------------------------------------------------
(***************************************************************************)
(* Shutdown, the source and the resolver.                                  *)
(***************************************************************************)

\* Shutdown asks for the write lock, which waits for a send.
ShutdownCalled ==
    /\ ~closing
    /\ closing' = TRUE
    /\ UNCHANGED <<opts, source, faults, cache, worker, initialized, shut, fetcher, due,
                   updates, channel, gone, sent, spoilt, start>>

\* It does nothing to a connector whose Sync has not returned.
Shutdown ==
    /\ closing /\ worker.pc # "blocked"
    /\ shut' = initialized
    /\ closing' = FALSE
    /\ UNCHANGED <<opts, source, faults, cache, worker, initialized, fetcher, due, updates,
                   channel, gone, sent, spoilt, start>>

\* Another service has fetched and filled the polling cache.
OtherServiceFetches ==
    /\ opts.polling
    /\ \E payload \in 1 .. source : cache' = [cache EXCEPT !.poll = payload]
    /\ UNCHANGED <<opts, source, faults, conn>>

SourceChanges ==
    /\ source < MaxVersion
    /\ source' = source + 1
    /\ UNCHANGED <<opts, faults, cache, conn>>

ChannelRead ==
    /\ channel # None
    /\ channel' = None
    /\ UNCHANGED <<opts, source, faults, cache, worker, initialized, shut, closing,
                   fetcher, due, updates, gone, sent, spoilt, start>>

\* What is still in it is nobody's.
ChannelClosed ==
    /\ ~gone
    /\ gone' = TRUE
    /\ channel' = None
    /\ UNCHANGED <<opts, source, faults, cache, worker, initialized, shut, closing,
                   fetcher, due, updates, sent, spoilt, start>>

-----------------------------------------------------------------------------
Answered == Fetched \/ NotModified \/ Torn \/ Unreachable \/ BadStatus

Sends == SendDataSync \/ SendUnblocks

Next ==
    \/ SourceChanges \/ PollingEntryExpires \/ OtherServiceFetches
    \/ Sync \/ Tick \/ PollerEnds \/ Answered \/ Sends
    \/ UpdateCache \/ UpdateFromCache \/ IntervalPasses
    \/ ShutdownCalled \/ Shutdown \/ ChannelRead \/ ChannelClosed

Spec == Init /\ [][Next]_vars

(***************************************************************************)
(* The threads of the connector run, the client's timeout ends a request,  *)
(* and the resolver reads its channel, as the README of the connector asks *)
(* of it.  Shutdown may be called again and again; a lock that readers     *)
(* wait for admits them when a writer leaves, whence strong fairness of    *)
(* the send.  Nobody need call Sync or Shutdown, and the ticker need not   *)
(* tick.                                                                   *)
(***************************************************************************)
FairSpec ==
    /\ Spec
    /\ WF_vars(Answered) /\ SF_vars(Sends) /\ WF_vars(UpdateFromCache)
    /\ WF_vars(UpdateCache)
    /\ WF_vars(PollerEnds) /\ WF_vars(Shutdown) /\ WF_vars(ChannelRead)

-----------------------------------------------------------------------------
(***************************************************************************)
(* A connector that is shut down hands over nothing more: no payload       *)
(* enters the channel once isShutdown is set, although a fetch and a send  *)
(* may have been under way (http_connector.go sendDataSync, Shutdown).     *)
(***************************************************************************)
NothingAfterShutdown ==
    [][shut => channel' \in {channel, None}]_vars

(***************************************************************************)
(* What the fetcher makes the source call "not modified" is what the       *)
(* resolver has: between polls the ETag and the Last-Modified it keeps     *)
(* belong to the payload last handed over.  They do not after a body that  *)
(* could not be read, whose headers are kept, nor after a bad status,      *)
(* which hands over an empty payload under the old headers - in both cases *)
(* the source answers 304 from then on (http_cache_fetcher.go:49, :63).    *)
(***************************************************************************)
HeadersNameSent ==
    opts.http /\ worker.pc = "polling" =>
        \A header \in {etag, modified} \ {Empty} :
            sent = header \/ spoilt \/ shut \/ gone

(***************************************************************************)
(* The resolver that called Sync has been handed a payload once Sync has   *)
(* returned, from the source or, when the source failed, from a cache.  It *)
(* has none only when no cache covered the failure, when it closed its     *)
(* channel, when the polling cache was filled, or when the first answer    *)
(* was a 304: in the last two cases fetchAndUpdate succeeds and sends      *)
(* nothing, and no cache is asked (http_connector.go:156, :207, :220).     *)
(***************************************************************************)
SyncHandsOver ==
    initialized => sent # None \/ gone \/ start \in {"cached", "unmodified", "nothing"}

(***************************************************************************)
(* Without the HTTP cache an outage never spoils the cache: what it holds  *)
(* was served by the source, and so was everything handed over             *)
(* (http_connector.go:201).                                                *)
(***************************************************************************)
OutageLeavesCache ==
    ~opts.http => sent # Empty /\ Empty \notin updates

(***************************************************************************)
(* The polling goroutine ends after a Shutdown that found the connector    *)
(* initialised, even when it is in the middle of a fetch.                  *)
(***************************************************************************)
PollerStops == shut ~> worker.pc = "ended"

(***************************************************************************)
(* Shutdown returns, though it waits for a send that holds the lock.       *)
(***************************************************************************)
ShutdownReturns == closing ~> ~closing

\* What the connector remembers of the source is what it handed over, up to the
\* failures that HeadersNameSent and OutageLeavesCache name.
CacheSound == TypeOK /\ HeadersNameSent /\ OutageLeavesCache

\* Shutdown of an initialised connector returns, and its polling goroutine ends.
ShutdownEnds == PollerStops /\ ShutdownReturns

=============================================================================
