------------------------------ MODULE FlagdRpc ------------------------------
(***************************************************************************)
(* The RPC resolver of the flagd provider:                                 *)
(* providers/flagd/pkg/service/rpc/service.go, retryCounter.go and         *)
(* providers/flagd/internal/cache.                                         *)
(*                                                                         *)
(* Three kinds of goroutine share a Service.  Application goroutines       *)
(* (Evals) run ResolveBoolean ... ResolveObject: cache lookup, unary call, *)
(* cache fill.  One goroutine runs startEventStream: connect, receive,     *)
(* invalidate, emit, back off.  The goroutines of the provider call Init   *)
(* and Shutdown and read the events channel.  The flagd daemon is          *)
(* external: it holds the flag definitions and notifies changes on the     *)
(* stream while one is open.                                               *)
(*                                                                         *)
(* A flag definition is its version and the type of its value; a cached    *)
(* resolution detail is the definition it was computed from.               *)
(***************************************************************************)
EXTENDS Naturals, Sequences, FiniteSets

CONSTANTS
    Flags,       \* flag keys
    Evals,       \* application goroutines evaluating flags
    Types,       \* value types in use, a subset of the five of the SDK
    MaxVersion,  \* bound: definitions of one flag the daemon goes through
    WireCap,     \* bound: undelivered messages on the stream
    MaxRetries,  \* EventStreamConnectionMaxAttempts
    CacheModes,  \* values of cacheEnabled to start with, FALSE for WithoutCache
    CacheCap,    \* MaxCacheSize of the LRU cache
    Codes,       \* connect error codes the daemon and the network produce
    NoEntry      \* a cache miss

AllTypes == {"boolean", "string", "float", "int", "object"}
AllCodes == {"Unavailable", "NotFound", "InvalidArgument", "DataLoss", "Other"}

ASSUME ConstantsAssumption ==
    /\ Types \subseteq AllTypes
    /\ Codes \subseteq AllCodes
    /\ MaxVersion \in Nat
    /\ WireCap \in Nat
    /\ MaxRetries \in Nat
    /\ CacheModes \subseteq BOOLEAN
    /\ CacheCap \in Nat \ {0}

Definition == [ver : 0..MaxVersion, type : Types]

ASSUME NoEntryAssumption == NoEntry \notin Definition

\* s.events is make(chan of.Event, 1)
EventCap == 1

VARIABLES
    \* the daemon and the network
    cfg,          \* flag definitions held by flagd
    link,         \* the event stream: none, open, broken (error), closed (EOF)
    wire,         \* messages on the stream not yet received
    \* the stream goroutine
    sp,           \* its program counter
    after,        \* where it continues once sendEvent returns
    out,          \* the event sendEvent is delivering
    todo,         \* flags of the current change still to be removed
    retries,      \* retryCounter.currentRetries
    delay,        \* retryCounter.currentDelay, in seconds
    signaled,     \* streamReadySignaled
    \* the Service
    client,       \* s.client # nil
    streamReady,  \* the channel of capacity 1 Init waits on
    events,       \* the events channel
    cancelled,    \* ctx.Err() # nil
    cacheEnabled, \* cache.Service.cacheEnabled
    cache,        \* the cached details
    \* the callers
    init,         \* Init: not called, waiting on streamReady, returned
    stop,         \* Shutdown: not called, in wg.Wait, returned
    ev,           \* the evaluation each application goroutine runs
    \* history: why an entry may be out of date
    missed,       \* changed while no stream could report it
    raced         \* invalidated while an evaluation held an older answer

daemonVars == <<cfg, link, wire>>
streamVars == <<sp, after, out, todo, retries, delay, signaled>>
callerVars == <<client, streamReady, events, cancelled, init, stop>>
cacheVars  == <<cacheEnabled, cache>>
history    == <<missed, raced>>
vars == <<daemonVars, streamVars, callerVars, cacheVars, ev, history>>

-----------------------------------------------------------------------------
(* Messages, events and evaluations *)

Message ==
    [type : {"configuration_change"}, data : BOOLEAN, flags : SUBSET Flags]
      \cup [type : {"provider_ready", "shutdown", "keep_alive"}]

NoEvent    == [type |-> "none", keys |-> {}]
ReadyEvent == [type |-> "ready", keys |-> {}]
ErrorEvent == [type |-> "error", keys |-> {}]
ChangeEvent(K) == [type |-> "change", keys |-> K]
Event == [type : {"none", "ready", "error", "change"}, keys : SUBSET Flags]

\* handleError: the resolution error of a connect error code
handleError(code) ==
    CASE code = "Unavailable"     -> "PROVIDER_NOT_READY"
      [] code = "NotFound"        -> "FLAG_NOT_FOUND"
      [] code = "InvalidArgument" -> "TYPE_MISMATCH"
      [] code = "DataLoss"        -> "PARSE_ERROR"
      [] OTHER                    -> "GENERAL"

Errors  == {handleError(c) : c \in AllCodes}
Reasons == {"STATIC", "FALLBACK", "OTHER"}
Sources == {"none", "cached", "fresh", "default"} \cup Errors

Idle == [pc |-> "idle", key |-> NoEntry, type |-> NoEntry,
         got |-> NoEntry, reason |-> NoEntry, src |-> "none"]

\* A STATIC answer on its way from the daemon into the cache
Held(e, k) ==
    /\ ev[e].pc \in {"answered", "add"}
    /\ ev[e].key = k
    /\ ev[e].reason = "STATIC"

\* An evaluation holds an answer for k that the daemon would no longer give
HoldsOld(k) == \E e \in Evals : Held(e, k) /\ ev[e].got # cfg[k]

\* A message of w tells the service to drop its entry for k
Notifies(m, k) ==
    /\ m.type = "configuration_change"
    /\ ~m.data \/ k \in m.flags
NotifiedBy(w, k) == \E i \in DOMAIN w : Notifies(w[i], k)

Pending(k) == k \in todo \/ NotifiedBy(wire, k)

-----------------------------------------------------------------------------
(* cache.Service *)

\* Purge: an entry that is filled later can only be older than the daemon's
\* definition if an evaluation already holds it
Purge ==
    /\ cache' = [k \in Flags |-> NoEntry]
    /\ missed' = {}
    /\ raced' = {k \in Flags : HoldsOld(k)}

\* Mutant: another key is deleted
RemoveNothing(k) ==
    /\ UNCHANGED cache
    /\ missed' = missed \ {k}
    /\ raced' = IF HoldsOld(k) THEN raced \cup {k} ELSE raced \ {k}

Remove(k) ==
    /\ cache' = [cache EXCEPT ![k] = NoEntry]
    /\ missed' = missed \ {k}
    /\ raced' = IF HoldsOld(k) THEN raced \cup {k} ELSE raced \ {k}

\* Add: the LRU cache evicts an entry when it is full (which one is not
\* distinguished); CacheCap >= |Flags| also describes the unbounded InMemory
Add(k, d) ==
    LET cached == {f \in Flags : cache[f] # NoEntry} IN
    \E victim \in IF k \notin cached /\ Cardinality(cached) >= CacheCap
                  THEN cached ELSE {k} :
        cache' = [cache EXCEPT ![victim] = NoEntry, ![k] = d]

-----------------------------------------------------------------------------
(* flagd: the definitions change; an open stream is told *)

Lose(w) ==
    /\ wire' = w
    /\ missed' = missed \cup {k \in Flags : /\ NotifiedBy(wire, k)
                                            /\ ~NotifiedBy(w, k)}

\* a cancelled context has reset the stream: nothing more is sent on it
Subscribed == link = "open" /\ ~cancelled

DaemonSends(m) ==
    /\ Subscribed
    /\ Len(wire) < WireCap
    /\ wire' = Append(wire, m)

DaemonChange(K, t) ==
    /\ \A k \in K : cfg[k].ver < MaxVersion
    /\ cfg' = [k \in Flags |-> IF k \in K
                               THEN [ver |-> cfg[k].ver + 1, type |-> t]
                               ELSE cfg[k]]
    /\ \/ /\ \E d \in BOOLEAN :
                DaemonSends([type |-> "configuration_change", data |-> d,
                             flags |-> IF d THEN K ELSE {}])
          /\ UNCHANGED missed
       \/ /\ ~Subscribed
          /\ missed' = missed \cup K
          /\ UNCHANGED wire
    /\ UNCHANGED <<link, streamVars, callerVars, cacheVars, ev, raced>>

DaemonNotify ==
    /\ \E t \in {"provider_ready", "shutdown", "keep_alive"} :
            DaemonSends([type |-> t])
    /\ UNCHANGED <<cfg, link, streamVars, callerVars, cacheVars, ev, history>>

\* The stream ends, with an error or with EOF; what it still carried may be
\* lost from some message on
StreamEnds ==
    /\ link = "open"
    /\ link' \in {"broken", "closed"}
    /\ \E n \in 0..Len(wire) : Lose(SubSeq(wire, 1, n))
    /\ UNCHANGED <<cfg, streamVars, callerVars, cacheVars, ev, raced>>

-----------------------------------------------------------------------------
(* Init and Shutdown *)

\* Init: newClient fails (an unreadable certificate) ...
InitFails ==
    /\ init = "no" /\ stop = "no"
    /\ init' = "err"
    /\ UNCHANGED <<daemonVars, streamVars, client, streamReady, events,
                   cancelled, stop, cacheVars, ev, history>>

\* ... or the stream goroutine is started and Init waits for its verdict
InitStarts ==
    /\ init = "no" /\ stop = "no"
    /\ client' = TRUE
    /\ sp' = "retry"
    /\ init' = "waiting"
    /\ UNCHANGED <<daemonVars, after, out, todo, retries, delay, signaled,
                   streamReady, events, cancelled, stop, cacheVars, ev, history>>

InitReturn ==
    /\ init = "waiting" /\ streamReady # "empty"
    /\ init' = streamReady
    /\ streamReady' = "empty"
    /\ UNCHANGED <<daemonVars, streamVars, client, events, cancelled, stop,
                   cacheVars, ev, history>>

\* Shutdown: cancel the context if Init made one, then wg.Wait
Shutdown ==
    /\ stop = "no"
    /\ cancelled' = (sp # "off")
    /\ stop' = "waiting"
    /\ UNCHANGED <<daemonVars, streamVars, client, streamReady, events, init,
                   cacheVars, ev, history>>

ShutdownReturns ==
    /\ stop = "waiting" /\ sp \in {"off", "finished"}
    /\ stop' = "done"
    /\ UNCHANGED <<daemonVars, streamVars, client, streamReady, events,
                   cancelled, init, cacheVars, ev, history>>

\* The provider reads the events channel
TakeEvent ==
    /\ events # <<>>
    /\ events' = Tail(events)
    /\ UNCHANGED <<daemonVars, streamVars, client, streamReady, cancelled,
                   init, stop, cacheVars, ev, history>>

-----------------------------------------------------------------------------
(* The stream goroutine *)

\* signalStreamReady: never blocks, a second verdict is dropped
signalStreamReady(v) ==
    streamReady' = IF streamReady = "empty" THEN v ELSE streamReady

\* Mutant: a failure is not passed on to Init
SignalNothing == UNCHANGED streamReady

\* if !streamReadySignaled { signalStreamReady(err) }
SignalFailure ==
    IF signaled THEN UNCHANGED streamReady ELSE signalStreamReady("err")

\* for s.retryCounter.retry()
Retry ==
    /\ sp = "retry"
    /\ retries' = retries + 1
    /\ sp' = IF retries' <= MaxRetries THEN "connect" ELSE "disable"
    /\ UNCHANGED <<daemonVars, after, out, todo, delay, signaled, callerVars,
                   cacheVars, ev, history>>

\* streamClient: EventStream succeeds
ConnectOk ==
    /\ sp = "connect" /\ ~cancelled
    /\ link' = "open" /\ wire' = <<>>
    /\ sp' = "receive"
    /\ IF signaled THEN UNCHANGED streamReady ELSE signalStreamReady("nil")
    /\ signaled' = TRUE
    /\ UNCHANGED <<cfg, after, out, todo, retries, delay, client, events,
                   cancelled, init, stop, cacheVars, ev, history>>

\* streamClient: EventStream returns an error
ConnectFails ==
    /\ sp = "connect"
    /\ sp' = "failed"
    /\ UNCHANGED <<daemonVars, after, out, todo, retries, delay, signaled,
                   callerVars, cacheVars, ev, history>>

\* retryCounter.reset, on every message received
Reset ==
    /\ retries' = 0
    /\ delay' = 1

Received(type) ==
    /\ sp = "receive"
    /\ link # "none" /\ wire # <<>>
    /\ Head(wire).type = type
    /\ Reset

\* sendEvent: the goroutine blocks in it until the event is delivered or
\* the context is cancelled
SendThen(event, next) ==
    /\ sp' = "send"
    /\ out' = event
    /\ after' = next

\* handleConfigurationChangeEvent
HandleConfigurationChange ==
    /\ Received("configuration_change")
    /\ wire' = Tail(wire)
    /\ IF ~cacheEnabled
       THEN UNCHANGED <<sp, todo, out, after, cache, missed, raced>>
       ELSE IF ~Head(wire).data
       THEN Purge /\ UNCHANGED <<sp, todo, out, after>>
       ELSE /\ todo' = Head(wire).flags
            /\ sp' = "remove"
            /\ out' = ChangeEvent(Head(wire).flags)
            /\ UNCHANGED <<after, cache, missed, raced>>
    /\ UNCHANGED <<cfg, link, signaled, callerVars, cacheEnabled, ev>>

\* Mutant: the event is not sent
RemoveSilently ==
    /\ sp = "remove"
    /\ \/ \E k \in todo :
            /\ Remove(k)
            /\ todo' = todo \ {k}
            /\ UNCHANGED <<sp, out>>
       \/ /\ todo = {}
          /\ sp' = "receive" /\ out' = NoEvent
          /\ UNCHANGED <<todo, cache, missed, raced>>
    /\ UNCHANGED <<daemonVars, after, retries, delay, signaled, callerVars,
                   cacheEnabled, ev>>

\* its loop over the changed flags, then the event
RemoveChanged ==
    /\ sp = "remove"
    /\ \/ \E k \in todo :
            /\ Remove(k)
            /\ todo' = todo \ {k}
            /\ UNCHANGED <<sp, out, after>>
       \/ /\ todo = {}
          /\ SendThen(out, "receive")
          /\ UNCHANGED <<todo, cache, missed, raced>>
    /\ UNCHANGED <<daemonVars, retries, delay, signaled, callerVars,
                   cacheEnabled, ev>>

\* handleReadyEvent
HandleReady ==
    /\ Received("provider_ready")
    /\ wire' = Tail(wire)
    /\ SendThen(ReadyEvent, "receive")
    /\ UNCHANGED <<cfg, link, todo, signaled, callerVars, cacheVars, ev, history>>

\* a shutdown message ends streamClient without an error
HandleShutdownMessage ==
    /\ Received("shutdown")
    /\ sp' = "backoff"
    /\ link' = "none"
    /\ Lose(<<>>)
    /\ UNCHANGED <<cfg, after, out, todo, signaled, callerVars, cacheVars, ev,
                   raced>>

HandleKeepAlive ==
    /\ Received("keep_alive")
    /\ wire' = Tail(wire)
    /\ UNCHANGED <<cfg, link, sp, after, out, todo, signaled, callerVars,
                   cacheVars, ev, history>>

\* Receive returns false: stream.Err() is set when the stream broke or the
\* context was cancelled
StreamError ==
    /\ sp = "receive"
    /\ (link = "broken" /\ wire = <<>>) \/ cancelled
    /\ link' = "none"
    /\ Lose(<<>>)
    /\ SendThen(ErrorEvent, "failed")
    /\ UNCHANGED <<cfg, todo, retries, delay, signaled, callerVars, cacheVars,
                   ev, raced>>

\* Receive returns false without an error
StreamEof ==
    /\ sp = "receive"
    /\ link = "closed" /\ wire = <<>>
    /\ link' = "none"
    /\ sp' = "backoff"
    /\ UNCHANGED <<cfg, wire, after, out, todo, retries, delay, signaled,
                   callerVars, cacheVars, ev, history>>

\* Mutant: the send does not select on ctx.Done
SendEventBlocks ==
    /\ sp = "send"
    /\ Len(events) < EventCap /\ events' = Append(events, out)
    /\ sp' = after
    /\ out' = NoEvent
    /\ UNCHANGED <<daemonVars, after, todo, retries, delay, signaled, client,
                   streamReady, cancelled, init, stop, cacheVars, ev, history>>

SendEvent ==
    /\ sp = "send"
    /\ \/ Len(events) < EventCap /\ events' = Append(events, out)
       \/ cancelled /\ UNCHANGED events
    /\ sp' = after
    /\ out' = NoEvent
    /\ UNCHANGED <<daemonVars, after, todo, retries, delay, signaled, client,
                   streamReady, cancelled, init, stop, cacheVars, ev, history>>

\* Mutant: Init is told of the first failure, and the loop goes on
FailedEarly ==
    /\ sp = "failed"
    /\ SignalFailure
    /\ \/ /\ cancelled
          /\ sp' = "finished"
          /\ UNCHANGED <<cache, missed, raced>>
       \/ /\ ~cancelled
          /\ IF cacheEnabled THEN Purge ELSE UNCHANGED <<cache, missed, raced>>
          /\ sp' = "backoff"
    /\ UNCHANGED <<daemonVars, after, out, todo, retries, delay, signaled,
                   client, events, cancelled, init, stop, cacheEnabled, ev>>

\* streamClient returned an error: leave on cancellation, else purge
Failed ==
    /\ sp = "failed"
    /\ \/ /\ cancelled
          /\ SignalFailure
          /\ sp' = "finished"
          /\ UNCHANGED <<cache, missed, raced>>
       \/ /\ ~cancelled
          /\ IF cacheEnabled THEN Purge ELSE UNCHANGED <<cache, missed, raced>>
          /\ sp' = "backoff"
          /\ UNCHANGED streamReady
    /\ UNCHANGED <<daemonVars, after, out, todo, retries, delay, signaled,
                   client, events, cancelled, init, stop, cacheEnabled, ev>>

\* select on ctx.Done and time.After(retryCounter.sleep()); sleep doubles
\* the delay whichever case is taken
Backoff ==
    /\ sp = "backoff"
    /\ delay' = 2 * delay
    /\ \/ /\ cancelled
          /\ SignalFailure
          /\ sp' = "finished"
       \/ /\ sp' = "retry"
          /\ UNCHANGED streamReady
    /\ UNCHANGED <<daemonVars, after, out, todo, retries, signaled, client,
                   events, cancelled, init, stop, cacheVars, ev, history>>

\* Attempts exhausted: cache.Disable clears the flag, then purges ...
Disable ==
    /\ sp = "disable"
    /\ sp' = IF cacheEnabled THEN "purge" ELSE "exhausted"
    /\ cacheEnabled' = FALSE
    /\ UNCHANGED <<daemonVars, after, out, todo, retries, delay, signaled,
                   callerVars, cache, ev, history>>

DisablePurge ==
    /\ sp = "purge"
    /\ sp' = "exhausted"
    /\ Purge
    /\ UNCHANGED <<daemonVars, after, out, todo, retries, delay, signaled,
                   callerVars, cacheEnabled, ev>>

\* Mutant: the provider is not told
ExhaustedSilently ==
    /\ sp = "exhausted"
    /\ SignalFailure
    /\ sp' = "finished"
    /\ UNCHANGED <<daemonVars, after, out, todo, retries, delay, signaled, client,
                   events, cancelled, init, stop, cacheVars, ev, history>>

\* ... then Init, if it still waits, and the provider are told
Exhausted ==
    /\ sp = "exhausted"
    /\ SignalFailure
    /\ SendThen(ErrorEvent, "finished")
    /\ UNCHANGED <<daemonVars, todo, retries, delay, signaled, client, events,
                   cancelled, init, stop, cacheVars, ev, history>>

StreamGoroutine ==
    \/ Retry \/ ConnectOk \/ ConnectFails
    \/ HandleConfigurationChange \/ RemoveChanged \/ HandleReady
    \/ HandleShutdownMessage \/ HandleKeepAlive \/ StreamError \/ StreamEof
    \/ SendEvent \/ Failed \/ Backoff
    \/ Disable \/ DisablePurge \/ Exhausted

-----------------------------------------------------------------------------
(* Evaluations *)

\* if !s.isInitialised() return ErrClientNotReady, else call the daemon
CallOrNotReady(r) ==
    IF client THEN [r EXCEPT !.pc = "call"]
    ELSE [r EXCEPT !.pc = "done", !.src = "PROVIDER_NOT_READY"]

\* The first check of the cache flag
Resolve(e, k, t) ==
    /\ ev[e].pc = "idle"
    /\ t \in Types
    /\ LET r == [Idle EXCEPT !.key = k, !.type = t] IN
       ev' = [ev EXCEPT ![e] = IF cacheEnabled THEN [r EXCEPT !.pc = "get"]
                               ELSE CallOrNotReady(r)]
    /\ UNCHANGED <<daemonVars, streamVars, callerVars, cacheVars, history>>

ResolveBoolean(e, k) == Resolve(e, k, "boolean")
ResolveString(e, k)  == Resolve(e, k, "string")
ResolveFloat(e, k)   == Resolve(e, k, "float")
ResolveInt(e, k)     == Resolve(e, k, "int")
ResolveObject(e, k)  == Resolve(e, k, "object")

\* A hit is an entry for the key that holds a detail of the wanted type
Hit(entry, t) == entry # NoEntry /\ entry.type = t

CacheGet(e) ==
    LET r == ev[e] IN
    /\ r.pc = "get"
    /\ ev' = [ev EXCEPT ![e] =
                IF Hit(cache[r.key], r.type)
                THEN [r EXCEPT !.pc = "done", !.src = "cached",
                               !.got = cache[r.key]]
                ELSE CallOrNotReady(r)]
    /\ UNCHANGED <<daemonVars, streamVars, callerVars, cacheVars, history>>

\* resolve: the daemon evaluates the flag; an empty variant with reason
\* DEFAULT or DISABLED (FALLBACK) stands for the caller's default value
CallAnswered(e) ==
    LET r == ev[e] IN
    /\ r.pc = "call"
    /\ cfg[r.key].type = r.type
    /\ \E reason \in Reasons :
         ev' = [ev EXCEPT ![e] =
                  [r EXCEPT !.pc = "answered", !.reason = reason,
                            !.got = IF reason = "FALLBACK" THEN NoEntry
                                    ELSE cfg[r.key]]]
    /\ UNCHANGED <<daemonVars, streamVars, callerVars, cacheVars, history>>

\* resolve: an error, an expired deadline, or a context that does not encode
CallFailed(e) ==
    LET r == ev[e] IN
    /\ r.pc = "call"
    /\ \E code \in Codes :
         ev' = [ev EXCEPT ![e] =
                  [r EXCEPT !.pc = "done", !.src = handleError(code)]]
    /\ UNCHANGED <<daemonVars, streamVars, callerVars, cacheVars, history>>

Done(r) ==
    [r EXCEPT !.pc = "done",
              !.src = IF r.reason = "FALLBACK" THEN "default" ELSE "fresh"]

\* The second check of the cache flag
StoreCheck(e) ==
    LET r == ev[e] IN
    /\ r.pc = "answered"
    /\ ev' = [ev EXCEPT ![e] = IF cacheEnabled /\ r.reason = "STATIC"
                               THEN [r EXCEPT !.pc = "add"] ELSE Done(r)]
    /\ UNCHANGED <<daemonVars, streamVars, callerVars, cacheVars, history>>

CacheAdd(e) ==
    LET r == ev[e] IN
    /\ r.pc = "add"
    /\ Add(r.key, r.got)
    /\ ev' = [ev EXCEPT ![e] = Done(r)]
    /\ UNCHANGED <<daemonVars, streamVars, callerVars, cacheEnabled, history>>

\* The detail is handed to the application
Return(e) ==
    /\ ev[e].pc = "done"
    /\ ev' = [ev EXCEPT ![e] = Idle]
    /\ UNCHANGED <<daemonVars, streamVars, callerVars, cacheVars, history>>

Evaluation(e) ==
    \/ \E k \in Flags : \/ ResolveBoolean(e, k) \/ ResolveString(e, k)
                        \/ ResolveFloat(e, k) \/ ResolveInt(e, k)
                        \/ ResolveObject(e, k)
    \/ CacheGet(e) \/ CallAnswered(e) \/ CallFailed(e)
    \/ StoreCheck(e) \/ CacheAdd(e) \/ Return(e)

-----------------------------------------------------------------------------

\* NewService, NewCacheService
Init ==
    /\ cfg \in [Flags -> {[ver |-> 0, type |-> t] : t \in Types}]
    /\ link = "none" /\ wire = <<>>
    /\ sp = "off" /\ after = "receive" /\ out = NoEvent /\ todo = {}
    /\ retries = 0 /\ delay = 0 /\ signaled = FALSE
    /\ client = FALSE /\ streamReady = "empty" /\ events = <<>>
    /\ cancelled = FALSE /\ init = "no" /\ stop = "no"
    /\ cacheEnabled \in CacheModes /\ cache = [k \in Flags |-> NoEntry]
    /\ ev = [e \in Evals |-> Idle]
    /\ missed = {} /\ raced = {}

Next ==
    \/ \E K \in (SUBSET Flags) \ {{}}, t \in Types : DaemonChange(K, t)
    \/ DaemonNotify \/ StreamEnds
    \/ InitFails \/ InitStarts \/ InitReturn
    \/ Shutdown \/ ShutdownReturns \/ TakeEvent
    \/ StreamGoroutine
    \/ \E e \in Evals : Evaluation(e)

Spec == Init /\ [][Next]_vars

\* Runnable goroutines run.  An attempt to connect is answered, by the daemon or
\* by an error of the network; nothing else is assumed of the daemon, and nothing
\* of the applications or of the reader of the events channel.
Fairness ==
    /\ WF_vars(StreamGoroutine)
    /\ WF_vars(InitReturn) /\ WF_vars(ShutdownReturns)

FairSpec == Spec /\ Fairness

\* A provider that goes on reading the events channel, as handleEvents does
ReaderReads == WF_vars(TakeEvent)

-----------------------------------------------------------------------------
(* Properties *)

EvalRecord ==
    [pc : {"idle", "get", "call", "answered", "add", "done"},
     key : Flags \cup {NoEntry}, type : Types \cup {NoEntry},
     got : Definition \cup {NoEntry}, reason : Reasons \cup {NoEntry},
     src : Sources]

StreamPcs == {"off", "retry", "connect", "receive", "remove", "send", "failed",
              "backoff", "disable", "purge", "exhausted", "finished"}

\* Every variable keeps the shape of the Go value it stands for, and an
\* evaluation in progress has its key and type.
TypeOK ==
    /\ cfg \in [Flags -> Definition]
    /\ link \in {"none", "open", "broken", "closed"}
    /\ wire \in Seq(Message)
    /\ sp \in StreamPcs
    /\ after \in {"receive", "failed", "finished"}
    /\ out \in Event
    /\ todo \in SUBSET Flags
    /\ retries \in Nat
    /\ delay \in Nat
    /\ signaled \in BOOLEAN
    /\ client \in BOOLEAN
    /\ streamReady \in {"empty", "nil", "err"}
    /\ events \in Seq(Event)
    /\ cancelled \in BOOLEAN
    /\ init \in {"no", "waiting", "nil", "err"}
    /\ stop \in {"no", "waiting", "done"}
    /\ cacheEnabled \in BOOLEAN
    /\ cache \in [Flags -> Definition \cup {NoEntry}]
    /\ ev \in [Evals -> EvalRecord]
    /\ \A e \in Evals : ev[e].pc # "idle" => ev[e].key \in Flags /\ ev[e].type \in Types
    /\ missed \in SUBSET Flags
    /\ raced \in SUBSET Flags

\* What the event stream guarantees of the cache, over every interleaving of
\* evaluations, changes, removals, purges and reconnections: an entry is the
\* daemon's current definition unless a notification for it is still on its
\* way, or the flag changed while no stream was up (missed), or an evaluation
\* carried an older answer across the invalidation (raced).
CacheCoherent ==
    \A k \in Flags :
        cache[k] \in {NoEntry, cfg[k]} \/ Pending(k) \/ k \in missed \/ k \in raced

\* Init's verdict and the stream goroutine agree: after a nil the stream had
\* been established, and after an error (or a failing newClient) no goroutine
\* is left that would connect again.
InitVerdict ==
    /\ init = "nil" => signaled
    /\ init = "err" => sp \in {"off", "send", "finished"}
    /\ init = "err" /\ sp = "send" => after = "finished"

\* Shutdown returns, whatever the stream goroutine is doing when the context
\* is cancelled and even if nobody reads the events channel any more
\* (sendEvent selects on ctx.Done).
ShutdownCompletes == stop = "waiting" ~> stop = "done"

\* Init returns: the stream goroutine passes on a verdict on every path, on
\* the first connection, on cancellation and on exhaustion.
InitCompletes == init = "waiting" ~> init \in {"nil", "err"}

\* Giving up is reported: after the last attempt an error event reaches the
\* events channel unless nobody reads it or the service is being shut down.
ExhaustionReported ==
    ReaderReads =>
      (sp = "exhausted" ~> (cancelled \/ \E i \in DOMAIN events : events[i].type = "error"))

\* A change notified on the stream is passed on to the provider as a
\* configuration change naming the flag, unless nobody reads the channel, the
\* notification is lost with the stream or carries no flags, or the service is
\* shut down.  A service WithoutCache is the last exception: it drops the
\* notification before the event, where the README lists
\* PROVIDER_CONFIGURATION_CHANGED for every change of a flag.
ChangeReported ==
    ReaderReads =>
      \A k \in Flags :
        (\E i \in DOMAIN wire : Notifies(wire[i], k) /\ wire[i].data)
            ~> \/ \E i \in DOMAIN events : k \in events[i].keys
               \/ link # "open" \/ cancelled \/ ~cacheEnabled

-----------------------------------------------------------------------------
(***************************************************************************)
(* Cache coherence.  CacheCoherent is not inductive: an answer travelling  *)
(* to the cache may be old as well, notifications may not vanish unless    *)
(* the loss is recorded, and a notification that is not acted upon (no     *)
(* cache) may only be one that no entry depends on.                        *)
(***************************************************************************)

\* The goroutine is inside streamClient, past the connection
Streaming == sp \in {"receive", "remove"} \/ (sp = "send" /\ after = "receive")

\* It has given up, or left
Leaving == sp \in {"purge", "exhausted", "finished"} \/ (sp = "send" /\ after = "finished")

StreamInv ==
    /\ init = "no" => sp = "off"
    /\ todo # {} => sp = "remove"
    /\ Streaming \/ (wire = <<>> /\ link = "none")

\* Until it gives up, a cache that is on stays on
InUse == cacheEnabled \/ Leaving

\* Excused, or the entry and every answer on its way to it are current
EntryInv(k) ==
    \/ Pending(k) \/ k \in missed \/ k \in raced
    \/ cache[k] \in {NoEntry, cfg[k]} /\ ~HoldsOld(k)

\* Only STATIC answers are on their way into the cache
AddsStatic == \A e \in Evals : ev[e].pc = "add" => ev[e].reason = "STATIC"

UnusedCache ==
    /\ \A k \in Flags : cache[k] = NoEntry
    /\ \A e \in Evals : ev[e].pc # "add"

\* The inductive strengthening of CacheCoherent: bookkeeping of the stream
\* goroutine (StreamInv), every entry and every answer in flight of a cache that
\* is in use (EntryInv), and a cache that stays empty when it never was.
CoherenceInv ==
    /\ StreamInv /\ AddsStatic
    /\ \/ InUse /\ \A k \in Flags : EntryInv(k)
       \/ ~cacheEnabled /\ UnusedCache

=============================================================================
