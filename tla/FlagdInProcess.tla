--------------------------- MODULE FlagdInProcess ---------------------------
(***************************************************************************)
(* The in-process resolver of the flagd provider:                          *)
(* providers/flagd/pkg/service/in_process/service.go and grpc_sync.go.     *)
(*                                                                         *)
(* Goroutines: Sync pulls flag configurations from the gRPC sync service   *)
(* into the syncData channel; the data sync listener applies them to the   *)
(* flag store and emits events; the connection monitor and Sync report     *)
(* errors on the sync events channel; the event sync monitor turns these   *)
(* into STALE and starts the stale timer, whose callback emits ERROR.      *)
(* The reader of the events channel is left to the modules that compose    *)
(* this one: they say when Took happens.                                   *)
(*                                                                         *)
(* A flag configuration maps every flag to a version, 0 for an absent      *)
(* flag; the evaluator rejects the members of Malformed.                   *)
(***************************************************************************)
EXTENDS Naturals, Sequences, FiniteSets

CONSTANTS
    Flags,         \* flag keys
    MaxVersion,    \* bound: versions of one flag
    MaxChanges,    \* bound: changes of the configuration at the source
    MaxBreaks,     \* bound: failures of the connection or of the stream
    EventCap,      \* eventChannelBuffer, 5 in the code
    SyncEventCap,  \* capacity of Sync.events, 10 in the code
    MaxCallbacks,  \* bound: stale timer callbacks alive at the same time
    Rejects,       \* TRUE if the source may reject a stream with a fatal code
    Malformed      \* configurations that do not parse

ASSUME BoundsAssumption ==
    /\ MaxVersion \in Nat /\ MaxChanges \in Nat /\ MaxBreaks \in Nat
    /\ EventCap \in Nat \ {0} /\ SyncEventCap \in Nat \ {0}
    /\ MaxCallbacks \in Nat
    /\ Rejects \in BOOLEAN

Config  == [Flags -> 0..MaxVersion]
Payload == Config \cup Malformed
Empty   == [k \in Flags |-> 0]

ASSUME MalformedAssumption == Malformed \cap Config = {}

NoData == <<>>

VARIABLES
    \* the sync service and the network (external)
    remote,       \* configuration the source serves
    changes,      \* how often it changed
    breaks,       \* how often connection or stream failed
    conn,         \* connectivity: up, down
    stream,       \* the SyncFlags stream: none, open, error, fatal
    inbox,        \* configurations sent on it and not yet received
    \* Sync
    sy,           \* program counter of Sync
    syncReady,    \* Sync.ready
    cm,           \* program counter of monitorConnectionState
    flap,         \* a TransientFailure it has not noticed yet
    syncEvents,   \* ProviderError events in Sync.events
    syncClosed,   \* Sync.events is closed
    panicked,     \* a goroutine sent on the closed channel
    \* InProcess
    data,         \* the syncData channel, capacity 1
    lp,           \* program counter of the data sync listener
    applied,      \* it has applied a configuration
    old,          \* oldFlagMap of the configuration being processed
    store,        \* the flag store
    ready,        \* InProcess.ready
    initSuccess,  \* initSuccess is closed
    initError,    \* an error is in initError
    mp,           \* program counter of the event sync monitor
    timer,        \* staleTimer.timer: nil, armed, fired
    callbacks,    \* timer callbacks waiting to send ERROR
    events,       \* the events channel
    cancelled,    \* ctx.Err() # nil
    init,         \* Init: no, waiting, nil, err
    stop,         \* Shutdown: no, waiting, done
    \* the reader of the events channel
    last,         \* type of the last event it took
    view          \* the flags as it refreshed them on configuration changes

sourceVars  == <<remote, changes, breaks, conn>>
streamVars  == <<stream, inbox>>
syncVars    == <<sy, syncReady>>
monitorVars == <<cm, flap, syncEvents, syncClosed, panicked>>
listenVars  == <<lp, applied, old, store>>
staleVars   == <<mp, timer, callbacks>>
initVars    == <<initSuccess, initError, init>>
readerVars  == <<last, view>>
vars == <<sourceVars, streamVars, syncVars, monitorVars, data, listenVars,
          ready, staleVars, events, cancelled, initVars, stop, readerVars>>

Plain(type) == [type |-> type, keys |-> {}]
Send(e) == Len(events) < EventCap /\ events' = Append(events, e)

-----------------------------------------------------------------------------
(* The source: it serves its whole configuration on every new stream and on *)
(* every change                                                             *)

SourceChange ==
    /\ changes < MaxChanges
    /\ changes' = changes + 1
    /\ remote' \in Payload \ {remote}
    /\ inbox' = IF stream = "open" THEN Append(inbox, remote') ELSE inbox
    /\ UNCHANGED <<breaks, conn, stream, syncVars, monitorVars, data, listenVars,
                   ready, staleVars, events, cancelled, initVars, stop, readerVars>>

\* What was not yet sent or received is lost from some configuration on
Truncate == \E n \in 0..Len(inbox) : inbox' = SubSeq(inbox, 1, n)

ConnDown ==
    /\ conn = "up" /\ breaks < MaxBreaks
    /\ breaks' = breaks + 1
    /\ conn' = "down" /\ flap' = TRUE
    /\ stream' = IF stream = "open" THEN "error" ELSE stream
    /\ Truncate
    /\ UNCHANGED <<remote, changes, syncVars, cm, syncEvents, syncClosed,
                   panicked, data, listenVars, ready, staleVars, events,
                   cancelled, initVars, stop, readerVars>>

ConnUp ==
    /\ conn = "down"
    /\ conn' = "up"
    /\ UNCHANGED <<remote, changes, breaks, streamVars, syncVars, monitorVars,
                   data, listenVars, ready, staleVars, events, cancelled,
                   initVars, stop, readerVars>>

\* The source ends the stream with a status, retryable or in FatalStatusCodes
StreamFails ==
    /\ stream = "open" /\ breaks < MaxBreaks
    /\ breaks' = breaks + 1
    /\ stream' \in IF Rejects THEN {"error", "fatal"} ELSE {"error"}
    /\ Truncate
    /\ UNCHANGED <<remote, changes, conn, syncVars, monitorVars, data,
                   listenVars, ready, staleVars, events, cancelled, initVars,
                   stop, readerVars>>

-----------------------------------------------------------------------------
(* Init and Shutdown *)

\* Init: the sync provider fails to initialise ...
InitFails ==
    /\ init = "no" /\ stop = "no"
    /\ init' = "err"
    /\ UNCHANGED <<sourceVars, streamVars, syncVars, monitorVars, data,
                   listenVars, ready, staleVars, events, cancelled,
                   initSuccess, initError, stop, readerVars>>

\* ... or all background goroutines are started and Init waits; a first attempt
\* to reach a source that is down ends in TransientFailure
InitStarts ==
    /\ init = "no" /\ stop = "no"
    /\ init' = "waiting"
    /\ sy' = "cycle" /\ cm' = "watch" /\ mp' = "wait" /\ lp' = "select"
    /\ flap' = (conn = "down")
    /\ UNCHANGED <<applied, sourceVars, streamVars, syncReady, syncEvents,
                   syncClosed, panicked, data, old, store, ready, timer,
                   callbacks, events, cancelled, initSuccess, initError, stop,
                   readerVars>>

\* waitForInitialization: select on initSuccess and initError
InitReturn ==
    /\ init = "waiting"
    /\ \/ initSuccess /\ init' = "nil" /\ UNCHANGED initError
       \/ initError /\ init' = "err" /\ initError' = FALSE
    /\ UNCHANGED <<sourceVars, streamVars, syncVars, monitorVars, data,
                   listenVars, ready, staleVars, events, cancelled,
                   initSuccess, stop, readerVars>>

\* staleTimer.stop: a callback that already runs is not stopped
StopTimer == timer' = "nil"

\* Shutdown: stop the timer, cancel the context, close listenerShutdown ...
Shutdown ==
    /\ stop = "no" /\ init # "no"
    /\ stop' = "waiting"
    /\ cancelled' = TRUE
    /\ StopTimer
    /\ UNCHANGED <<sourceVars, streamVars, syncVars, monitorVars, data,
                   listenVars, ready, mp, callbacks, events, initVars,
                   readerVars>>

\* ... then wg.Wait for Sync and for the listener
ShutdownReturns ==
    /\ stop = "waiting"
    /\ sy \in {"off", "returned"} /\ lp \in {"off", "finished"}
    /\ stop' = "done"
    /\ UNCHANGED <<sourceVars, streamVars, syncVars, monitorVars, data,
                   listenVars, ready, staleVars, events, cancelled, initVars,
                   readerVars>>

-----------------------------------------------------------------------------
(* Sync *)

\* SyncFlags with WaitForReady: the stream is created once the connection is up
SyncOpen ==
    /\ sy = "cycle" /\ ~cancelled /\ conn = "up"
    /\ stream' = "open" /\ inbox' = <<remote>>
    /\ sy' = "recv"
    /\ UNCHANGED <<sourceVars, syncReady, monitorVars, data,
                   listenVars, ready, staleVars, events, cancelled, initVars,
                   stop, readerVars>>

\* Mutant: a configuration that finds syncData full is dropped
SyncReceiveDrops ==
    /\ sy = "recv" /\ inbox # <<>>
    /\ data' = IF data = NoData THEN <<Head(inbox)>> ELSE data
    /\ inbox' = Tail(inbox)
    /\ sy' = IF syncReady THEN "recv" ELSE "mark"
    /\ UNCHANGED <<sourceVars, stream, syncReady, monitorVars, listenVars, ready,
                   staleVars, events, cancelled, initVars, stop, readerVars>>

\* handleFlagSync and processFlagData: a configuration is received and put into
\* syncData, when that has room ...
SyncReceive ==
    /\ sy = "recv" /\ inbox # <<>> /\ data = NoData
    /\ data' = <<Head(inbox)>>
    /\ inbox' = Tail(inbox)
    /\ sy' = IF syncReady THEN "recv" ELSE "mark"
    /\ UNCHANGED <<sourceVars, stream, syncReady, monitorVars, listenVars, ready,
                   staleVars, events, cancelled, initVars, stop, readerVars>>

\* ... and once the first one is there Sync is ready
SyncMarksReady ==
    /\ sy = "mark"
    /\ sy' = "recv" /\ syncReady' = TRUE
    /\ UNCHANGED <<sourceVars, streamVars, monitorVars, data, listenVars, ready,
                   staleVars, events, cancelled, initVars, stop, readerVars>>

\* Sync.sendEvent: never blocks; an event is dropped when the channel is full
\* or, at the choice of select, when the context is cancelled
SyncSendEvent ==
    \/ syncClosed /\ panicked' = TRUE /\ UNCHANGED syncEvents
    \/ /\ ~syncClosed /\ syncEvents < SyncEventCap
       /\ syncEvents' = syncEvents + 1 /\ UNCHANGED panicked
    \/ /\ cancelled \/ (~syncClosed /\ syncEvents = SyncEventCap)
       /\ UNCHANGED <<syncEvents, panicked>>

\* What performSyncCycle reports of a stream that ended.  The receiving
\* goroutine queues the error, then closes both channels, so the select may see
\* "stream channel closed" instead of the error and its status; it may take
\* either before the last configuration, which streamChan still buffers
CycleErrors ==
    IF sy # "recv" \/ stream \notin {"error", "fatal"} \/ Len(inbox) > 1 THEN {}
    ELSE {"retry"} \cup (IF stream = "fatal" THEN {"fatal"} ELSE {})

\* Mutant: a fatal status ends Sync at any time
SyncFailedFatal ==
    /\ ~cancelled
    /\ \E err \in CycleErrors :
         IF err = "fatal"
         THEN sy' = "returned" /\ initError' = TRUE /\ UNCHANGED <<syncEvents, panicked>>
         ELSE sy' = "cycle" /\ SyncSendEvent /\ UNCHANGED initError
    /\ stream' = "none" /\ inbox' = <<>>
    /\ UNCHANGED <<sourceVars, syncReady, cm, flap, syncClosed, data,
                   listenVars, ready, staleVars, events, cancelled,
                   initSuccess, init, stop, readerVars>>

\* Mutant: a failed cycle is not retried
SyncFailedGivesUp ==
    /\ ~cancelled /\ CycleErrors # {}
    /\ sy' = "returned" /\ SyncSendEvent
    /\ stream' = "none" /\ inbox' = <<>>
    /\ UNCHANGED <<sourceVars, syncReady, cm, flap, syncClosed, data,
                   listenVars, ready, staleVars, events, cancelled,
                   initVars, stop, readerVars>>

\* Mutant: a failed cycle closes the channel it reports on
SyncFailedCloses ==
    /\ ~cancelled /\ CycleErrors # {}
    /\ sy' = "cycle" /\ SyncSendEvent /\ syncClosed' = TRUE
    /\ stream' = "none" /\ inbox' = <<>>
    /\ UNCHANGED <<sourceVars, syncReady, cm, flap, data, listenVars, ready,
                   staleVars, events, cancelled, initVars, stop, readerVars>>

\* A failed cycle: fatal before the first configuration, else reported and
\* retried after the backoff
SyncFailed ==
    /\ ~cancelled
    /\ \E err \in CycleErrors :
         IF ~syncReady /\ err = "fatal"
         THEN sy' = "returned" /\ initError' = TRUE /\ UNCHANGED <<syncEvents, panicked>>
         ELSE sy' = "cycle" /\ SyncSendEvent /\ UNCHANGED initError
    /\ stream' = "none" /\ inbox' = <<>>
    /\ UNCHANGED <<sourceVars, syncReady, cm, flap, syncClosed, data,
                   listenVars, ready, staleVars, events, cancelled,
                   initSuccess, init, stop, readerVars>>

\* Mutant: the receive loop does not select on ctx.Done
SyncCancelledInCycle ==
    /\ cancelled
    /\ sy = "cycle"
    /\ sy' = "returned"
    /\ stream' = "none" /\ inbox' = <<>>
    /\ UNCHANGED <<sourceVars, syncReady, monitorVars, data, listenVars, ready,
                   staleVars, events, cancelled, initVars, stop, readerVars>>

\* Every wait of Sync selects on ctx.Done
SyncCancelled ==
    /\ cancelled
    /\ sy \in {"cycle", "recv"}
    /\ sy' = "returned"
    /\ stream' = "none" /\ inbox' = <<>>
    /\ UNCHANGED <<sourceVars, syncReady, monitorVars, data, listenVars, ready,
                   staleVars, events, cancelled, initVars, stop, readerVars>>

\* monitorConnectionState: the check of the context and the handling of the
\* state are two steps; a failure that is over by the time GetState is called
\* goes unnoticed
MonitorSees ==
    /\ cm = "watch"
    /\ flap \/ cancelled
    /\ flap' = FALSE
    /\ cm' = IF cancelled THEN "done"
             ELSE IF conn = "down" THEN "failure" ELSE "watch"
    /\ UNCHANGED <<sourceVars, streamVars, syncVars, syncEvents, syncClosed,
                   panicked, data, listenVars, ready, staleVars, events,
                   cancelled, initVars, stop, readerVars>>

MonitorReports ==
    /\ cm = "failure"
    /\ SyncSendEvent
    /\ cm' = "watch"
    /\ UNCHANGED <<sourceVars, streamVars, syncVars, flap, syncClosed, data,
                   listenVars, ready, staleVars, events, cancelled, initVars,
                   stop, readerVars>>

SyncGoroutine == SyncOpen \/ SyncReceive \/ SyncMarksReady \/ SyncFailed \/ SyncCancelled

-----------------------------------------------------------------------------
(* The event sync monitor and the stale timer *)

\* Mutant: an error that finds the service not ready is not reported
HandleSyncErrorReady ==
    /\ mp = "wait" /\ syncEvents > 0
    /\ syncEvents' = syncEvents - 1
    /\ ready' = FALSE
    /\ mp' = IF ready THEN "stale" ELSE "wait"
    /\ UNCHANGED <<sourceVars, streamVars, syncVars, cm, flap, syncClosed,
                   panicked, data, listenVars, timer, callbacks, events,
                   cancelled, initVars, stop, readerVars>>

\* handleSyncEvent: ready is cleared before STALE is sent
HandleSyncError ==
    /\ mp = "wait" /\ syncEvents > 0
    /\ syncEvents' = syncEvents - 1
    /\ ready' = FALSE
    /\ mp' = "stale"
    /\ UNCHANGED <<sourceVars, streamVars, syncVars, cm, flap, syncClosed,
                   panicked, data, listenVars, timer, callbacks, events,
                   cancelled, initVars, stop, readerVars>>

\* handleProviderError blocks on the events channel, whatever the context
SendStale ==
    /\ mp = "stale"
    /\ Send(Plain("stale"))
    /\ mp' = "start"
    /\ UNCHANGED <<sourceVars, streamVars, syncVars, monitorVars, data,
                   listenVars, ready, timer, callbacks, cancelled, initVars,
                   stop, readerVars>>

\* Mutant: the timer is started only while the service is ready
TimerStartReady ==
    /\ mp = "start"
    /\ timer' = IF timer = "nil" /\ ready THEN "armed" ELSE timer
    /\ mp' = "wait"
    /\ UNCHANGED <<sourceVars, streamVars, syncVars, monitorVars, data,
                   listenVars, ready, callbacks, events, cancelled, initVars,
                   stop, readerVars>>

\* staleTimer.start: only when there is no timer, not even one that fired
TimerStart ==
    /\ mp = "start"
    /\ timer' = IF timer = "nil" THEN "armed" ELSE timer
    /\ mp' = "wait"
    /\ UNCHANGED <<sourceVars, streamVars, syncVars, monitorVars, data,
                   listenVars, ready, callbacks, events, cancelled, initVars,
                   stop, readerVars>>

EventMonitorLeaves ==
    /\ mp = "wait" /\ cancelled
    /\ mp' = "done"
    /\ UNCHANGED <<sourceVars, streamVars, syncVars, monitorVars, data,
                   listenVars, ready, timer, callbacks, events, cancelled,
                   initVars, stop, readerVars>>

\* The grace period ends: the callback runs in a goroutine of its own
TimerFires ==
    /\ timer = "armed" /\ callbacks < MaxCallbacks
    /\ timer' = "fired"
    /\ callbacks' = callbacks + 1
    /\ UNCHANGED <<sourceVars, streamVars, syncVars, monitorVars, data,
                   listenVars, ready, mp, events, cancelled, initVars, stop,
                   readerVars>>

TimerCallback ==
    /\ callbacks > 0
    /\ Send(Plain("error"))
    /\ callbacks' = callbacks - 1
    /\ UNCHANGED <<sourceVars, streamVars, syncVars, monitorVars, data,
                   listenVars, ready, mp, timer, cancelled, initVars, stop,
                   readerVars>>

EventMonitor == HandleSyncError \/ SendStale \/ TimerStart \/ EventMonitorLeaves

-----------------------------------------------------------------------------
(* The data sync listener *)

\* processSyncData: SetState rejects the configuration ...
ApplyBad ==
    /\ lp = "select" /\ data # NoData /\ data[1] \in Malformed
    /\ data' = NoData
    /\ ready' = FALSE
    /\ lp' = "bad"
    /\ UNCHANGED <<applied, sourceVars, streamVars, syncVars, monitorVars, old, store,
                   staleVars, events, cancelled, initVars, stop, readerVars>>

SendBad ==
    /\ lp = "bad"
    /\ Send(Plain("error"))
    /\ lp' = "select"
    /\ UNCHANGED <<applied, sourceVars, streamVars, syncVars, monitorVars, data, old,
                   store, ready, staleVars, cancelled, initVars, stop,
                   readerVars>>

\* ... or replaces the store; then the stale timer is stopped
Apply ==
    /\ lp = "select" /\ data # NoData /\ data[1] \notin Malformed
    /\ old' = store
    /\ store' = data[1]
    /\ data' = NoData
    /\ StopTimer
    /\ lp' = "ready" /\ applied' = TRUE
    /\ UNCHANGED <<sourceVars, streamVars, syncVars, monitorVars, ready, mp,
                   callbacks, events, cancelled, initVars, stop, readerVars>>

SetReady ==
    /\ lp = "ready"
    /\ lp' = IF ready THEN "compare" ELSE "sendReady"
    /\ ready' = TRUE
    /\ UNCHANGED <<applied, sourceVars, streamVars, syncVars, monitorVars, data, old,
                   store, staleVars, events, cancelled, initVars, stop,
                   readerVars>>

SendReady ==
    /\ lp = "sendReady"
    /\ Send(Plain("ready"))
    /\ lp' = "compare"
    /\ UNCHANGED <<applied, sourceVars, streamVars, syncVars, monitorVars, data, old,
                   store, ready, staleVars, cancelled, initVars, stop,
                   readerVars>>

\* computeChangedFlags: new or modified flags, then deleted ones
computeChangedFlags(o, n) ==
    {k \in Flags : n[k] # 0 /\ (o[k] = 0 \/ o[k] # n[k])}
      \cup {k \in Flags : o[k] # 0 /\ n[k] = 0}

\* initSuccess is closed (once), then the stores are compared
Compare ==
    /\ lp = "compare"
    /\ initSuccess' = TRUE
    /\ IF computeChangedFlags(old, store) = {}
       THEN lp' = "select" /\ old' = Empty
       ELSE lp' = "sendChange" /\ UNCHANGED old
    /\ UNCHANGED <<applied, sourceVars, streamVars, syncVars, monitorVars, data, store,
                   ready, staleVars, events, cancelled, initError, init,
                   stop, readerVars>>

SendChange ==
    /\ lp = "sendChange"
    /\ Send([type |-> "change", keys |-> computeChangedFlags(old, store)])
    /\ lp' = "select" /\ old' = Empty
    /\ UNCHANGED <<applied, sourceVars, streamVars, syncVars, monitorVars, data, store,
                   ready, staleVars, cancelled, initVars, stop, readerVars>>

\* The listener leaves through Sync.Shutdown: it waits for Sync, at most five
\* seconds, and closes the sync events channel
ListenerLeaves ==
    /\ lp = "select" /\ cancelled
    /\ lp' = "closing"
    /\ UNCHANGED <<applied, sourceVars, streamVars, syncVars, monitorVars, data, old,
                   store, ready, staleVars, events, cancelled, initVars, stop,
                   readerVars>>

ListenerCloses ==
    /\ lp = "closing"
    /\ lp' = "finished"
    /\ syncClosed' = TRUE
    /\ UNCHANGED <<applied, sourceVars, streamVars, syncVars, cm, flap, syncEvents,
                   panicked, data, old, store, ready, staleVars, events,
                   cancelled, initVars, stop, readerVars>>

Listener ==
    \/ ApplyBad \/ SendBad \/ Apply \/ SetReady
    \/ SendReady \/ Compare \/ SendChange \/ ListenerLeaves \/ ListenerCloses

-----------------------------------------------------------------------------

\* The reader takes an event; on a configuration change it reads the flags the
\* event names again
Took ==
    /\ events # <<>>
    /\ events' = Tail(events)
    /\ last' = Head(events).type
    /\ view' = [k \in Flags |-> IF k \in Head(events).keys THEN store[k] ELSE view[k]]

TakeEvent ==
    /\ Took
    /\ UNCHANGED <<sourceVars, streamVars, syncVars, monitorVars, data,
                   listenVars, ready, staleVars, cancelled, initVars, stop>>

\* NewInProcessService
Init ==
    /\ remote \in Payload /\ changes = 0 /\ breaks = 0 /\ conn = "up"
    /\ stream = "none" /\ inbox = <<>>
    /\ sy = "off" /\ syncReady = FALSE
    /\ cm = "off" /\ flap = FALSE /\ syncEvents = 0 /\ syncClosed = FALSE
    /\ panicked = FALSE
    /\ data = NoData /\ lp = "off" /\ applied = FALSE /\ old = Empty /\ store = Empty
    /\ ready = FALSE /\ initSuccess = FALSE /\ initError = FALSE
    /\ mp = "off" /\ timer = "nil" /\ callbacks = 0
    /\ events = <<>> /\ cancelled = FALSE /\ init = "no" /\ stop = "no"
    /\ last = "none" /\ view = Empty

\* A cancelled context has reset the stream: nothing the source does is seen
Environment == ~cancelled /\ (SourceChange \/ ConnDown \/ ConnUp \/ StreamFails)

Service ==
    \/ InitFails \/ InitStarts \/ InitReturn
    \/ SyncGoroutine \/ MonitorSees \/ MonitorReports
    \/ EventMonitor \/ Listener \/ ShutdownReturns

StaleTimer == TimerFires \/ TimerCallback

\* While the grace period of the stale timer lasts
NextInGrace == Environment \/ Service \/ TakeEvent \/ Shutdown

Next == NextInGrace \/ StaleTimer

Spec == Init /\ [][Next]_vars

\* The goroutines run, a connection that broke comes back, and the events channel
\* is read until Shutdown is called: from then on the provider's handleEvents
\* waits for the mutex that Shutdown holds, so nothing is assumed of a reader.
\* Nor is anything of the source, of the connection monitor and of the timer.
GoroutinesRun ==
    /\ WF_vars(SyncGoroutine) /\ WF_vars(EventMonitor) /\ WF_vars(Listener)
    /\ WF_vars(InitReturn) /\ WF_vars(~cancelled /\ TakeEvent) /\ WF_vars(ConnUp)

LiveSpec == Init /\ [][NextInGrace]_vars /\ GoroutinesRun /\ WF_vars(ShutdownReturns)

-----------------------------------------------------------------------------
(* Properties *)

EventRecord == [type : {"ready", "stale", "error", "change"}, keys : SUBSET Flags]

\* Every variable keeps the shape of the Go value it stands for; the channels
\* stay within their capacities.
TypeOK ==
    /\ remote \in Payload /\ changes \in 0..MaxChanges /\ breaks \in 0..MaxBreaks
    /\ conn \in {"up", "down"}
    /\ stream \in {"none", "open", "error", "fatal"}
    /\ inbox \in Seq(Payload)
    /\ sy \in {"off", "cycle", "recv", "mark", "returned"}
    /\ syncReady \in BOOLEAN
    /\ cm \in {"off", "watch", "failure", "done"}
    /\ flap \in BOOLEAN
    /\ syncEvents \in 0..SyncEventCap
    /\ syncClosed \in BOOLEAN /\ panicked \in BOOLEAN
    /\ data \in Seq(Payload) /\ Len(data) <= 1
    /\ lp \in {"off", "select", "bad", "ready", "sendReady", "compare",
               "sendChange", "closing", "finished"}
    /\ applied \in BOOLEAN /\ old \in Config /\ store \in Config
    /\ ready \in BOOLEAN /\ initSuccess \in BOOLEAN /\ initError \in BOOLEAN
    /\ mp \in {"off", "wait", "stale", "start", "done"}
    /\ timer \in {"nil", "armed", "fired"}
    /\ callbacks \in 0..MaxCallbacks
    /\ events \in Seq(EventRecord) /\ Len(events) <= EventCap
    /\ cancelled \in BOOLEAN
    /\ init \in {"no", "waiting", "nil", "err"}
    /\ stop \in {"no", "waiting", "done"}
    /\ last \in {"none", "ready", "stale", "error", "change"}
    /\ view \in Config

\* A reader that refreshes only the flags that configuration change events name
\* is never out of date once it took the last one: computeChangedFlags and the
\* event cover every addition, modification and deletion, whatever was
\* rejected, dropped or repeated by a reconnection in between.
ViewCurrent == events = <<>> /\ lp = "select" => view = store

\* Whenever nothing is under way (the stream is open and everything it carried
\* went through Sync and the listener) the store is what the source serves,
\* unless that does not parse: also after outages that lost configurations, and
\* when configurations arrive faster than the listener applies them.
SettledIsCurrent ==
    stream = "open" /\ inbox = <<>> /\ data = NoData /\ lp = "select"
      => store = remote \/ remote \in Malformed

\* Once Init succeeded the service goes on syncing until it is shut down: a
\* fatal status code ends Sync only before the first configuration
\* (the IsReady check of Sync).
KeepsSyncing == init = "nil" /\ sy = "returned" => cancelled

\* Init succeeds only after the configuration was announced by a READY event:
\* nobody sees Init return before the event is in the channel.
AnnouncedBeforeInit ==
    init = "nil" => \/ last # "none"
                    \/ \E i \in DOMAIN events : events[i].type = "ready"

\* A caller that was told Init succeeded has a service that serves: READY went
\* ahead of the return, and Sync goes on until Shutdown, whatever the status
\* code of a later stream.
InitMeansServing == AnnouncedBeforeInit /\ KeepsSyncing

\* The store follows the source, and a reader of the change events the store.
SourceFollowed == SettledIsCurrent /\ ViewCurrent

Quiet == events = <<>> /\ mp \in {"off", "wait"} /\ lp = "select" /\ callbacks = 0

\* An outage that was reported and is not over has its stale timer: armed by the
\* event monitor after the STALE event, or fired (a fired timer is not started
\* again, so a later outage stays STALE).
StaleHasTimer == Quiet /\ last = "stale" /\ ~ready /\ ~cancelled => timer # "nil"

\* The connection monitor, which nobody waits for, sends on the sync events
\* channel that the listener closes: the panic that follows can only happen
\* while the service shuts down.
PanicOnlyInShutdown == panicked => cancelled

\* The listener waits for room in the events channel, whatever the context
ListenerBlocked ==
    lp \in {"bad", "sendReady", "sendChange"} /\ Len(events) = EventCap

\* Shutdown returns, whatever Sync and the listener are waiting for, unless the
\* listener stays blocked on a full events channel that nobody reads any more
\* (its sends do not select on the context).
ShutdownCompletes == stop = "waiting" ~> (stop = "done" \/ []ListenerBlocked)

\* After an outage the store converges to what the source serves, unless the
\* service is not running or the source serves something that does not parse.
SourceConverges ==
    <>[](init \in {"no", "err"} \/ cancelled \/ remote \in Malformed \/ store = remote)

\* A failed sync cycle is reported to the application as STALE.
OutageReported ==
    (sy = "recv" /\ stream = "error") ~> (last = "stale" \/ cancelled)

-----------------------------------------------------------------------------
(* A statement of the code's comments *)

\* service.go, line 351: "Send ready event if not already sent - handles initial
\* ready and recovery automatically": a service that is ready again has said so
\* after it reported the outage.
RecoveryAnnounced == Quiet /\ ready => last \in {"ready", "change"}
=============================================================================
