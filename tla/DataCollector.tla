---------------------------- MODULE DataCollector ----------------------------
(***************************************************************************)
(* The data collector of the GO Feature Flag provider:                     *)
(* providers/go-feature-flag/pkg/manager/data_collector_manager.go, with   *)
(* its callers in pkg/provider.go and pkg/hook/data_collector_hook.go.     *)
(*                                                                         *)
(* Evaluations and Track calls add usage events to a bounded buffer under  *)
(* a mutex; a ticker goroutine, an AddEvent that finds the buffer full and *)
(* Stop send the buffer to the relay proxy, holding the mutex during the   *)
(* request.  A failed request may nevertheless have reached the relay.     *)
(* Every Init of the provider calls Start, also one after a failed Init or *)
(* during a Stop: each Start leaves a goroutine, and all of them share the *)
(* one slot of collectChannel and the latest ticker and goroutineDone.     *)
(***************************************************************************)
EXTENDS Naturals, Sequences

CONSTANTS
    Events,        \* usage events, each produced once
    Max,           \* dataCollectorMaxEventStored, after its default
    Remote,        \* TRUE: EvaluationTypeRemote, FALSE: in-process
    MaxStarts,     \* bound: calls of Start
    MaxIdleStops,  \* bound: calls of Stop on a collector that does not run
    MaxFailures,   \* bound: failed requests
    NoOne          \* the holder of an unlocked mutex

\* The goroutine, the ticker and the goroutineDone of each call of Start
Collectors == 1 .. MaxStarts

ASSUME BoundsAssumption ==
    /\ Max \in Nat \ {0}
    /\ Remote \in BOOLEAN
    /\ MaxStarts \in Nat /\ MaxIdleStops \in Nat /\ MaxFailures \in Nat

\* Who calls SendData or AddEvent: Stop has a number no Start has
Stopper == 0
Senders == Events \cup Collectors \cup {Stopper}

ASSUME SendersAssumption ==
    /\ NoOne \notin Senders
    /\ Events \cap Collectors = {} /\ Stopper \notin Events

VARIABLES
    disabled,   \* DataCollectorDisabled
    buffer,     \* d.events
    mutex,      \* the holder of d.mutex
    copySend,   \* the batch each sender has in its request
    ap,         \* AddEvent of each event: new, sending, accepted, rejected, skipped
    cp,         \* the goroutines: off, begin, select, lock, sending, done
    closes,     \* the goroutineDone that the goroutine's defer has read, or 0
    closed,     \* the channels goroutineDone that are closed
    ticking,    \* the tickers that run
    tick,       \* the tickers' channels that hold a tick
    token,      \* collectChannel holds a value
    sp,         \* Stop: no, ticker, look, wait, lock, sending
    waits,      \* the goroutineDone that Stop waits for
    starts,     \* calls of Start: the one d.ticker and d.goroutineDone are of
    idleStops,  \* calls of Stop without a goroutine to stop
    overlapped, \* Start found an earlier goroutine or a Stop at work
    panicked,   \* a goroutineDone was closed twice: the process is gone
    delivered,  \* how often the relay received each event
    failures    \* requests that returned an error

sendVars == <<buffer, mutex, copySend, delivered, failures>>
tickVars == <<ticking, tick>>
goVars == <<cp, closes, closed, panicked>>
stopVars == <<token, sp, waits, idleStops>>
startVars == <<starts, overlapped, disabled>>
vars == <<ap, sendVars, tickVars, goVars, stopVars, startVars>>

\* The goroutine of this Start has not returned yet
Running(c) == cp[c] \notin {"off", "done"}

InBatch(e, batch) == \E i \in DOMAIN batch : batch[i] = e

-----------------------------------------------------------------------------
(* sendDataLocked *)

\* The caller took the mutex and the buffer is not empty: its copy is sent
BeginSend(s) ==
    /\ mutex = NoOne
    /\ mutex' = s
    /\ copySend' = [copySend EXCEPT ![s] = buffer]
    /\ UNCHANGED <<buffer, delivered, failures>>

Deliver(batch) ==
    delivered' = [e \in Events |-> IF InBatch(e, batch) THEN delivered[e] + 1
                                   ELSE delivered[e]]

\* Mutant: the buffer is kept after a flush
SentKeeps(s, rest) ==
    /\ Deliver(copySend[s])
    /\ UNCHANGED <<buffer, failures>>

\* CollectData returns nil: the buffer is replaced by one holding rest
Sent(s, rest) ==
    /\ Deliver(copySend[s])
    /\ buffer' = rest
    /\ UNCHANGED failures

\* Mutant: the buffer is reset before the error is looked at
SendFailedDrops(s) ==
    /\ failures < MaxFailures
    /\ failures' = failures + 1
    /\ UNCHANGED delivered
    /\ buffer' = <<>>

\* CollectData returns an error: the buffer is kept
SendFailed(s) ==
    /\ failures < MaxFailures
    /\ failures' = failures + 1
    /\ Deliver(copySend[s]) \/ UNCHANGED delivered
    /\ UNCHANGED buffer

EndSend(s) ==
    /\ mutex = s
    /\ mutex' = NoOne
    /\ copySend' = [copySend EXCEPT ![s] = <<>>]

-----------------------------------------------------------------------------
(* AddEvent and its callers *)

AddEvent(e) ==
    /\ ap[e] = "new" /\ mutex = NoOne
    /\ \/ /\ Len(buffer) >= Max
          /\ BeginSend(e)
          /\ ap' = [ap EXCEPT ![e] = "sending"]
       \/ /\ Len(buffer) < Max
          /\ buffer' = Append(buffer, e)
          /\ ap' = [ap EXCEPT ![e] = "accepted"]
          /\ UNCHANGED <<mutex, copySend, delivered, failures>>
    /\ UNCHANGED <<tickVars, goVars, stopVars, startVars>>

Skip(e) ==
    /\ ap[e] = "new"
    /\ ap' = [ap EXCEPT ![e] = "skipped"]
    /\ UNCHANGED <<sendVars, tickVars, goVars, stopVars, startVars>>

\* The flush of a full buffer ends: the new event is added unless it failed
AddEventFlushed(e) ==
    /\ ap[e] = "sending"
    /\ EndSend(e)
    /\ \/ Sent(e, <<e>>) /\ ap' = [ap EXCEPT ![e] = "accepted"]
       \/ SendFailed(e) /\ ap' = [ap EXCEPT ![e] = "rejected"]
    /\ UNCHANGED <<tickVars, goVars, stopVars, startVars>>

Track(e) == IF disabled THEN Skip(e) ELSE AddEvent(e)

\* The hook exists when the collector does.  After a remote evaluation there is
\* an event only when it was answered from the cache, since the relay already
\* counted every other one
After(e) == ~disabled /\ (AddEvent(e) \/ (Remote /\ Skip(e)))

Error(e) == ~disabled /\ AddEvent(e)

-----------------------------------------------------------------------------
(* Start and the ticker goroutine *)

\* InitWithContext calls it unless the collector is disabled
Start ==
    /\ ~disabled /\ starts < MaxStarts
    /\ starts' = starts + 1
    /\ cp' = [cp EXCEPT ![starts + 1] = "begin"]
    /\ ticking' = [ticking EXCEPT ![starts + 1] = TRUE]
    /\ overlapped' = (overlapped \/ sp # "no" \/ \E c \in Collectors : Running(c))
    /\ UNCHANGED <<ap, sendVars, tick, closes, closed, panicked, stopVars, disabled>>

\* The defer reads d.goroutineDone only now
CollectorBegins(c) ==
    /\ cp[c] = "begin"
    /\ closes' = [closes EXCEPT ![c] = starts]
    /\ cp' = [cp EXCEPT ![c] = "select"]
    /\ UNCHANGED <<ap, sendVars, tickVars, closed, panicked, stopVars, startVars>>

TickerFires(c) ==
    /\ ticking[c] /\ ~tick[c]
    /\ tick' = [tick EXCEPT ![c] = TRUE]
    /\ UNCHANGED <<ap, sendVars, ticking, goVars, stopVars, startVars>>

\* The select of the goroutine: a tick ...
CollectorTicks(c) ==
    /\ cp[c] = "select" /\ tick[c]
    /\ tick' = [tick EXCEPT ![c] = FALSE]
    /\ cp' = [cp EXCEPT ![c] = "lock"]
    /\ UNCHANGED <<ap, sendVars, ticking, closes, closed, panicked, stopVars, startVars>>

\* ... or the value that ends it, and closes the channel its defer read
CollectorEnds(c) ==
    /\ cp[c] = "select" /\ token
    /\ token' = FALSE
    /\ cp' = [cp EXCEPT ![c] = "done"]
    /\ closed' = closed \cup {closes[c]}
    /\ panicked' = (panicked \/ closes[c] \in closed)
    /\ UNCHANGED <<ap, sendVars, tickVars, closes, sp, waits, idleStops, startVars>>

\* SendData
CollectorSends(c) ==
    /\ cp[c] = "lock" /\ mutex = NoOne
    /\ \/ buffer = <<>> /\ cp' = [cp EXCEPT ![c] = "select"] /\ UNCHANGED sendVars
       \/ buffer # <<>> /\ cp' = [cp EXCEPT ![c] = "sending"] /\ BeginSend(c)
    /\ UNCHANGED <<ap, tickVars, closes, closed, panicked, stopVars, startVars>>

\* Mutant: the goroutine ends on the first error
CollectorSentOrEnds(c) ==
    /\ cp[c] = "sending"
    /\ EndSend(c)
    /\ \/ Sent(c, <<>>) /\ cp' = [cp EXCEPT ![c] = "select"]
       \/ SendFailed(c) /\ cp' = [cp EXCEPT ![c] = "done"]
    /\ UNCHANGED <<ap, tickVars, closes, closed, panicked, stopVars, startVars>>

CollectorSent(c) ==
    /\ cp[c] = "sending"
    /\ EndSend(c)
    /\ Sent(c, <<>>) \/ SendFailed(c)
    /\ cp' = [cp EXCEPT ![c] = "select"]
    /\ UNCHANGED <<ap, tickVars, closes, closed, panicked, stopVars, startVars>>

-----------------------------------------------------------------------------
(* Stop *)

\* Mutant: the goroutine is not told
StopSilently ==
    /\ ~disabled /\ sp = "no"
    /\ sp' = "ticker"
    /\ UNCHANGED <<ap, sendVars, tickVars, goVars, token, waits, idleStops, startVars>>

\* Stop: a value for the goroutine, unless one is there already ...
Stop ==
    /\ ~disabled /\ sp = "no"
    /\ IF starts \in Collectors /\ starts \notin closed
       THEN UNCHANGED idleStops
       ELSE idleStops < MaxIdleStops /\ idleStops' = idleStops + 1
    /\ token' = TRUE
    /\ sp' = "ticker"
    /\ UNCHANGED <<ap, sendVars, tickVars, goVars, waits, startVars>>

\* ... the ticker of the latest Start stopped ...
StopTicker ==
    /\ sp = "ticker"
    /\ ticking' = [c \in Collectors |-> ticking[c] /\ c # starts]
    /\ sp' = "look"
    /\ UNCHANGED <<ap, sendVars, tick, goVars, token, waits, idleStops, startVars>>

\* ... the latest goroutineDone read, if there is one ...
StopLooks ==
    /\ sp = "look"
    /\ IF starts = 0 THEN sp' = "lock" /\ UNCHANGED waits
       ELSE sp' = "wait" /\ waits' = starts
    /\ UNCHANGED <<ap, sendVars, tickVars, goVars, token, idleStops, startVars>>

\* Mutant: Stop does not wait for the goroutine
StopWaitsNot ==
    /\ sp = "wait"
    /\ sp' = "lock"
    /\ UNCHANGED <<ap, sendVars, tickVars, goVars, token, waits, idleStops, startVars>>

\* ... and awaited ...
StopWaits ==
    /\ sp = "wait" /\ waits \in closed
    /\ sp' = "lock"
    /\ UNCHANGED <<ap, sendVars, tickVars, goVars, token, waits, idleStops, startVars>>

\* Mutant: Stop returns without a last flush
StopSendsNot ==
    /\ sp = "lock" /\ mutex = NoOne
    /\ sp' = "no"
    /\ UNCHANGED <<ap, sendVars, tickVars, goVars, token, waits, idleStops, startVars>>

\* ... and a last SendData, whose error is ignored
StopSends ==
    /\ sp = "lock" /\ mutex = NoOne
    /\ \/ buffer = <<>> /\ sp' = "no" /\ UNCHANGED sendVars
       \/ buffer # <<>> /\ sp' = "sending" /\ BeginSend(Stopper)
    /\ UNCHANGED <<ap, tickVars, goVars, token, waits, idleStops, startVars>>

StopSent ==
    /\ sp = "sending"
    /\ EndSend(Stopper)
    /\ Sent(Stopper, <<>>) \/ SendFailed(Stopper)
    /\ sp' = "no"
    /\ UNCHANGED <<ap, tickVars, goVars, token, waits, idleStops, startVars>>

-----------------------------------------------------------------------------

\* NewDataCollectorManager, unless DataCollectorDisabled
Init ==
    /\ disabled \in BOOLEAN
    /\ buffer = <<>> /\ mutex = NoOne
    /\ copySend = [s \in Senders |-> <<>>]
    /\ ap = [e \in Events |-> "new"]
    /\ cp = [c \in Collectors |-> "off"] /\ closes = [c \in Collectors |-> 0]
    /\ closed = {} /\ panicked = FALSE
    /\ ticking = [c \in Collectors |-> FALSE] /\ tick = [c \in Collectors |-> FALSE]
    /\ token = FALSE /\ sp = "no" /\ waits = 0 /\ idleStops = 0
    /\ starts = 0 /\ overlapped = FALSE
    /\ delivered = [e \in Events |-> 0] /\ failures = 0

Collector(c) == CollectorBegins(c) \/ CollectorTicks(c) \/ CollectorEnds(c)
                \/ CollectorSends(c) \/ CollectorSent(c)
Stopping  == StopTicker \/ StopLooks \/ StopWaits \/ StopSends \/ StopSent
Adding(e) == Track(e) \/ After(e) \/ Error(e) \/ AddEventFlushed(e)

Next ==
    /\ ~panicked
    /\ \/ \E e \in Events : Adding(e)
       \/ Start \/ Stop \/ Stopping
       \/ \E c \in Collectors : TickerFires(c) \/ Collector(c)

Spec == Init /\ [][Next]_vars

\* Goroutines that can run do, the tickers tick, and a request ends: the relay
\* answers or the HTTP client gives up.  A mutex that is free again and again
\* is eventually granted.
FairSpec ==
    /\ Spec
    /\ \A c \in Collectors :
          /\ WF_vars(~panicked /\ TickerFires(c))
          /\ WF_vars(~panicked /\ (CollectorBegins(c) \/ CollectorTicks(c) \/ CollectorEnds(c)))
          /\ SF_vars(~panicked /\ CollectorSends(c))
          /\ WF_vars(~panicked /\ CollectorSent(c))
    /\ WF_vars(~panicked /\ (StopTicker \/ StopLooks \/ StopWaits \/ StopSent))
    /\ SF_vars(~panicked /\ StopSends)
    /\ \A e \in Events : WF_vars(~panicked /\ AddEventFlushed(e))

-----------------------------------------------------------------------------
(* Properties *)

\* Every variable keeps the shape of the Go value it stands for.
TypeOK ==
    /\ buffer \in Seq(Events)
    /\ mutex \in Senders \cup {NoOne}
    /\ copySend \in [Senders -> Seq(Events)]
    /\ ap \in [Events -> {"new", "sending", "accepted", "rejected", "skipped"}]
    /\ cp \in [Collectors -> {"off", "begin", "select", "lock", "sending", "done"}]
    /\ closes \in [Collectors -> 0 .. MaxStarts] /\ closed \subseteq 0 .. MaxStarts
    /\ ticking \in [Collectors -> BOOLEAN] /\ tick \in [Collectors -> BOOLEAN]
    /\ token \in BOOLEAN /\ overlapped \in BOOLEAN /\ panicked \in BOOLEAN
    /\ disabled \in BOOLEAN
    /\ sp \in {"no", "ticker", "look", "wait", "lock", "sending"}
    /\ starts \in 0 .. MaxStarts /\ waits \in 0 .. MaxStarts /\ idleStops \in Nat
    /\ delivered \in [Events -> Nat] /\ failures \in Nat

\* The buffer never holds more than dataCollectorMaxEventStored events, however
\* adders, ticks, failed flushes and Stop interleave.
Bounded == Len(buffer) <= Max

\* No event that AddEvent accepted is lost, and none that it refused is sent:
\* an accepted event is in the buffer or was received by the relay, also when
\* it was added around a flush that runs or failed.
NothingLost ==
    \A e \in Events :
        /\ ap[e] = "accepted" => InBatch(e, buffer) \/ delivered[e] > 0
        /\ ap[e] # "accepted" => ~InBatch(e, buffer) /\ delivered[e] = 0

\* The relay receives an event more than once only if a request failed in
\* between: two flushes never send the same batch.
DuplicatesOnlyByFailure == \A e \in Events : delivered[e] <= failures + 1

\* A Stop that has waited leaves no goroutine of the collector behind, and what
\* it flushes last is flushed alone.  The exception is a Start that found an
\* earlier goroutine or a Stop at work (an Init after a failed one, or a second
\* registration): the goroutines compete for the one value, and a goroutine
\* whose ticker nobody stops goes on sending after Stop.
StopIsLast ==
    sp \in {"lock", "sending"} /\ ~overlapped =>
        /\ \A c \in Collectors : ~Running(c)
        /\ sp = "sending" => mutex = Stopper

-----------------------------------------------------------------------------
(* None of Bounded, NothingLost and DuplicatesOnlyByFailure is inductive: what *)
(* a request delivers is its copy, taken earlier.  The mutex keeps the copy    *)
(* equal to the buffer until the request ends.                                 *)

\* Who holds the mutex is sending, and what it sends is still the buffer
SendingInv ==
    /\ \A e \in Events : ap[e] = "sending" <=> mutex = e
    /\ \A c \in Collectors : cp[c] = "sending" <=> mutex = c
    /\ sp = "sending" <=> mutex = Stopper
    /\ mutex \in Senders => copySend[mutex] = buffer

\* What is still buffered was delivered by failed requests only
RetryInv == \A e \in Events : InBatch(e, buffer) => delivered[e] <= failures

\* The goroutines are those of the calls of Start, and unless calls overlapped
\* only the latest may run, closes its own channel and is the one Stop awaits
StopInv ==
    /\ \A c \in Collectors : cp[c] = "off" <=> c > starts
    /\ ~overlapped =>
          /\ \A c \in Collectors :
                /\ Running(c) => c = starts
                /\ cp[c] \in {"select", "lock", "sending"} => closes[c] = c
                /\ c \in closed => cp[c] = "done"
          /\ sp = "wait" => waits = starts
          /\ sp \in {"lock", "sending"} => \A c \in Collectors : ~Running(c)

\* The inductive strengthening of Bounded, NothingLost, DuplicatesOnlyByFailure
\* and StopIsLast over AddEvent, the ticker goroutine and Stop.
CollectInv ==
    /\ SendingInv /\ RetryInv /\ StopInv
    /\ Bounded /\ NothingLost /\ DuplicatesOnlyByFailure

-----------------------------------------------------------------------------
(* What Stop and the ticker promise *)

\* Stop returns, whatever the goroutine and the adders are doing when it is
\* called, unless calls of Start overlapped: then the goroutine it waits for may
\* not be the one that takes its value, or the process may panic.
StopCompletes == sp # "no" ~> sp = "no" \/ overlapped

\* While a ticker runs, what is buffered is attempted to be sent (the README's
\* "periodically or when the buffer is full"), whatever fails and however the
\* mutex is contended, unless Stop was once called without a goroutine to stop:
\* the value such a Stop leaves in collectChannel ends the next goroutine.  When
\* calls of Start overlapped, the ticker must be that of a goroutine that no
\* Stop ended.
FlushedPeriodically ==
    (/\ buffer # <<>> /\ idleStops = 0
     /\ \E c \in Collectors : ticking[c] /\ (overlapped => Running(c)))
        ~> (mutex # NoOne \/ sp # "no" \/ buffer = <<>> \/ panicked)

\* When Stop returns nothing is buffered, also not what was added while it
\* waited, unless its one request failed: that is where the README's "flushed
\* on shutdown so no buffered events are lost" ends.
FlushedOnStop == [][sp # "no" /\ sp' = "no" => buffer' = <<>> \/ failures' > failures]_vars
=============================================================================
