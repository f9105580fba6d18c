------------------------ MODULE FlagdProviderProofs ------------------------
(***************************************************************************)
(* Proofs about FlagdInProcess and FlagdProvider for every set of flags,   *)
(* every channel capacity and every bound.                                 *)
(*                                                                         *)
(* The service is proved on its own (Spec).  A provider runs the service:  *)
(* ProviderSpec implements Spec, so what holds of the service holds inside *)
(* the provider, and the provider's own invariants build on it.            *)
(***************************************************************************)
EXTENDS FlagdProvider, TLAPS

-----------------------------------------------------------------------------
(* The parts of the inductive invariant of the service *)

\* The channel of sync events is closed, and a send on it panics, only after
\* the context was cancelled
ClosedInShutdown ==
    syncClosed \/ panicked \/ lp \in {"closing", "finished"} => cancelled

Processing == {"ready", "sendReady", "compare", "sendChange"}

\* Whatever speaks of an applied configuration has one, and what reached the
\* listener was sent by Sync, which is ready or about to say so
DataWasReceived ==
    /\ data # NoData \/ lp = "bad" \/ applied => syncReady \/ sy = "mark"
    /\ lp \in Processing \/ ready \/ initSuccess => applied
    /\ init = "nil" => initSuccess
    /\ \A i \in DOMAIN events : events[i].type \in {"ready", "change"} => applied
    /\ last \in {"ready", "change"} => applied

\* Sync gave up only before the first configuration or in a shutdown
GivesUpEarly == sy = "returned" /\ ~cancelled => ~syncReady

Announced == last # "none" \/ \E i \in DOMAIN events : events[i].type = "ready"

\* READY is in the channel before initSuccess is closed
AnnouncedFirst ==
    (ready /\ lp # "sendReady") \/ lp \in {"compare", "sendChange"} \/ initSuccess
      => Announced

Named(k) == \E i \in DOMAIN events : k \in events[i].keys

\* A flag the reader has not refreshed is named by an event, in the channel or
\* still to be sent
ViewCatchesUp ==
    \A k \in Flags : \/ view[k] = store[k]
                     \/ Named(k)
                     \/ lp \in Processing /\ old[k] # store[k]

\* What the source serves is the last configuration on the way to the store
LatestOnItsWay ==
    stream = "open" =>
      IF inbox # <<>> THEN inbox[Len(inbox)] = remote
      ELSE IF data # NoData THEN data[1] = remote
      ELSE store = remote \/ remote \in Malformed

\* The last event emitted, taken or not
Newest == IF events = <<>> THEN last ELSE events[Len(events)].type

\* A service that is STALE has its timer, or the event monitor is about to
\* start it, or the listener is about to say something newer
StaleGuarded ==
    ~cancelled /\ ~ready /\ Newest = "stale" /\ mp \notin {"stale", "start"}
      /\ lp \notin {"ready", "bad"}
    => timer # "nil"

\* Nothing runs before Init
OffBeforeInit == init = "no" => sy = "off" /\ lp = "off" /\ mp = "off"

ServiceInv ==
    /\ TypeOK /\ OffBeforeInit
    /\ ClosedInShutdown /\ DataWasReceived /\ GivesUpEarly
    /\ AnnouncedFirst /\ ViewCatchesUp /\ LatestOnItsWay /\ StaleGuarded

\* The provider: handleEvents runs only after Init succeeded, and what it is
\* about to set is the status of the event it took
ProviderInv ==
    /\ ServiceInv /\ ReadyHasData /\ FailedStaysFailed /\ StatusFollowsEvents
    /\ pi \in {"no", "wait"} => hp = "off" /\ status = "notReady"
    /\ hp \in {"off", "wait", "emit", "set"}
    /\ hp = "set" => last \in {"ready", "change", "error"}

-----------------------------------------------------------------------------
(* Type correctness of the service *)

\* The tuples that group the variables, to be expanded by every step
USE DEF vars, sourceVars, streamVars, syncVars, monitorVars, listenVars,
        staleVars, initVars, readerVars

\* The empty configuration is one
LEMMA EmptyType == Empty \in Config
BY BoundsAssumption DEF Empty, Config

\* What is sent on the events channel are events, also when it is read again
LEMMA EventTypes ==
    /\ \A t \in {"ready", "stale", "error"} : Plain(t) \in EventRecord
    /\ \A K \in SUBSET Flags : [type |-> "change", keys |-> K] \in EventRecord
BY DEF Plain, EventRecord

\* computeChangedFlags names flags: exactly those that differ
LEMMA ChangedFlags ==
    ASSUME NEW o \in Config, NEW n \in Config
    PROVE  computeChangedFlags(o, n) = {k \in Flags : o[k] # n[k]}
BY DEF computeChangedFlags, Config

\* NewInProcessService starts well typed
LEMMA InitType == Init => TypeOK
<1> SUFFICES ASSUME Init PROVE TypeOK
  OBVIOUS
<1>1. /\ applied \in BOOLEAN /\ syncReady \in BOOLEAN /\ flap \in BOOLEAN /\ syncClosed \in BOOLEAN
      /\ panicked \in BOOLEAN /\ ready \in BOOLEAN /\ initSuccess \in BOOLEAN
      /\ initError \in BOOLEAN /\ cancelled \in BOOLEAN
  BY DEF Init
<1>2. QED
  BY <1>1, EmptyType, BoundsAssumption DEF Init, TypeOK, NoData

\* A send keeps the channel typed and within its capacity
LEMMA SendType ==
    ASSUME TypeOK, NEW e \in EventRecord, Send(e)
    PROVE  events' \in Seq(EventRecord) /\ Len(events') <= EventCap
BY BoundsAssumption DEF TypeOK, Send

\* What is left of the inbox is a sequence of configurations
LEMMA TruncateType ==
    ASSUME TypeOK, Truncate
    PROVE  inbox' \in Seq(Payload)
BY DEF TypeOK, Truncate

\* The environment keeps the types
LEMMA EnvironmentType ==
    ASSUME TypeOK, Environment
    PROVE  TypeOK'
<1>1. CASE SourceChange
  BY <1>1, BoundsAssumption DEF SourceChange, TypeOK
<1>2. CASE ConnDown
  BY <1>2, TruncateType, BoundsAssumption DEF ConnDown, TypeOK
<1>3. CASE ConnUp
  BY <1>3 DEF ConnUp, TypeOK
<1>4. CASE StreamFails
  BY <1>4, TruncateType, BoundsAssumption DEF StreamFails, TypeOK
<1>5. QED
  BY <1>1, <1>2, <1>3, <1>4 DEF Environment

\* So do Init, Shutdown and the reader
LEMMA CallerType ==
    ASSUME TypeOK,
           InitFails \/ InitStarts \/ InitReturn \/ Shutdown \/ ShutdownReturns \/ TakeEvent
    PROVE  TypeOK'
<1>1. CASE InitFails
  BY <1>1 DEF InitFails, TypeOK
<1>2. CASE InitStarts
  BY <1>2 DEF InitStarts, TypeOK
<1>3. CASE InitReturn
  <2>1. initError' \in BOOLEAN
    BY <1>3, Zenon DEF InitReturn, TypeOK
  <2>2. init' \in {"no", "waiting", "nil", "err"}
    BY <1>3 DEF InitReturn
  <2>3. QED
    BY <1>3, <2>1, <2>2 DEF InitReturn, TypeOK
<1>4. CASE Shutdown
  BY <1>4 DEF Shutdown, StopTimer, TypeOK
<1>5. CASE ShutdownReturns
  BY <1>5 DEF ShutdownReturns, TypeOK
<1>6. CASE TakeEvent
  <2>1. /\ Head(events) \in EventRecord
        /\ events' \in Seq(EventRecord) /\ Len(events') <= EventCap
    BY <1>6, BoundsAssumption DEF TakeEvent, Took, TypeOK
  <2>2. last' \in {"none", "ready", "stale", "error", "change"}
    BY <1>6, <2>1 DEF TakeEvent, Took, EventRecord
  <2>3. view' \in Config
    BY <1>6 DEF TakeEvent, Took, TypeOK, Config
  <2>4. QED
    BY <1>6, <2>1, <2>2, <2>3 DEF TakeEvent, TypeOK
<1>7. QED
  BY <1>1, <1>2, <1>3, <1>4, <1>5, <1>6

\* So do Sync and the connection monitor
LEMMA SyncType ==
    ASSUME TypeOK, SyncGoroutine \/ MonitorSees \/ MonitorReports
    PROVE  TypeOK'
<1>1. ASSUME SyncSendEvent PROVE syncEvents' \in 0..SyncEventCap /\ panicked' \in BOOLEAN
  <2>1. syncEvents' \in 0..SyncEventCap
    BY <1>1, BoundsAssumption DEF SyncSendEvent, TypeOK
  <2>2. panicked' \in BOOLEAN
    BY <1>1, Zenon DEF SyncSendEvent, TypeOK
  <2>3. QED
    BY <2>1, <2>2
<1>2. CASE SyncOpen
  BY <1>2 DEF SyncOpen, TypeOK
<1>3. CASE SyncReceive
  BY <1>3 DEF SyncReceive, NoData, TypeOK
<1>9. CASE SyncMarksReady
  BY <1>9 DEF SyncMarksReady, TypeOK
<1>4. CASE SyncFailed
  <2>1. sy' \in {"cycle", "returned"}
    BY <1>4 DEF SyncFailed
  <2>2. /\ syncEvents' \in 0..SyncEventCap /\ panicked' \in BOOLEAN
        /\ initError' \in BOOLEAN
    BY <1>1, <1>4, Zenon DEF SyncFailed, TypeOK
  <2>3. QED
    BY <1>4, <2>1, <2>2 DEF SyncFailed, TypeOK
<1>5. CASE SyncCancelled
  BY <1>5 DEF SyncCancelled, TypeOK
<1>6. CASE MonitorSees
  <2>1. flap' \in BOOLEAN
    BY <1>6, Zenon DEF MonitorSees
  <2>2. cm' \in {"off", "watch", "failure", "done"}
    BY <1>6 DEF MonitorSees
  <2>3. QED
    BY <1>6, <2>1, <2>2 DEF MonitorSees, TypeOK
<1>7. CASE MonitorReports
  BY <1>1, <1>7 DEF MonitorReports, TypeOK
<1>8. QED
  BY <1>2, <1>3, <1>4, <1>5, <1>6, <1>7, <1>9 DEF SyncGoroutine

\* So do the event sync monitor and the stale timer
LEMMA StaleType ==
    ASSUME TypeOK, EventMonitor \/ StaleTimer
    PROVE  TypeOK'
<1>1. CASE HandleSyncError
  <2>1. ready' \in BOOLEAN
    BY <1>1, Zenon DEF HandleSyncError
  <2>2. QED
    BY <1>1, <2>1, BoundsAssumption DEF HandleSyncError, TypeOK
<1>2. CASE SendStale
  BY <1>2, SendType, EventTypes DEF SendStale, TypeOK
<1>3. CASE TimerStart
  BY <1>3 DEF TimerStart, TypeOK
<1>4. CASE EventMonitorLeaves
  BY <1>4 DEF EventMonitorLeaves, TypeOK
<1>5. CASE TimerFires
  BY <1>5, BoundsAssumption DEF TimerFires, TypeOK
<1>6. CASE TimerCallback
  BY <1>6, SendType, EventTypes, BoundsAssumption DEF TimerCallback, TypeOK
<1>7. QED
  BY <1>1, <1>2, <1>3, <1>4, <1>5, <1>6 DEF EventMonitor, StaleTimer

\* So does the listener: what it stores is a configuration that parses
LEMMA ListenerType ==
    ASSUME TypeOK, Listener
    PROVE  TypeOK'
<1>1. CASE ApplyBad
  <2>1. ready' \in BOOLEAN
    BY <1>1, Zenon DEF ApplyBad
  <2>2. QED
    BY <1>1, <2>1 DEF ApplyBad, NoData, TypeOK
<1>2. CASE SendBad
  BY <1>2, SendType, EventTypes DEF SendBad, TypeOK
<1>3. CASE Apply
  <2>1. data[1] \in Config
    BY <1>3 DEF Apply, TypeOK, Payload, NoData
  <2>2. QED
    BY <1>3, <2>1 DEF Apply, StopTimer, NoData, TypeOK
<1>4. CASE SetReady
  BY <1>4 DEF SetReady, TypeOK
<1>5. CASE SendReady
  BY <1>5, SendType, EventTypes DEF SendReady, TypeOK
<1>6. CASE Compare
  BY <1>6, EmptyType DEF Compare, TypeOK
<1>7. CASE SendChange
  <2>1. computeChangedFlags(old, store) \in SUBSET Flags
    BY DEF computeChangedFlags
  <2>2. QED
    BY <1>7, <2>1, SendType, EventTypes, EmptyType DEF SendChange, TypeOK
<1>8. CASE ListenerLeaves
  BY <1>8 DEF ListenerLeaves, TypeOK
<1>9. CASE ListenerCloses
  BY <1>9 DEF ListenerCloses, TypeOK
<1>10. QED
  BY <1>1, <1>2, <1>3, <1>4, <1>5, <1>6, <1>7, <1>8, <1>9 DEF Listener

\* Every step keeps the types
LEMMA NextType == ASSUME TypeOK, [Next]_vars PROVE TypeOK'
<1>1. CASE Next
  BY <1>1, EnvironmentType, CallerType, SyncType, StaleType, ListenerType
     DEF Next, NextInGrace, Service
<1>2. CASE UNCHANGED vars
  BY <1>2 DEF TypeOK
<1>3. QED
  BY <1>1, <1>2

-----------------------------------------------------------------------------
(* Shutdown: who may close and who may panic *)

\* Nothing closes the channel of sync events outside a shutdown
LEMMA ClosedStep ==
    ASSUME TypeOK, ClosedInShutdown, OffBeforeInit, Next
    PROVE  ClosedInShutdown' /\ OffBeforeInit'
<1> USE DEF ClosedInShutdown, OffBeforeInit
<1>1. CASE Environment
  BY <1>1 DEF Environment, SourceChange, ConnDown, ConnUp, StreamFails
<1>2. CASE InitFails \/ InitStarts \/ InitReturn
  BY <1>2 DEF InitFails, InitStarts, InitReturn
<1>3. CASE Shutdown
  BY <1>3 DEF Shutdown
<1>4. CASE ShutdownReturns \/ TakeEvent
  BY <1>4 DEF ShutdownReturns, TakeEvent
<1>5. CASE SyncOpen \/ SyncReceive \/ SyncMarksReady \/ SyncCancelled \/ MonitorSees
  BY <1>5 DEF SyncOpen, SyncReceive, SyncMarksReady, SyncCancelled, MonitorSees
<1>6. CASE SyncFailed
  BY <1>6 DEF SyncFailed, CycleErrors, SyncSendEvent
<1>7. CASE MonitorReports
  BY <1>7 DEF MonitorReports, SyncSendEvent
<1>8. CASE EventMonitor
  BY <1>8 DEF EventMonitor, HandleSyncError, SendStale, TimerStart, EventMonitorLeaves
<1>9. CASE StaleTimer
  BY <1>9 DEF StaleTimer, TimerFires, TimerCallback
<1>10. CASE ApplyBad \/ SendBad \/ Apply \/ SetReady \/ SendReady
  BY <1>10 DEF ApplyBad, SendBad, Apply, SetReady, SendReady
<1>11. CASE Compare \/ SendChange
  BY <1>11 DEF Compare, SendChange
<1>12. CASE ListenerLeaves \/ ListenerCloses
  BY <1>12 DEF ListenerLeaves, ListenerCloses
<1>13. QED
  BY <1>1, <1>2, <1>3, <1>4, <1>5, <1>6, <1>7, <1>8, <1>9, <1>10, <1>11, <1>12
     DEF Next, NextInGrace, Service, SyncGoroutine, Listener

-----------------------------------------------------------------------------
(* The first configuration *)

\* What a send appends is the last event, and the others stay where they are
LEMMA SendFacts ==
    ASSUME TypeOK, NEW e \in EventRecord, Send(e)
    PROVE  /\ Len(events') = Len(events) + 1
           /\ events' # <<>>
           /\ events'[Len(events')] = e
           /\ \A i \in DOMAIN events : i \in DOMAIN events' /\ events'[i] = events[i]
           /\ \A i \in DOMAIN events' : i \in DOMAIN events \/ i = Len(events')
BY DEF TypeOK, Send

\* The tail of a sequence: its elements move up by one, the last stays the last
LEMMA TailFacts ==
    ASSUME NEW S, NEW s \in Seq(S), s # <<>>
    PROVE  /\ 1 \in DOMAIN s /\ Head(s) = s[1]
           /\ \A i \in DOMAIN Tail(s) : i + 1 \in DOMAIN s /\ Tail(s)[i] = s[i + 1]
           /\ \A i \in DOMAIN s : i # 1 => i - 1 \in DOMAIN Tail(s) /\ Tail(s)[i - 1] = s[i]
           /\ Tail(s) = <<>> => Len(s) = 1
           /\ Tail(s) # <<>> => Tail(s)[Len(Tail(s))] = s[Len(s)]
<1>1. /\ Len(s) \in Nat /\ Len(s) > 0 /\ Head(s) = s[1]
      /\ DOMAIN s = 1..Len(s)
  OBVIOUS
<1>2. /\ Tail(s) \in Seq(S)
      /\ Len(Tail(s)) = Len(s) - 1
      /\ DOMAIN Tail(s) = 1..(Len(s) - 1)
      /\ \A i \in 1..(Len(s) - 1) : Tail(s)[i] = s[i + 1]
  OBVIOUS
<1>3. ASSUME Tail(s) = <<>> PROVE Len(s) = 1
  <2>1. Len(<<>>) = 0
    OBVIOUS
  <2>2. Len(Tail(s)) = 0
    BY <1>3, <2>1, Zenon
  <2>3. Len(s) - 1 = 0
    BY <1>2, <2>2, Zenon
  <2>4. \A n \in Nat : n - 1 = 0 => n = 1
    OBVIOUS
  <2>5. QED
    BY <1>1, <2>3, <2>4, Zenon
<1>4. ASSUME Tail(s) # <<>>
      PROVE  Tail(s)[Len(Tail(s))] = s[Len(s)]
  <2>1. Len(s) - 1 \in 1..(Len(s) - 1)
    BY <1>1, <1>2, <1>4
  <2>2. QED
    BY <1>1, <1>2, <2>1
<1>5. QED
  BY <1>1, <1>2, <1>3, <1>4

\* What is left in the channel was in it, and the last one stays the last one
LEMMA TookFacts ==
    ASSUME TypeOK, Took
    PROVE  /\ 1 \in DOMAIN events /\ Head(events) = events[1]
           /\ last' = events[1].type
           /\ \A i \in DOMAIN events' : i + 1 \in DOMAIN events /\ events'[i] = events[i + 1]
           /\ \A i \in DOMAIN events : i # 1 => i - 1 \in DOMAIN events' /\ events'[i - 1] = events[i]
           /\ events' = <<>> => Len(events) = 1
           /\ events' # <<>> => events'[Len(events')] = events[Len(events)]
<1>1. /\ events \in Seq(EventRecord) /\ events # <<>>
      /\ events' = Tail(events) /\ last' = Head(events).type
  BY DEF TypeOK, Took
<1>2. QED
  BY <1>1, TailFacts

\* Events, flags and program counters that presuppose a configuration come
\* after the first one that the listener applied, and that one from Sync
LEMMA ReceivedStep ==
    ASSUME TypeOK, DataWasReceived, OffBeforeInit, Next
    PROVE  DataWasReceived'
<1> USE DEF DataWasReceived, OffBeforeInit, Processing
<1>1. CASE Environment
  BY <1>1 DEF Environment, SourceChange, ConnDown, ConnUp, StreamFails
<1>2. CASE InitFails \/ InitStarts \/ InitReturn
  BY <1>2 DEF InitFails, InitStarts, InitReturn
<1>3. CASE Shutdown \/ ShutdownReturns
  BY <1>3 DEF Shutdown, ShutdownReturns
<1>4. CASE TakeEvent
  BY <1>4, TookFacts DEF TakeEvent
<1>5. CASE SyncOpen \/ SyncReceive \/ SyncMarksReady \/ SyncCancelled \/ MonitorSees
  BY <1>5 DEF SyncOpen, SyncReceive, SyncMarksReady, SyncCancelled, MonitorSees
<1>6. CASE SyncFailed \/ MonitorReports
  BY <1>6 DEF SyncFailed, CycleErrors, MonitorReports
<1>7. CASE HandleSyncError \/ TimerStart \/ EventMonitorLeaves \/ TimerFires
  BY <1>7 DEF HandleSyncError, TimerStart, EventMonitorLeaves, TimerFires
<1>8. ASSUME NEW e \in EventRecord, Send(e), e.type \in {"ready", "change"} => applied,
             applied' = applied
      PROVE  \A i \in DOMAIN events' : events'[i].type \in {"ready", "change"} => applied'
  BY <1>8, SendFacts
<1>9. Plain("stale").type = "stale" /\ Plain("error").type = "error"
  BY DEF Plain
<1>10. CASE SendStale \/ TimerCallback \/ SendBad
  BY <1>8, <1>9, <1>10, EventTypes DEF SendStale, TimerCallback, SendBad
<1>11. CASE ApplyBad \/ Apply \/ SetReady \/ Compare
  BY <1>11 DEF ApplyBad, Apply, SetReady, Compare, NoData
<1>12. CASE SendReady
  BY <1>8, <1>12, EventTypes DEF SendReady
<1>13. CASE SendChange
  <2>1. computeChangedFlags(old, store) \in SUBSET Flags
    BY DEF computeChangedFlags
  <2>2. QED
    BY <1>8, <1>13, <2>1, EventTypes DEF SendChange
<1>14. CASE ListenerLeaves \/ ListenerCloses
  BY <1>14 DEF ListenerLeaves, ListenerCloses
<1>15. QED
  BY <1>1, <1>2, <1>3, <1>4, <1>5, <1>6, <1>7, <1>10, <1>11, <1>12, <1>13, <1>14
     DEF Next, NextInGrace, Service, SyncGoroutine, EventMonitor, StaleTimer, Listener

\* After the first configuration Sync retries until it is cancelled
LEMMA GivesUpStep ==
    ASSUME TypeOK, GivesUpEarly, OffBeforeInit, Next
    PROVE  GivesUpEarly'
<1> USE DEF GivesUpEarly
<1>1. CASE Environment
  BY <1>1 DEF Environment, SourceChange, ConnDown, ConnUp, StreamFails
<1>2. CASE InitFails \/ InitStarts \/ InitReturn
  BY <1>2 DEF InitFails, InitStarts, InitReturn
<1>3. CASE Shutdown \/ ShutdownReturns \/ TakeEvent
  BY <1>3 DEF Shutdown, ShutdownReturns, TakeEvent
<1>4. CASE SyncOpen \/ SyncReceive \/ SyncMarksReady \/ SyncCancelled
  BY <1>4 DEF SyncOpen, SyncReceive, SyncMarksReady, SyncCancelled
<1>5. CASE SyncFailed
  BY <1>5 DEF SyncFailed
<1>6. CASE MonitorSees \/ MonitorReports
  BY <1>6 DEF MonitorSees, MonitorReports
<1>7. CASE EventMonitor \/ StaleTimer
  BY <1>7 DEF EventMonitor, HandleSyncError, SendStale, TimerStart, EventMonitorLeaves,
              StaleTimer, TimerFires, TimerCallback
<1>8. CASE Listener
  BY <1>8 DEF Listener, ApplyBad, SendBad, Apply, SetReady, SendReady, Compare,
              SendChange, ListenerLeaves, ListenerCloses
<1>9. QED
  BY <1>1, <1>2, <1>3, <1>4, <1>5, <1>6, <1>7, <1>8
     DEF Next, NextInGrace, Service, SyncGoroutine

-----------------------------------------------------------------------------
(* READY goes ahead of Init *)

\* Nothing takes back what was announced
LEMMA AnnouncedStable ==
    ASSUME TypeOK, Announced, Next
    PROVE  Announced'
<1>1. CASE UNCHANGED <<events, last>>
  BY <1>1 DEF Announced
<1>2. CASE Took
  <2>1. last' # "none"
    <3>1. events[1] \in EventRecord
      BY <1>2, TookFacts DEF TypeOK
    <3>2. QED
      BY <1>2, <3>1, TookFacts DEF EventRecord
  <2>2. QED
    BY <2>1 DEF Announced
<1>3. ASSUME NEW e \in EventRecord, Send(e), last' = last PROVE Announced'
  BY <1>3, SendFacts DEF Announced
<1>4. CASE SendStale \/ TimerCallback \/ SendBad \/ SendReady
  BY <1>3, <1>4, EventTypes DEF SendStale, TimerCallback, SendBad, SendReady
<1>5. CASE SendChange
  <2>1. computeChangedFlags(old, store) \in SUBSET Flags
    BY DEF computeChangedFlags
  <2>2. QED
    BY <1>3, <1>5, <2>1, EventTypes DEF SendChange
<1>6. QED
  <2>1. CASE Environment \/ InitFails \/ InitStarts \/ InitReturn \/ Shutdown \/ ShutdownReturns
    BY <1>1, <2>1 DEF Environment, SourceChange, ConnDown, ConnUp, StreamFails, InitFails,
       InitStarts, InitReturn, Shutdown, ShutdownReturns
  <2>2. CASE SyncGoroutine \/ MonitorSees \/ MonitorReports
    BY <1>1, <2>2 DEF SyncGoroutine, SyncOpen, SyncReceive, SyncMarksReady, SyncFailed, SyncCancelled,
       MonitorSees, MonitorReports
  <2>3. CASE HandleSyncError \/ TimerStart \/ EventMonitorLeaves \/ TimerFires
    BY <1>1, <2>3 DEF HandleSyncError, TimerStart, EventMonitorLeaves, TimerFires
  <2>4. CASE ApplyBad \/ Apply \/ SetReady \/ Compare \/ ListenerLeaves \/ ListenerCloses
    BY <1>1, <2>4 DEF ApplyBad, Apply, SetReady, Compare, ListenerLeaves, ListenerCloses
  <2>5. QED
    BY <1>2, <1>4, <1>5, <2>1, <2>2, <2>3, <2>4
       DEF Next, NextInGrace, Service, EventMonitor, StaleTimer, Listener, TakeEvent

\* Who is ready, and who closes initSuccess, announced it first
LEMMA AnnouncedStep ==
    ASSUME TypeOK, AnnouncedFirst, OffBeforeInit, Next
    PROVE  AnnouncedFirst'
<1>1. CASE Announced
  BY <1>1, AnnouncedStable DEF AnnouncedFirst
<1>2. CASE ~Announced
  <2> USE <1>2 DEF AnnouncedFirst
  <2>1. ~initSuccess /\ (ready => lp = "sendReady") /\ lp \notin {"compare", "sendChange"}
    OBVIOUS
  <2>2. CASE Environment
    BY <2>1, <2>2 DEF Environment, SourceChange, ConnDown, ConnUp, StreamFails, Announced
  <2>3. CASE InitFails \/ InitStarts \/ InitReturn
    BY <2>1, <2>3 DEF InitFails, InitStarts, InitReturn, OffBeforeInit, Announced
  <2>4. CASE Shutdown \/ ShutdownReturns
    BY <2>1, <2>4 DEF Shutdown, ShutdownReturns, Announced
  <2>5. CASE TakeEvent
    BY <2>1, <2>5 DEF TakeEvent
  <2>6. CASE SyncGoroutine
    BY <2>1, <2>6 DEF SyncGoroutine, SyncOpen, SyncReceive, SyncMarksReady, SyncFailed, SyncCancelled
  <2>7. CASE MonitorSees \/ MonitorReports
    BY <2>1, <2>7 DEF MonitorSees, MonitorReports
  <2>8. CASE EventMonitor \/ StaleTimer
    BY <2>1, <2>8 DEF EventMonitor, HandleSyncError, SendStale, TimerStart,
       EventMonitorLeaves, StaleTimer, TimerFires, TimerCallback
  <2>9. CASE ApplyBad \/ SendBad \/ Apply \/ SetReady
    BY <2>1, <2>9 DEF ApplyBad, SendBad, Apply, SetReady
  <2>10. CASE SendReady
    <3>1. events'[Len(events')].type = "ready" /\ Len(events') \in DOMAIN events'
      BY <2>10, SendFacts, EventTypes DEF SendReady, Plain, Send, TypeOK
    <3>2. QED
      BY <3>1 DEF Announced
  <2>11. CASE Compare \/ SendChange
    BY <2>1, <2>11 DEF Compare, SendChange
  <2>12. CASE ListenerLeaves \/ ListenerCloses
    BY <2>1, <2>12 DEF ListenerLeaves, ListenerCloses
  <2>13. QED
    BY <2>2, <2>3, <2>4, <2>5, <2>6, <2>7, <2>8, <2>9, <2>10, <2>11, <2>12
       DEF Next, NextInGrace, Service, Listener
<1>3. QED
  BY <1>1, <1>2

-----------------------------------------------------------------------------
(* The reader of the change events *)

\* A step that moves neither store nor listener keeps the promise of ViewCatchesUp
LEMMA ViewKept ==
    ASSUME ViewCatchesUp, UNCHANGED <<view, store, old, events>>,
           lp \notin Processing \/ lp' = lp \/ lp' \in Processing
    PROVE  ViewCatchesUp'
BY DEF ViewCatchesUp, Named

\* A flag that is named stays named by a send, and the flags of the event are
LEMMA SendNames ==
    ASSUME TypeOK, NEW e \in EventRecord, Send(e), NEW k \in Flags,
           Named(k) \/ k \in e.keys
    PROVE  Named(k)'
<1>1. CASE Named(k)
  BY <1>1, SendFacts DEF Named
<1>2. CASE k \in e.keys
  <2>1. Len(events') \in DOMAIN events' /\ events'[Len(events')] = e
    BY SendFacts DEF Send, TypeOK
  <2>2. QED
    BY <1>2, <2>1 DEF Named
<1>3. QED
  BY <1>1, <1>2

\* The reader is up to date, or an event that is not yet taken tells it what
\* to read again
LEMMA ViewStep ==
    ASSUME TypeOK, ViewCatchesUp, OffBeforeInit, Next
    PROVE  ViewCatchesUp'
<1>1. CASE Environment
  BY <1>1, ViewKept DEF Environment, SourceChange, ConnDown, ConnUp, StreamFails
<1>2. CASE InitFails \/ InitStarts \/ InitReturn \/ Shutdown \/ ShutdownReturns
  <2>1. CASE InitStarts
    BY <2>1, ViewKept DEF InitStarts, OffBeforeInit, Processing
  <2>2. QED
    BY <1>2, <2>1, ViewKept DEF InitFails, InitReturn, Shutdown, ShutdownReturns
<1>3. CASE SyncGoroutine \/ MonitorSees \/ MonitorReports
  BY <1>3, ViewKept DEF SyncGoroutine, SyncOpen, SyncReceive, SyncMarksReady, SyncFailed,
     SyncCancelled, MonitorSees, MonitorReports
<1>4. CASE HandleSyncError \/ TimerStart \/ EventMonitorLeaves \/ TimerFires
  BY <1>4, ViewKept DEF HandleSyncError, TimerStart, EventMonitorLeaves, TimerFires
<1>5. CASE TakeEvent
  <2> SUFFICES ASSUME NEW k \in Flags
               PROVE  (\/ view[k] = store[k] \/ Named(k)
                       \/ lp \in Processing /\ old[k] # store[k])'
    BY DEF ViewCatchesUp
  <2>1. UNCHANGED <<store, old, lp>> /\ Took
    BY <1>5 DEF TakeEvent
  <2>2. view'[k] = IF k \in events[1].keys THEN store[k] ELSE view[k]
    BY <2>1, TookFacts DEF Took
  <2>3. CASE Named(k) /\ k \notin events[1].keys
    <3>1. PICK i \in DOMAIN events : k \in events[i].keys
      BY <2>3 DEF Named
    <3>2. i - 1 \in DOMAIN events' /\ events'[i - 1] = events[i]
      BY <2>1, <2>3, <3>1, TookFacts
    <3>3. QED
      BY <3>1, <3>2 DEF Named
  <2>4. QED
    BY <2>1, <2>2, <2>3 DEF ViewCatchesUp
<1>6. ASSUME NEW e \in EventRecord, Send(e), UNCHANGED <<view, store, old>>,
             lp' = lp \/ lp \notin Processing \/ lp' \in Processing
      PROVE  ViewCatchesUp'
  BY <1>6, SendNames DEF ViewCatchesUp
<1>7. CASE SendStale \/ TimerCallback \/ SendBad \/ SendReady
  BY <1>6, <1>7, EventTypes DEF SendStale, TimerCallback, SendBad, SendReady, Processing
<1>8. CASE ApplyBad \/ SetReady \/ ListenerLeaves \/ ListenerCloses
  BY <1>8, ViewKept DEF ApplyBad, SetReady, ListenerLeaves, ListenerCloses, Processing
<1>9. CASE Apply
  <2>1. /\ lp \notin Processing /\ lp' \in Processing
        /\ old' = store /\ UNCHANGED <<view, events>>
    BY <1>9 DEF Apply, Processing
  <2>2. QED
    BY <2>1 DEF ViewCatchesUp, Named
<1>10. computeChangedFlags(old, store) = {k \in Flags : old[k] # store[k]}
  BY ChangedFlags DEF TypeOK
<1>11. CASE Compare
  <2>1. CASE computeChangedFlags(old, store) = {}
    <3>1. \A k \in Flags : view[k] = store[k] \/ Named(k)
      BY <1>10, <2>1 DEF ViewCatchesUp
    <3>2. QED
      BY <1>11, <3>1 DEF Compare, ViewCatchesUp, Named
  <2>2. CASE computeChangedFlags(old, store) # {}
    BY <1>11, <2>2, ViewKept DEF Compare, Processing
  <2>3. QED
    BY <2>1, <2>2
<1>12. CASE SendChange
  <2> DEFINE e == [type |-> "change", keys |-> computeChangedFlags(old, store)]
  <2>1. e \in EventRecord /\ Send(e) /\ UNCHANGED <<view, store>>
    BY <1>10, <1>12, EventTypes DEF SendChange
  <2>2. ASSUME NEW k \in Flags PROVE view'[k] = store'[k] \/ Named(k)'
    <3>1. view[k] = store[k] \/ Named(k) \/ k \in e.keys
      BY <1>10 DEF ViewCatchesUp
    <3> HIDE DEF e
    <3>2. QED
      BY <2>1, <3>1, SendNames
  <2>3. QED
    BY <2>2 DEF ViewCatchesUp
<1>13. QED
  BY <1>1, <1>2, <1>3, <1>4, <1>5, <1>7, <1>8, <1>9, <1>11, <1>12
     DEF Next, NextInGrace, Service, EventMonitor, StaleTimer, Listener

-----------------------------------------------------------------------------
(* From the source to the store *)

\* The last configuration of a stream that is open is the one the source serves,
\* wherever it is on its way
LEMMA LatestStep ==
    ASSUME TypeOK, LatestOnItsWay, Next
    PROVE  LatestOnItsWay'
<1>1. ASSUME UNCHANGED <<stream, inbox, data, store, remote>> PROVE LatestOnItsWay'
  BY <1>1 DEF LatestOnItsWay
<1>2. ASSUME stream' # "open" PROVE LatestOnItsWay'
  BY <1>2 DEF LatestOnItsWay
<1>3. CASE SourceChange
  <2>1. CASE stream = "open"
    <3>1. inbox' = Append(inbox, remote') /\ inbox \in Seq(Payload) /\ remote' \in Payload
      BY <1>3, <2>1 DEF SourceChange, TypeOK
    <3>2. inbox' # <<>> /\ inbox'[Len(inbox')] = remote'
      BY <3>1
    <3>3. QED
      BY <3>2 DEF LatestOnItsWay
  <2>2. CASE stream # "open"
    BY <1>2, <1>3, <2>2 DEF SourceChange
  <2>3. QED
    BY <2>1, <2>2
<1>4. CASE ConnDown \/ StreamFails
  BY <1>2, <1>4 DEF ConnDown, StreamFails
<1>5. CASE ConnUp \/ InitFails \/ InitStarts \/ InitReturn \/ Shutdown \/ ShutdownReturns \/ TakeEvent
  BY <1>1, <1>5 DEF ConnUp, InitFails, InitStarts, InitReturn, Shutdown, ShutdownReturns, TakeEvent
<1>6. CASE SyncOpen
  BY <1>6 DEF SyncOpen, LatestOnItsWay
<1>7. CASE SyncReceive
  <2>1. /\ inbox \in Seq(Payload) /\ inbox # <<>> /\ inbox' = Tail(inbox)
        /\ data' = <<inbox[1]>> /\ UNCHANGED <<stream, store, remote>>
    BY <1>7 DEF SyncReceive, TypeOK
  <2>2. CASE inbox' = <<>>
    <3>1. Len(inbox) = 1
      BY <2>1, <2>2, TailFacts
    <3>2. data' # NoData /\ data'[1] = inbox[Len(inbox)]
      BY <2>1, <3>1 DEF NoData
    <3>3. QED
      BY <2>1, <2>2, <3>2 DEF LatestOnItsWay
  <2>3. CASE inbox' # <<>>
    <3>1. inbox'[Len(inbox')] = inbox[Len(inbox)]
      BY <2>1, <2>3, TailFacts
    <3>2. QED
      BY <2>1, <2>3, <3>1 DEF LatestOnItsWay
  <2>4. QED
    BY <2>2, <2>3
<1>15. CASE SyncMarksReady
  BY <1>1, <1>15 DEF SyncMarksReady
<1>8. CASE SyncFailed \/ SyncCancelled
  BY <1>2, <1>8 DEF SyncFailed, SyncCancelled
<1>9. CASE MonitorSees \/ MonitorReports
  BY <1>1, <1>9 DEF MonitorSees, MonitorReports
<1>10. CASE EventMonitor \/ StaleTimer
  BY <1>1, <1>10 DEF EventMonitor, HandleSyncError, SendStale, TimerStart,
     EventMonitorLeaves, StaleTimer, TimerFires, TimerCallback
<1>11. CASE ApplyBad
  BY <1>11 DEF ApplyBad, LatestOnItsWay
<1>12. CASE Apply
  BY <1>12 DEF Apply, LatestOnItsWay
<1>13. CASE SendBad \/ SetReady \/ SendReady \/ Compare \/ SendChange \/ ListenerLeaves \/ ListenerCloses
  BY <1>1, <1>13 DEF SendBad, SetReady, SendReady, Compare, SendChange,
     ListenerLeaves, ListenerCloses
<1>14. QED
  BY <1>3, <1>4, <1>5, <1>6, <1>7, <1>8, <1>9, <1>10, <1>11, <1>12, <1>13, <1>15
     DEF Next, NextInGrace, Environment, Service, SyncGoroutine, Listener

-----------------------------------------------------------------------------
(* The stale timer *)

\* The newest event is the one just sent; taking an event leaves it the newest
LEMMA NewestFacts ==
    ASSUME TypeOK
    PROVE  /\ \A e \in EventRecord : Send(e) => Newest' = e.type
           /\ Took => Newest' = Newest
           /\ UNCHANGED <<events, last>> => Newest' = Newest
<1>1. ASSUME NEW e \in EventRecord, Send(e) PROVE Newest' = e.type
  BY <1>1, SendFacts DEF Newest
<1>2. ASSUME Took PROVE Newest' = Newest
  <2>1. events # <<>>
    BY <1>2 DEF Took
  <2>2. CASE events' = <<>>
    BY <1>2, <2>1, <2>2, TookFacts DEF Newest
  <2>3. CASE events' # <<>>
    BY <1>2, <2>1, <2>3, TookFacts DEF Newest
  <2>4. QED
    BY <2>2, <2>3
<1>3. QED
  BY <1>1, <1>2 DEF Newest

\* An outage that was reported keeps its timer until the listener or the
\* shutdown stops it
LEMMA StaleStep ==
    ASSUME TypeOK, StaleGuarded, OffBeforeInit, Next
    PROVE  StaleGuarded'
<1> USE DEF StaleGuarded
<1>1. CASE Environment
  BY <1>1, NewestFacts DEF Environment, SourceChange, ConnDown, ConnUp, StreamFails
<1>2. CASE InitFails \/ InitReturn \/ ShutdownReturns
  BY <1>2, NewestFacts DEF InitFails, InitReturn, ShutdownReturns
<1>3. CASE InitStarts
  <2>1. lp = "off" /\ mp = "off"
    BY <1>3 DEF InitStarts, OffBeforeInit
  <2>2. QED
    BY <1>3, <2>1, NewestFacts DEF InitStarts
<1>4. CASE Shutdown
  BY <1>4 DEF Shutdown
<1>5. CASE TakeEvent
  BY <1>5, NewestFacts DEF TakeEvent
<1>6. CASE SyncGoroutine
  BY <1>6, NewestFacts DEF SyncGoroutine, SyncOpen, SyncReceive, SyncMarksReady, SyncFailed, SyncCancelled
<1>7. CASE MonitorSees \/ MonitorReports
  BY <1>7, NewestFacts DEF MonitorSees, MonitorReports
<1>8. CASE HandleSyncError \/ SendStale
  BY <1>8 DEF HandleSyncError, SendStale
<1>9. CASE TimerStart
  BY <1>9 DEF TimerStart
<1>10. CASE EventMonitorLeaves \/ TimerFires
  BY <1>10, NewestFacts DEF EventMonitorLeaves, TimerFires
<1>11. Plain("error").type = "error" /\ Plain("ready").type = "ready"
  BY DEF Plain
<1>12. CASE TimerCallback \/ SendBad \/ SendReady
  BY <1>11, <1>12, NewestFacts, EventTypes DEF TimerCallback, SendBad, SendReady
<1>13. CASE ApplyBad \/ Apply \/ SetReady
  BY <1>13 DEF ApplyBad, Apply, SetReady
<1>14. CASE Compare \/ ListenerLeaves \/ ListenerCloses
  BY <1>14, NewestFacts DEF Compare, ListenerLeaves, ListenerCloses
<1>15. CASE SendChange
  <2>1. computeChangedFlags(old, store) \in SUBSET Flags
    BY DEF computeChangedFlags
  <2>2. Newest' = "change"
    BY <1>15, <2>1, NewestFacts, EventTypes DEF SendChange
  <2>3. QED
    BY <2>2
<1>16. QED
  BY <1>1, <1>2, <1>3, <1>4, <1>5, <1>6, <1>7, <1>8, <1>9, <1>10, <1>12, <1>13, <1>14, <1>15
     DEF Next, NextInGrace, Service, EventMonitor, StaleTimer, Listener

-----------------------------------------------------------------------------
(* The service *)

\* The inductive invariant holds of every service: initially, ...
LEMMA ServiceInvInit == Init => ServiceInv
<1> SUFFICES ASSUME Init PROVE ServiceInv
  OBVIOUS
<1>1. TypeOK
  BY InitType
<1>2. events = <<>> /\ DOMAIN events = {}
  BY DEF Init
<1>3. OffBeforeInit /\ ClosedInShutdown /\ GivesUpEarly /\ LatestOnItsWay
  BY DEF Init, OffBeforeInit, ClosedInShutdown, GivesUpEarly, LatestOnItsWay
<1>4. DataWasReceived
  BY <1>2 DEF Init, DataWasReceived, Processing, NoData
<1>5. AnnouncedFirst /\ ViewCatchesUp /\ StaleGuarded
  BY <1>2 DEF Init, AnnouncedFirst, ViewCatchesUp, StaleGuarded, Newest
<1>6. QED
  BY <1>1, <1>3, <1>4, <1>5 DEF ServiceInv

\* ... and after every step
LEMMA ServiceInvNext == ASSUME ServiceInv, [Next]_vars PROVE ServiceInv'
<1>1. CASE Next
  BY <1>1, NextType, ClosedStep, ReceivedStep, GivesUpStep, AnnouncedStep, ViewStep,
     LatestStep, StaleStep DEF ServiceInv
<1>2. CASE UNCHANGED vars
  BY <1>2, NextType DEF ServiceInv, OffBeforeInit, ClosedInShutdown, DataWasReceived,
     GivesUpEarly, AnnouncedFirst, Announced, ViewCatchesUp, Named, LatestOnItsWay,
     StaleGuarded, Newest
<1>3. QED
  BY <1>1, <1>2

\* What the inductive invariant says to the application
LEMMA ServiceInvImplies ==
    ASSUME ServiceInv
    PROVE  InitMeansServing /\ SourceFollowed /\ StaleHasTimer /\ PanicOnlyInShutdown
<1>1. AnnouncedBeforeInit /\ KeepsSyncing
  BY DEF ServiceInv, AnnouncedFirst, Announced, DataWasReceived, GivesUpEarly,
     AnnouncedBeforeInit, KeepsSyncing
<1>2. SettledIsCurrent
  BY DEF ServiceInv, LatestOnItsWay, SettledIsCurrent
<1>3. ViewCurrent
  <2> SUFFICES ASSUME events = <<>>, lp = "select" PROVE view = store
    BY DEF ViewCurrent
  <2>1. \A k \in Flags : view[k] = store[k]
    BY DEF ServiceInv, ViewCatchesUp, Named, Processing
  <2>2. QED
    BY <2>1 DEF ServiceInv, TypeOK, Config
<1>4. StaleHasTimer
  BY DEF ServiceInv, StaleGuarded, Newest, StaleHasTimer, Quiet
<1>5. PanicOnlyInShutdown
  BY DEF ServiceInv, ClosedInShutdown, PanicOnlyInShutdown
<1>6. QED
  BY <1>1, <1>2, <1>3, <1>4, <1>5 DEF InitMeansServing, SourceFollowed

\* The service: every behaviour keeps the types and the inductive invariant.
THEOREM ServiceInvariant == Spec => []ServiceInv
<1>1. Init => ServiceInv
  BY ServiceInvInit
<1>2. ServiceInv /\ [Next]_vars => ServiceInv'
  BY ServiceInvNext
<1>3. QED
  BY <1>1, <1>2, PTL DEF Spec

\* Init succeeds only after READY was sent and with a Sync that goes on until
\* Shutdown, whatever the interleaving of Sync, listener and monitors and
\* whatever the status codes of later streams (waitForInitialization, Sync).
THEOREM ServiceServes == Spec => []InitMeansServing
<1>1. ServiceInv => InitMeansServing
  BY ServiceInvImplies
<1>2. QED
  BY <1>1, ServiceInvariant, PTL

\* The store follows the source and the reader of the change events follows the
\* store, through outages, lost, repeated and rejected configurations
\* (processSyncData, computeChangedFlags).
THEOREM ServiceFollows == Spec => []SourceFollowed
<1>1. ServiceInv => SourceFollowed
  BY ServiceInvImplies
<1>2. QED
  BY <1>1, ServiceInvariant, PTL

\* A service that was reported STALE and is not ready has its stale timer
\* (handleProviderError, staleTimer).
THEOREM ServiceStaleTimer == Spec => []StaleHasTimer
<1>1. ServiceInv => StaleHasTimer
  BY ServiceInvImplies
<1>2. QED
  BY <1>1, ServiceInvariant, PTL

\* A send on the closed channel of sync events happens only in a shutdown
\* (Sync.Shutdown, monitorConnectionState).
THEOREM ServicePanics == Spec => []PanicOnlyInShutdown
<1>1. ServiceInv => PanicOnlyInShutdown
  BY ServiceInvImplies
<1>2. QED
  BY <1>1, ServiceInvariant, PTL

-----------------------------------------------------------------------------
(* The provider runs the service *)

USE DEF pvars, providerVars

\* Every step of the provider is a step of the service or leaves it alone
LEMMA ProviderStepIsService == [ProviderNext]_pvars => [Next]_vars
<1> SUFFICES ASSUME [ProviderNext]_pvars PROVE [Next]_vars
  OBVIOUS
<1> USE DEF Next, NextInGrace, Service, StaleTimer
<1>1. CASE (Environment \/ ServiceRuns) /\ UNCHANGED providerVars
  BY <1>1 DEF ServiceRuns
<1>2. CASE ProviderInit
  BY <1>2 DEF ProviderInit
<1>3. CASE ProviderInitFailed \/ ProviderInitDeadline
  BY <1>3 DEF ProviderInitFailed, ProviderInitDeadline
<1>4. CASE ProviderInitEvent
  BY <1>4 DEF ProviderInitEvent, TakeEvent, serviceVars
<1>5. CASE HandleEvents
  <2>1. CASE HandleEventsTakes
    BY <2>1 DEF HandleEventsTakes, TakeEvent, serviceVars
  <2>2. CASE HandleEventsEmits \/ setStatus
    BY <2>2 DEF HandleEventsEmits, setStatus
  <2>3. QED
    BY <1>5, <2>1, <2>2 DEF HandleEvents
<1>6. CASE ProviderShutdown
  BY <1>6 DEF ProviderShutdown
<1>7. CASE ProviderShutdownReturns
  BY <1>7 DEF ProviderShutdownReturns
<1>8. CASE UNCHANGED pvars
  BY <1>8
<1>9. QED
  BY <1>1, <1>2, <1>3, <1>4, <1>5, <1>6, <1>7, <1>8 DEF ProviderNext

\* The provider implements the service's specification: Init, handleEvents and
\* Shutdown of the provider call the service only as its specification allows.
THEOREM ProviderImplementsService == ProviderSpec => Spec
<1>1. ProviderSetup => Init
  BY DEF ProviderSetup
<1>2. QED
  BY <1>1, ProviderStepIsService, PTL DEF ProviderSpec, Spec

\* What the service promises it promises inside the provider too
COROLLARY ProviderKeepsService ==
    ProviderSpec => [](InitMeansServing /\ SourceFollowed /\ StaleHasTimer /\ PanicOnlyInShutdown)
BY ProviderImplementsService, ServiceServes, ServiceFollows, ServiceStaleTimer,
   ServicePanics, PTL

\* The provider's invariant holds when it is created, ...
LEMMA ProviderInvInit == ProviderSetup => ProviderInv
<1> SUFFICES ASSUME ProviderSetup PROVE ProviderInv
  OBVIOUS
<1>1. ServiceInv
  BY ServiceInvInit DEF ProviderSetup
<1>2. QED
  BY <1>1 DEF ProviderSetup, ProviderInv, ReadyHasData, FailedStaysFailed,
     StatusFollowsEvents

\* ... and after every step: a configuration once applied stays applied
LEMMA ProviderInvNext ==
    ASSUME ProviderInv, [ProviderNext]_pvars
    PROVE  ProviderInv'
<1>1. ServiceInv'
  BY ProviderStepIsService, ServiceInvNext DEF ProviderInv
<1> USE DEF ProviderInv, ReadyHasData, FailedStaysFailed, StatusFollowsEvents
<1>2. CASE UNCHANGED <<providerVars, last>> /\ (applied => applied')
  BY <1>1, <1>2
<1>3. CASE (Environment \/ ServiceRuns) /\ UNCHANGED providerVars
  <2>1. CASE Environment
    BY <1>2, <1>3, <2>1 DEF Environment, SourceChange, ConnDown, ConnUp, StreamFails
  <2>2. CASE InitReturn \/ ShutdownReturns \/ MonitorSees \/ MonitorReports
    BY <1>2, <1>3, <2>2 DEF InitReturn, ShutdownReturns, MonitorSees, MonitorReports
  <2>3. CASE SyncGoroutine
    BY <1>2, <1>3, <2>3 DEF SyncGoroutine, SyncOpen, SyncReceive, SyncMarksReady, SyncFailed, SyncCancelled
  <2>4. CASE EventMonitor \/ StaleTimer
    BY <1>2, <1>3, <2>4 DEF EventMonitor, HandleSyncError, SendStale, TimerStart,
       EventMonitorLeaves, StaleTimer, TimerFires, TimerCallback
  <2>5. CASE Listener
    BY <1>2, <1>3, <2>5 DEF Listener, ApplyBad, SendBad, Apply, SetReady, SendReady,
       Compare, SendChange, ListenerLeaves, ListenerCloses
  <2>6. QED
    BY <1>3, <2>1, <2>2, <2>3, <2>4, <2>5 DEF ServiceRuns
<1>4. CASE ProviderInit
  BY <1>1, <1>4 DEF ProviderInit, InitFails, InitStarts
<1>5. CASE ProviderInitFailed \/ ProviderInitDeadline
  BY <1>1, <1>5 DEF ProviderInitFailed, ProviderInitDeadline
<1>6. CASE ProviderInitEvent
  <2>1. Took /\ applied' = applied /\ UNCHANGED ps
    BY <1>6 DEF ProviderInitEvent, serviceVars
  <2>2. last' = "ready" => applied'
    BY <2>1, TookFacts DEF ServiceInv, DataWasReceived
  <2>3. hp = "off" /\ status = "notReady"
    BY <1>6 DEF ProviderInitEvent
  <2>4. QED
    BY <1>1, <1>6, <2>1, <2>2, <2>3 DEF ProviderInitEvent
<1>7. CASE HandleEventsTakes
  BY <1>1, <1>7 DEF HandleEventsTakes, serviceVars
<1>8. CASE HandleEventsEmits
  BY <1>1, <1>8 DEF HandleEventsEmits
<1>9. CASE setStatus
  <2>1. last # "error" => applied'
    BY <1>9 DEF setStatus, ServiceInv, DataWasReceived
  <2>2. QED
    BY <1>1, <1>9, <2>1 DEF setStatus
<1>10. CASE ProviderShutdown
  BY <1>1, <1>10 DEF ProviderShutdown, Shutdown
<1>11. CASE ProviderShutdownReturns
  BY <1>1, <1>11 DEF ProviderShutdownReturns
<1>12. CASE UNCHANGED pvars
  BY <1>2, <1>12
<1>13. QED
  BY <1>3, <1>4, <1>5, <1>6, <1>7, <1>8, <1>9, <1>10, <1>11, <1>12
     DEF ProviderNext, HandleEvents

\* The provider is ready, in the answer of Init and in its status, only with a
\* configuration that was applied, and between two events its status is what
\* the last one says, whatever the service's goroutines do in the meantime
\* (Provider.Init, handleEvents, setStatus).
THEOREM ProviderTruthful == ProviderSpec => []StatusTruthful
<1>1. ProviderSetup => ProviderInv
  BY ProviderInvInit
<1>2. ProviderInv /\ [ProviderNext]_pvars => ProviderInv'
  BY ProviderInvNext
<1>3. ProviderInv => StatusTruthful
  BY DEF ProviderInv, ServiceInv, StatusTruthful
<1>4. QED
  BY <1>1, <1>2, <1>3, PTL DEF ProviderSpec
=============================================================================
