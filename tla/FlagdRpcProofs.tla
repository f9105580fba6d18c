--------------------------- MODULE FlagdRpcProofs ---------------------------
(***************************************************************************)
(* Proofs about FlagdRpc for every set of flags and evaluations and every  *)
(* bound: the type invariant and cache coherence.                          *)
(***************************************************************************)
EXTENDS FlagdRpc, TLAPS

USE DEF EventCap

-----------------------------------------------------------------------------
(* Type correctness *)

\* The events the stream goroutine sends are events
LEMMA EventTypes ==
    /\ NoEvent \in Event /\ ReadyEvent \in Event /\ ErrorEvent \in Event
    /\ \A K \in SUBSET Flags : ChangeEvent(K) \in Event
BY DEF NoEvent, ReadyEvent, ErrorEvent, ChangeEvent, Event

\* An idle evaluation is a record of the right shape
LEMMA IdleType == Idle \in EvalRecord
BY DEF Idle, EvalRecord, Sources

\* handleError maps every code to a known outcome
LEMMA ErrorTypes == \A c \in AllCodes : handleError(c) \in Sources
BY DEF AllCodes, Sources, Errors

\* So is the answer of a service that was not initialised
LEMMA NotReadyType == "PROVIDER_NOT_READY" \in Sources
<1>1. handleError("Unavailable") = "PROVIDER_NOT_READY"
  BY DEF handleError
<1>2. QED
  BY <1>1, ErrorTypes DEF AllCodes

\* NewService starts well typed
LEMMA InitType == Init => TypeOK
<1> SUFFICES ASSUME Init PROVE TypeOK
  OBVIOUS
<1>1. cfg \in [Flags -> Definition]
  BY ConstantsAssumption DEF Init, Definition
<1>2. ev \in [Evals -> EvalRecord] /\ \A e \in Evals : ev[e].pc = "idle"
  BY IdleType DEF Init, Idle
<1>3. /\ link \in {"none", "open", "broken", "closed"}
      /\ wire \in Seq(Message) /\ events \in Seq(Event)
      /\ sp \in StreamPcs /\ after \in {"receive", "failed", "finished"}
      /\ out \in Event
  BY EventTypes DEF Init, StreamPcs
<1>4. /\ todo \in SUBSET Flags /\ retries \in Nat /\ delay \in Nat
      /\ streamReady \in {"empty", "nil", "err"}
      /\ init \in {"no", "waiting", "nil", "err"}
      /\ stop \in {"no", "waiting", "done"}
      /\ cache \in [Flags -> Definition \cup {NoEntry}]
      /\ missed \in SUBSET Flags
      /\ raced \in SUBSET Flags
  BY DEF Init
<1>5. /\ signaled \in BOOLEAN /\ client \in BOOLEAN /\ cancelled \in BOOLEAN
      /\ cacheEnabled \in BOOLEAN
  BY ConstantsAssumption DEF Init
<1>6. QED
  BY <1>1, <1>2, <1>3, <1>4, <1>5 DEF TypeOK

\* The steps of the daemon, of Init and Shutdown and of the stream goroutine
LEMMA DaemonChangeType ==
    ASSUME TypeOK, NEW K \in SUBSET Flags, NEW t \in Types, DaemonChange(K, t)
    PROVE  TypeOK'
<1>1. cfg' \in [Flags -> Definition]
  <2>1. \A k \in K : cfg[k].ver + 1 \in 0..MaxVersion
    BY ConstantsAssumption DEF DaemonChange, TypeOK, Definition
  <2>2. \A k \in K : [ver |-> cfg[k].ver + 1, type |-> t] \in Definition
    BY <2>1 DEF Definition
  <2>3. QED
    BY <2>2 DEF DaemonChange, TypeOK
<1>2. wire' \in Seq(Message) /\ missed' \in SUBSET Flags
  <2>1. \A d \in BOOLEAN : [type |-> "configuration_change", data |-> d,
                            flags |-> IF d THEN K ELSE {}] \in Message
    BY DEF Message
  <2>2. ASSUME NEW m \in Message, DaemonSends(m) PROVE wire' \in Seq(Message)
    BY <2>2 DEF DaemonSends, TypeOK
  <2>3. QED
    BY <2>1, <2>2 DEF DaemonChange, TypeOK
<1>3. QED
  BY <1>1, <1>2 DEF DaemonChange, TypeOK, streamVars, callerVars, cacheVars

\* Init, Shutdown and the reader of the events keep the types
LEMMA CallerType ==
    ASSUME TypeOK,
           DaemonNotify \/ StreamEnds \/ InitFails \/ InitStarts \/ InitReturn
             \/ Shutdown \/ ShutdownReturns \/ TakeEvent
    PROVE  TypeOK'
<1> USE DEF TypeOK, daemonVars, streamVars, callerVars, cacheVars, history
<1>1. CASE DaemonNotify
  BY <1>1 DEF DaemonNotify, DaemonSends, Message
<1>2. CASE StreamEnds
  BY <1>2 DEF StreamEnds, Lose
<1>3. CASE InitFails
  BY <1>3 DEF InitFails
<1>4. CASE InitStarts
  BY <1>4 DEF InitStarts, StreamPcs
<1>5. CASE InitReturn
  BY <1>5 DEF InitReturn
<1>6. CASE Shutdown
  BY <1>6 DEF Shutdown
<1>7. CASE ShutdownReturns
  BY <1>7 DEF ShutdownReturns
<1>8. CASE TakeEvent
  BY <1>8 DEF TakeEvent
<1>9. QED
  BY <1>1, <1>2, <1>3, <1>4, <1>5, <1>6, <1>7, <1>8

\* So does the stream goroutine
LEMMA StreamType ==
    ASSUME TypeOK, StreamGoroutine
    PROVE  TypeOK'
<1> USE EventTypes DEF TypeOK, daemonVars, streamVars, callerVars, cacheVars, history
<1>1. CASE Retry
  BY <1>1 DEF Retry, StreamPcs
<1>2. CASE ConnectOk
  BY <1>2 DEF ConnectOk, StreamPcs, signalStreamReady
<1>3. CASE ConnectFails
  BY <1>3 DEF ConnectFails, StreamPcs
<1>4. CASE HandleConfigurationChange
  <2>1. wire \in Seq(Message) /\ wire # <<>> /\ Tail(wire) \in Seq(Message)
    BY <1>4 DEF HandleConfigurationChange, Received
  <2>2. /\ Head(wire) \in Message /\ Head(wire).type = "configuration_change"
        /\ Head(wire).flags \in SUBSET Flags
    BY <1>4, <2>1 DEF HandleConfigurationChange, Received, Message
  <2>3. /\ wire' \in Seq(Message) /\ retries' \in Nat /\ delay' \in Nat
        /\ UNCHANGED <<cfg, link, signaled, callerVars, cacheEnabled, ev>>
    BY <1>4, <2>1 DEF HandleConfigurationChange, Received, Reset
  <2>4. ChangeEvent(Head(wire).flags) \in Event
    BY <2>2
  <2>5. /\ sp' \in StreamPcs /\ todo' \in SUBSET Flags /\ out' \in Event
        /\ after' \in {"receive", "failed", "finished"}
    BY <1>4, <2>2, <2>4 DEF HandleConfigurationChange, StreamPcs
  <2>6. /\ cache' \in [Flags -> Definition \cup {NoEntry}]
        /\ missed' \in SUBSET Flags /\ raced' \in SUBSET Flags
    BY <1>4 DEF HandleConfigurationChange, Purge
  <2>7. QED
    BY <2>3, <2>5, <2>6
<1>5. CASE RemoveChanged
  BY <1>5 DEF RemoveChanged, Remove, SendThen, StreamPcs
<1>6. CASE HandleReady
  BY <1>6 DEF HandleReady, Received, Reset, SendThen, StreamPcs
<1>7. CASE HandleShutdownMessage
  BY <1>7 DEF HandleShutdownMessage, Received, Reset, Lose, StreamPcs
<1>8. CASE HandleKeepAlive
  BY <1>8 DEF HandleKeepAlive, Received, Reset
<1>9. CASE StreamError
  BY <1>9 DEF StreamError, Lose, SendThen, StreamPcs
<1>10. CASE StreamEof
  BY <1>10 DEF StreamEof, StreamPcs
<1>11. CASE SendEvent
  BY <1>11 DEF SendEvent, StreamPcs
<1>12. CASE Failed
  BY <1>12 DEF Failed, SignalFailure, signalStreamReady, Purge, StreamPcs
<1>13. CASE Backoff
  BY <1>13 DEF Backoff, SignalFailure, signalStreamReady, StreamPcs
<1>14. CASE Disable
  <2>1. cacheEnabled' \in BOOLEAN /\ sp' \in StreamPcs
    BY <1>14 DEF Disable, StreamPcs
  <2>2. QED
    BY <1>14, <2>1 DEF Disable
<1>15. CASE DisablePurge
  BY <1>15 DEF DisablePurge, Purge, StreamPcs
<1>16. CASE Exhausted
  BY <1>16 DEF Exhausted, SignalFailure, signalStreamReady, SendThen, StreamPcs
<1>17. QED
  BY <1>1, <1>2, <1>3, <1>4, <1>5, <1>6, <1>7, <1>8, <1>9, <1>10, <1>11, <1>12, <1>13, <1>14, <1>15, <1>16 DEF StreamGoroutine

\* The steps of an evaluation change its record only, except CacheAdd
LEMMA EvaluationType ==
    ASSUME TypeOK, NEW e \in Evals, Evaluation(e)
    PROVE  TypeOK'
<1> DEFINE r == ev[e]
           Only == UNCHANGED <<daemonVars, streamVars, callerVars, history, cacheEnabled>>
           Typed(n) == n.pc # "idle" => n.key \in Flags /\ n.type \in Types
           Good == /\ Only
                   /\ cache' \in [Flags -> Definition \cup {NoEntry}]
                   /\ \E n \in EvalRecord : ev' = [ev EXCEPT ![e] = n] /\ Typed(n)
<1>1. ASSUME Good PROVE TypeOK'
  <2>1. PICK n \in EvalRecord : ev' = [ev EXCEPT ![e] = n] /\ Typed(n)
    BY <1>1
  <2>2. ev' \in [Evals -> EvalRecord]
    BY <2>1 DEF TypeOK
  <2>3. \A i \in Evals : Typed(ev'[i])
    BY <2>1 DEF TypeOK
  <2>4. QED
    BY <1>1, <2>2, <2>3 DEF TypeOK, daemonVars, streamVars, callerVars, cacheVars, history
<1>2. r \in EvalRecord /\ (r.pc # "idle" => r.key \in Flags /\ r.type \in Types)
  BY DEF TypeOK
<1>3. ASSUME NEW k \in Flags, NEW t \in Types, Resolve(e, k, t)
      PROVE  Good
  <2> DEFINE q == [Idle EXCEPT !.key = k, !.type = t]
             n == IF cacheEnabled THEN [q EXCEPT !.pc = "get"] ELSE CallOrNotReady(q)
  <2>1. q \in EvalRecord /\ q.key = k /\ q.type = t
    BY IdleType DEF EvalRecord, Idle
  <2>2. n \in EvalRecord /\ Typed(n)
    BY <2>1, NotReadyType DEF CallOrNotReady, EvalRecord
  <2>3. ev' = [ev EXCEPT ![e] = n]
    BY <1>3 DEF Resolve
  <2>4. Only /\ cache' \in [Flags -> Definition \cup {NoEntry}]
    BY <1>3 DEF Resolve, TypeOK, cacheVars
  <2>5. QED
    BY <2>2, <2>3, <2>4
<1>4. ASSUME CacheGet(e) PROVE Good
  <2> DEFINE n == IF Hit(cache[r.key], r.type)
                  THEN [r EXCEPT !.pc = "done", !.src = "cached", !.got = cache[r.key]]
                  ELSE CallOrNotReady(r)
  <2>1. n \in EvalRecord /\ Typed(n)
    BY <1>2, <1>4, NotReadyType DEF CacheGet, CallOrNotReady, EvalRecord, Sources, TypeOK
  <2>2. ev' = [ev EXCEPT ![e] = n]
    BY <1>4 DEF CacheGet
  <2>3. Only /\ cache' \in [Flags -> Definition \cup {NoEntry}]
    BY <1>4 DEF CacheGet, TypeOK, cacheVars
  <2>4. QED
    BY <2>1, <2>2, <2>3
<1>5. ASSUME CallAnswered(e) PROVE Good
  <2>0. PICK reason \in Reasons : ev' = [ev EXCEPT ![e] = [r EXCEPT !.pc = "answered", !.reason = reason,
                            !.got = IF reason = "FALLBACK" THEN NoEntry
                                    ELSE cfg[r.key]]]
    BY <1>5 DEF CallAnswered
  <2> DEFINE n == [r EXCEPT !.pc = "answered", !.reason = reason,
                            !.got = IF reason = "FALLBACK" THEN NoEntry
                                    ELSE cfg[r.key]]
  <2>1. n \in EvalRecord /\ Typed(n)
    BY <1>2, <1>5 DEF CallAnswered, EvalRecord, TypeOK
  <2>2. ev' = [ev EXCEPT ![e] = n]
    BY <1>5, <2>0 DEF CallAnswered
  <2>3. Only /\ cache' \in [Flags -> Definition \cup {NoEntry}]
    BY <1>5 DEF CallAnswered, TypeOK, cacheVars
  <2>4. QED
    BY <2>1, <2>2, <2>3
<1>6. ASSUME CallFailed(e) PROVE Good
  <2>0. PICK code \in Codes : ev' = [ev EXCEPT ![e] = [r EXCEPT !.pc = "done", !.src = handleError(code)]]
    BY <1>6 DEF CallFailed
  <2> DEFINE n == [r EXCEPT !.pc = "done", !.src = handleError(code)]
  <2>1. n \in EvalRecord /\ Typed(n)
    BY <1>2, <1>6, ErrorTypes, ConstantsAssumption DEF CallFailed, EvalRecord
  <2>2. ev' = [ev EXCEPT ![e] = n]
    BY <1>6, <2>0 DEF CallFailed
  <2>3. Only /\ cache' \in [Flags -> Definition \cup {NoEntry}]
    BY <1>6 DEF CallFailed, TypeOK, cacheVars
  <2>4. QED
    BY <2>1, <2>2, <2>3
<1>7. ASSUME StoreCheck(e) PROVE Good
  <2> DEFINE n == IF cacheEnabled /\ r.reason = "STATIC"
                  THEN [r EXCEPT !.pc = "add"] ELSE Done(r)
  <2>1. n \in EvalRecord /\ Typed(n)
    BY <1>2, <1>7 DEF StoreCheck, Done, EvalRecord, Sources
  <2>2. ev' = [ev EXCEPT ![e] = n]
    BY <1>7 DEF StoreCheck
  <2>3. Only /\ cache' \in [Flags -> Definition \cup {NoEntry}]
    BY <1>7 DEF StoreCheck, TypeOK, cacheVars
  <2>4. QED
    BY <2>1, <2>2, <2>3
<1>8. ASSUME CacheAdd(e) PROVE Good
  <2> DEFINE n == Done(r)
  <2>1. n \in EvalRecord /\ Typed(n)
    BY <1>2, <1>8 DEF CacheAdd, Done, EvalRecord, Sources
  <2>2. ev' = [ev EXCEPT ![e] = n]
    BY <1>8 DEF CacheAdd
  <2>3. cache' \in [Flags -> Definition \cup {NoEntry}]
    BY <1>2, <1>8 DEF CacheAdd, Add, EvalRecord, TypeOK
  <2>4. Only
    BY <1>8 DEF CacheAdd
  <2>5. QED
    BY <2>1, <2>2, <2>3, <2>4
<1>9. ASSUME Return(e) PROVE Good
  <2> DEFINE n == Idle
  <2>1. n \in EvalRecord /\ Typed(n)
    BY <1>2, <1>9, IdleType DEF Idle
  <2>2. ev' = [ev EXCEPT ![e] = n]
    BY <1>9 DEF Return
  <2>3. Only /\ cache' \in [Flags -> Definition \cup {NoEntry}]
    BY <1>9 DEF Return, TypeOK, cacheVars
  <2>4. QED
    BY <2>1, <2>2, <2>3
<1>10. QED
  BY <1>1, <1>3, <1>4, <1>5, <1>6, <1>7, <1>8, <1>9
     DEF Evaluation, ResolveBoolean, ResolveString, ResolveFloat, ResolveInt, ResolveObject, Resolve

\* An evaluation touches its own record and the entries, nothing else
LEMMA EvaluationFrame ==
    ASSUME NEW e \in Evals, Evaluation(e)
    PROVE  UNCHANGED <<daemonVars, streamVars, callerVars, history, cacheEnabled>>
<1>1. CASE \E k \in Flags, t \in AllTypes : Resolve(e, k, t)
  BY <1>1 DEF Resolve, cacheVars
<1>2. CASE CacheGet(e)
  BY <1>2 DEF CacheGet, cacheVars
<1>3. CASE CallAnswered(e)
  BY <1>3 DEF CallAnswered, cacheVars
<1>4. CASE CallFailed(e)
  BY <1>4 DEF CallFailed, cacheVars
<1>5. CASE StoreCheck(e)
  BY <1>5 DEF StoreCheck, cacheVars
<1>6. CASE CacheAdd(e)
  BY <1>6 DEF CacheAdd
<1>7. CASE Return(e)
  BY <1>7 DEF Return, cacheVars
<1>8. QED
  BY <1>1, <1>2, <1>3, <1>4, <1>5, <1>6, <1>7
     DEF Evaluation, ResolveBoolean, ResolveString, ResolveFloat, ResolveInt, ResolveObject, AllTypes

\* Every step keeps the types
LEMMA TypeStep == TypeOK /\ [Next]_vars => TypeOK'
<1> SUFFICES ASSUME TypeOK, [Next]_vars PROVE TypeOK'
  OBVIOUS
<1>1. CASE UNCHANGED vars
  BY <1>1 DEF TypeOK, vars, daemonVars, streamVars, callerVars, cacheVars, history
<1>2. CASE Next
  BY <1>2, DaemonChangeType, CallerType, StreamType, EvaluationType DEF Next
<1>3. QED
  BY <1>1, <1>2

\* Every reachable state of the service is well typed: no evaluation loses its
\* key or type, and no entry, message or event of another shape appears.
THEOREM TypeInvariant == Spec => []TypeOK
BY InitType, TypeStep, PTL DEF Spec

-----------------------------------------------------------------------------
(* Cache coherence *)

\* An empty stream notifies of nothing
LEMMA NotifiedEmpty == \A k : ~NotifiedBy(<<>>, k)
BY DEF NotifiedBy

\* A message that is sent notifies in addition to the others
LEMMA NotifiedAppend ==
    ASSUME NEW w \in Seq(Message), NEW m \in Message, NEW k \in Flags
    PROVE  /\ NotifiedBy(w, k) => NotifiedBy(Append(w, m), k)
           /\ Notifies(m, k) => NotifiedBy(Append(w, m), k)
<1>1. /\ DOMAIN Append(w, m) = 1..(Len(w) + 1)
      /\ DOMAIN w = 1..Len(w)
      /\ Len(w) + 1 \in 1..(Len(w) + 1)
      /\ Append(w, m)[Len(w) + 1] = m
      /\ \A i \in 1..Len(w) : i \in 1..(Len(w) + 1) /\ Append(w, m)[i] = w[i]
  OBVIOUS
<1>2. QED
  BY <1>1 DEF NotifiedBy

\* Receiving a message loses at most its own notification
LEMMA NotifiedTail ==
    ASSUME NEW w \in Seq(Message), w # <<>>, NEW k \in Flags,
           NotifiedBy(w, k), ~Notifies(Head(w), k)
    PROVE  NotifiedBy(Tail(w), k)
<1>1. PICK i \in DOMAIN w : Notifies(w[i], k)
  BY DEF NotifiedBy
<1>2. i \in 1..Len(w) /\ i # 1
  BY <1>1
<1>3. i - 1 \in DOMAIN Tail(w) /\ Tail(w)[i - 1] = w[i]
  BY <1>2
<1>4. QED
  BY <1>1, <1>3 DEF NotifiedBy

\* The empty cache of NewCacheService is coherent
LEMMA InitCoherent == Init => CoherenceInv
<1> SUFFICES ASSUME Init PROVE CoherenceInv
  OBVIOUS
<1>1. StreamInv
  BY DEF Init, StreamInv, Streaming
<1>2. (\A k \in Flags : cache[k] = NoEntry) /\ \A e \in Evals : ev[e].pc = "idle"
  BY DEF Init, Idle
<1>3. \A k \in Flags : EntryInv(k)
  BY <1>2 DEF EntryInv, HoldsOld, Held
<1>4. QED
  BY <1>1, <1>2, <1>3 DEF CoherenceInv, InUse, UnusedCache, AddsStatic

\* The bookkeeping of the stream goroutine is its own business, and nobody but
\* it switches the cache off, when it gives up
LEMMA StreamInvStep ==
    ASSUME TypeOK, StreamInv, [Next]_vars
    PROVE  StreamInv' /\ (InUse => InUse') /\ (cacheEnabled' => cacheEnabled)
<1> USE DEF InUse, StreamInv, Streaming, Leaving, daemonVars, streamVars, callerVars, cacheVars, history
<1>1. CASE UNCHANGED vars
  BY <1>1 DEF vars
<1>2. CASE \E K \in (SUBSET Flags) \ {{}}, t \in Types : DaemonChange(K, t)
  <2>1. PICK K \in SUBSET Flags, t \in Types : DaemonChange(K, t)
    BY <1>2
  <2>2. wire' = wire \/ link = "open"
    BY <2>1 DEF DaemonChange, DaemonSends, Subscribed
  <2>3. UNCHANGED <<link, streamVars, callerVars, cacheVars>>
    BY <2>1 DEF DaemonChange
  <2>4. QED
    BY <2>2, <2>3
<1>3. CASE DaemonNotify
  BY <1>3 DEF DaemonNotify, DaemonSends, Subscribed
<1>4. CASE StreamEnds
  BY <1>4 DEF StreamEnds, Lose
<1>5. CASE InitFails \/ InitReturn \/ Shutdown \/ ShutdownReturns \/ TakeEvent
  BY <1>5 DEF InitFails, InitReturn, Shutdown, ShutdownReturns, TakeEvent, TypeOK
<1>6. CASE InitStarts
  BY <1>6 DEF InitStarts
<1>7. CASE Retry
  BY <1>7 DEF Retry
<1>8. CASE ConnectOk
  BY <1>8 DEF ConnectOk, signalStreamReady
<1>9. CASE ConnectFails
  BY <1>9 DEF ConnectFails
<1>10. CASE HandleConfigurationChange
  <2>1. sp = "receive" /\ UNCHANGED <<link, callerVars, cacheEnabled>>
    BY <1>10 DEF HandleConfigurationChange, Received
  <2>2. \/ UNCHANGED <<sp, todo, out, after>>
        \/ sp' = "remove" /\ UNCHANGED after
    BY <1>10 DEF HandleConfigurationChange
  <2>3. QED
    BY <2>1, <2>2
<1>11. CASE RemoveChanged
  BY <1>11 DEF RemoveChanged, Remove, SendThen
<1>12. CASE HandleReady
  BY <1>12 DEF HandleReady, Received, SendThen
<1>13. CASE HandleShutdownMessage
  BY <1>13 DEF HandleShutdownMessage, Received, Lose
<1>14. CASE HandleKeepAlive
  BY <1>14 DEF HandleKeepAlive, Received
<1>15. CASE StreamError
  BY <1>15 DEF StreamError, Lose, SendThen
<1>16. CASE StreamEof
  BY <1>16 DEF StreamEof
<1>17. CASE SendEvent
  BY <1>17 DEF SendEvent, TypeOK
<1>18. CASE Failed
  BY <1>18 DEF Failed, Purge
<1>19. CASE Backoff
  BY <1>19 DEF Backoff
<1>20. CASE Disable
  BY <1>20 DEF Disable
<1>21. CASE DisablePurge
  BY <1>21 DEF DisablePurge, Purge
<1>22. CASE Exhausted
  BY <1>22 DEF Exhausted, SendThen
<1>23. CASE \E e \in Evals : Evaluation(e)
  BY <1>23, EvaluationFrame
<1>24. QED
  BY <1>1, <1>2, <1>3, <1>4, <1>5, <1>6, <1>7, <1>8, <1>9, <1>10, <1>11, <1>12, <1>13, <1>14, <1>15, <1>16, <1>17, <1>18, <1>19, <1>20, <1>21, <1>22, <1>23
     DEF Next, StreamGoroutine

\* Steps that leave definitions, entries and answers alone preserve EntryInv
\* if notifications are only lost into missed
LEMMA EntryFrame ==
    ASSUME NEW k \in Flags, EntryInv(k),
           UNCHANGED <<cfg, cache, ev, raced>>,
           missed \subseteq missed',
           Pending(k) => Pending(k)' \/ k \in missed'
    PROVE  EntryInv(k)'
BY DEF EntryInv, HoldsOld, Held

\* After a Purge only answers held across it can be old
LEMMA EntryPurge ==
    ASSUME NEW k \in Flags, Purge, UNCHANGED <<cfg, ev>>
    PROVE  EntryInv(k)'
BY DEF EntryInv, Purge, HoldsOld, Held

\* What is lost with the stream is recorded as missed
LEMMA EntryLose ==
    ASSUME NEW k \in Flags, NEW w, EntryInv(k), Lose(w),
           UNCHANGED <<cfg, cache, ev, raced, todo>>
    PROVE  EntryInv(k)'
<1>1. missed \subseteq missed' /\ (Pending(k) => Pending(k)' \/ k \in missed')
  BY DEF Lose, Pending
<1>2. QED
  BY <1>1, EntryFrame

\* A change of a definition is notified or missed
LEMMA EntryDaemonChange ==
    ASSUME TypeOK, NEW K \in SUBSET Flags, NEW t \in Types, DaemonChange(K, t),
           NEW k \in Flags, EntryInv(k)
    PROVE  EntryInv(k)'
<1> DEFINE Msg(d) == [type |-> "configuration_change", data |-> d,
                      flags |-> IF d THEN K ELSE {}]
<1>1. \A d \in BOOLEAN : Msg(d) \in Message /\ (k \in K => Notifies(Msg(d), k))
  BY DEF Message, Notifies
<1>2. NotifiedBy(wire, k) => NotifiedBy(wire', k)
  BY <1>1, NotifiedAppend DEF DaemonChange, DaemonSends, TypeOK
<1>3. k \in K => NotifiedBy(wire', k) \/ k \in missed'
  BY <1>1, NotifiedAppend DEF DaemonChange, DaemonSends, TypeOK
<1>4. /\ missed \subseteq missed' /\ UNCHANGED <<todo, raced, cache, ev>>
      /\ k \notin K => cfg'[k] = cfg[k]
  BY DEF DaemonChange, streamVars, cacheVars
<1>5. CASE k \in K
  BY <1>3, <1>5 DEF EntryInv, Pending, NotifiedBy
<1>6. CASE k \notin K
  BY <1>2, <1>4, <1>6 DEF EntryInv, Pending, HoldsOld, Held, NotifiedBy
<1>7. QED
  BY <1>5, <1>6

\* A received message is taken off the wire: what it announced is acted upon
LEMMA EntryReceive ==
    ASSUME TypeOK, NEW k \in Flags, EntryInv(k),
           wire # <<>>, wire' = Tail(wire), ~Notifies(Head(wire), k),
           UNCHANGED <<cfg, cache, ev, raced, missed, todo>>
    PROVE  EntryInv(k)'
<1>1. Pending(k) => Pending(k)'
  BY NotifiedTail DEF Pending, TypeOK
<1>2. QED
  BY <1>1, EntryFrame

\* handleConfigurationChangeEvent acts on what it takes off the stream
LEMMA EntryHandleChange ==
    ASSUME TypeOK, StreamInv, InUse, HandleConfigurationChange,
           NEW k \in Flags, EntryInv(k)
    PROVE  EntryInv(k)'
<1>1. cacheEnabled /\ todo = {}
  BY DEF HandleConfigurationChange, Received, StreamInv, InUse, Leaving
<1>2. CASE ~Head(wire).data
  BY <1>1, <1>2, EntryPurge DEF HandleConfigurationChange
<1>3. CASE Head(wire).data
  <2>1. /\ wire # <<>> /\ wire' = Tail(wire) /\ todo' = Head(wire).flags
        /\ UNCHANGED <<cfg, cache, ev, raced, missed>>
    BY <1>1, <1>3 DEF HandleConfigurationChange, Received
  <2>2. CASE Notifies(Head(wire), k)
    BY <1>3, <2>1, <2>2 DEF Notifies, EntryInv, Pending
  <2>3. CASE ~Notifies(Head(wire), k)
    <3>1. NotifiedBy(wire, k) => NotifiedBy(wire', k)
      BY <2>1, <2>3, NotifiedTail DEF TypeOK
    <3>2. Pending(k) => Pending(k)'
      BY <1>1, <3>1 DEF Pending, NotifiedBy
    <3>3. QED
      BY <2>1, <3>2, EntryFrame
  <2>4. QED
    BY <2>2, <2>3
<1>4. QED
  BY <1>2, <1>3

\* Removing the changed flags, one after the other
LEMMA EntryRemove ==
    ASSUME TypeOK, RemoveChanged, NEW k \in Flags, EntryInv(k)
    PROVE  EntryInv(k)'
<1>1. UNCHANGED <<cfg, wire, ev>>
  BY DEF RemoveChanged, daemonVars
<1>2. ASSUME NEW f \in todo, Remove(f), todo' = todo \ {f}
      PROVE  EntryInv(k)'
  <2>1. CASE f = k
    <3>1. cache'[k] = NoEntry /\ (HoldsOld(k) => k \in raced')
      BY <1>2, <2>1 DEF Remove, TypeOK
    <3>2. HoldsOld(k)' <=> HoldsOld(k)
      BY <1>1 DEF HoldsOld, Held
    <3>3. QED
      BY <3>1, <3>2 DEF EntryInv
  <2>2. CASE f # k
    <3>1. /\ cache'[k] = cache[k]
          /\ k \in missed => k \in missed'
          /\ k \in raced => k \in raced'
          /\ k \in todo => k \in todo'
      BY <1>2, <2>2 DEF Remove, TypeOK
    <3>2. (HoldsOld(k)' <=> HoldsOld(k)) /\ (NotifiedBy(wire, k) <=> NotifiedBy(wire, k)')
      BY <1>1 DEF HoldsOld, Held, NotifiedBy
    <3>3. cfg'[k] = cfg[k]
      BY <1>1
    <3>4. QED
      BY <3>1, <3>2, <3>3 DEF EntryInv, Pending
  <2>3. QED
    BY <2>1, <2>2
<1>3. ASSUME UNCHANGED <<todo, cache, missed, raced>>
      PROVE  EntryInv(k)'
  BY <1>1, <1>3, EntryFrame DEF Pending, NotifiedBy
<1>4. QED
  BY <1>2, <1>3 DEF RemoveChanged

\* Every step of the stream goroutine keeps the entries excused or current
LEMMA EntryStream ==
    ASSUME TypeOK, StreamInv, InUse, StreamGoroutine,
           NEW k \in Flags, EntryInv(k)
    PROVE  EntryInv(k)'
<1> USE DEF daemonVars, streamVars, callerVars, cacheVars, history
<1> DEFINE Quiet == UNCHANGED <<cfg, cache, ev, raced, missed, todo, wire>>
<1>1. ASSUME Quiet PROVE EntryInv(k)'
  BY <1>1, EntryFrame DEF Pending, NotifiedBy
<1>2. CASE Retry \/ ConnectFails \/ StreamEof \/ SendEvent
  <2>1. Quiet
    BY <1>2 DEF Retry, ConnectFails, StreamEof, SendEvent
  <2>2. QED
    BY <1>1, <2>1
<1>3. CASE Backoff \/ Disable \/ Exhausted
  <2>1. Quiet
    BY <1>3 DEF Backoff, Disable, Exhausted, SendThen
  <2>2. QED
    BY <1>1, <2>1
<1>4. CASE ConnectOk
  <2>1. Quiet
    BY <1>4 DEF ConnectOk, StreamInv, Streaming
  <2>2. QED
    BY <1>1, <2>1
<1>5. CASE HandleConfigurationChange
  BY <1>5, EntryHandleChange
<1>6. CASE RemoveChanged
  BY <1>6, EntryRemove
<1>7. CASE HandleReady \/ HandleKeepAlive
  <2>1. /\ wire # <<>> /\ wire' = Tail(wire)
        /\ Head(wire).type \in {"provider_ready", "keep_alive"}
        /\ UNCHANGED <<cfg, cache, ev, raced, missed, todo>>
    BY <1>7 DEF HandleReady, HandleKeepAlive, Received, SendThen
  <2>2. ~Notifies(Head(wire), k)
    BY <2>1 DEF Notifies
  <2>3. QED
    BY <2>1, <2>2, EntryReceive
<1>8. CASE HandleShutdownMessage \/ StreamError
  <2>1. Lose(<<>>) /\ UNCHANGED <<cfg, cache, ev, raced, todo>>
    BY <1>8 DEF HandleShutdownMessage, StreamError, SendThen
  <2>2. QED
    BY <2>1, EntryLose
<1>9. CASE Failed
  <2>1. CASE cancelled
    <3>1. Quiet
      BY <1>9, <2>1 DEF Failed
    <3>2. QED
      BY <1>1, <3>1
  <2>2. CASE ~cancelled
    <3>1. cacheEnabled
      BY <1>9 DEF Failed, StreamInv, InUse, Leaving
    <3>2. Purge /\ UNCHANGED <<cfg, ev>>
      BY <1>9, <2>2, <3>1 DEF Failed
    <3>3. QED
      BY <3>2, EntryPurge
  <2>3. QED
    BY <2>1, <2>2
<1>10. CASE DisablePurge
  <2>1. Purge /\ UNCHANGED <<cfg, ev>>
    BY <1>10 DEF DisablePurge
  <2>2. QED
    BY <2>1, EntryPurge
<1>11. QED
  BY <1>2, <1>3, <1>4, <1>5, <1>6, <1>7, <1>8, <1>9, <1>10 DEF StreamGoroutine

\* An evaluation step other than CacheAdd holds an old answer only if it held
\* it before: CallAnswered reads the daemon's current definition
LEMMA EntryAnswer ==
    ASSUME TypeOK, NEW e \in Evals, NEW n, NEW k \in Flags, EntryInv(k),
           ev' = [ev EXCEPT ![e] = n],
           UNCHANGED <<daemonVars, streamVars, history, cacheVars>>,
           \/ n.pc \notin {"answered", "add"}
           \/ n.reason = "STATIC" /\ n.key = k => n.got = cfg[k]
           \/ Held(e, k) /\ n.got = ev[e].got
    PROVE  EntryInv(k)'
<1>1. UNCHANGED <<cfg, cache, wire, todo, missed, raced>>
  BY DEF daemonVars, streamVars, cacheVars, history
<1>2. ev'[e] = n /\ \A i \in Evals : i # e => ev'[i] = ev[i]
  BY DEF TypeOK
<1>3. HoldsOld(k)' => HoldsOld(k)
  <2>1. SUFFICES ASSUME NEW i \in Evals, Held(i, k)', ev'[i].got # cfg[k]
                 PROVE  HoldsOld(k)
    BY <1>1 DEF HoldsOld
  <2>2. CASE i # e
    BY <1>2, <2>1, <2>2 DEF HoldsOld, Held
  <2>3. CASE i = e
    BY <1>2, <2>1, <2>3 DEF HoldsOld, Held
  <2>4. QED
    BY <2>2, <2>3
<1>4. cache'[k] = cache[k] /\ cfg'[k] = cfg[k] /\ (Pending(k) <=> Pending(k)')
  BY <1>1 DEF Pending, NotifiedBy
<1>5. QED
  BY <1>1, <1>3, <1>4 DEF EntryInv

\* Adding a STATIC answer to the cache, with eviction
LEMMA EntryAdd ==
    ASSUME TypeOK, NEW e \in Evals, CacheAdd(e), NEW k \in Flags, EntryInv(k),
           ev[e].reason = "STATIC"
    PROVE  EntryInv(k)'
<1> DEFINE r == ev[e]
<1>1. UNCHANGED <<cfg, wire, todo, missed, raced>>
  BY DEF CacheAdd, daemonVars, streamVars, history
<1>2. r.pc = "add" /\ r.key \in Flags /\ ev' = [ev EXCEPT ![e] = Done(r)]
  BY DEF CacheAdd, TypeOK
<1>3. HoldsOld(k)' => HoldsOld(k)
  <2>1. Done(r).pc = "done"
    BY <1>2 DEF Done, TypeOK, EvalRecord
  <2>2. QED
    BY <1>1, <1>2, <2>1 DEF HoldsOld, Held, TypeOK
<1>4. cache'[k] \in {NoEntry, cache[k]} \/ (k = r.key /\ cache'[k] = r.got)
  BY <1>2 DEF CacheAdd, Add, TypeOK
<1>5. k = r.key => r.got = cfg[k] \/ HoldsOld(k)
  BY <1>2 DEF HoldsOld, Held
<1>6. cfg'[k] = cfg[k] /\ (Pending(k) <=> Pending(k)')
  BY <1>1 DEF Pending, NotifiedBy
<1>7. QED
  BY <1>1, <1>3, <1>4, <1>5, <1>6 DEF EntryInv

\* Every other step of an evaluation, as one assignment to its record: it ends
\* the evaluation, takes the daemon's answer, or moves a STATIC answer on
LEMMA EvaluationShape ==
    ASSUME TypeOK, NEW e \in Evals, Evaluation(e), ~CacheAdd(e)
    PROVE  /\ UNCHANGED <<daemonVars, streamVars, history, cacheVars>>
           /\ \E n \in EvalRecord :
                /\ ev' = [ev EXCEPT ![e] = n]
                /\ \/ n.pc \notin {"answered", "add"}
                   \/ /\ n.pc = "answered" /\ n.key = ev[e].key
                      /\ n.reason = "STATIC" => n.got = cfg[n.key]
                   \/ /\ ev[e].pc = "answered" /\ ev[e].reason = "STATIC"
                      /\ cacheEnabled /\ n = [ev[e] EXCEPT !.pc = "add"]
<1> DEFINE r == ev[e]
           Ends(n) == n \in EvalRecord /\ n.pc \notin {"answered", "add"}
           Good == UNCHANGED <<daemonVars, streamVars, history, cacheVars>>
                   /\ \E n \in EvalRecord : ev' = [ev EXCEPT ![e] = n] /\ Ends(n)
<1>0. ev' \in [Evals -> EvalRecord] /\ r \in EvalRecord
  BY EvaluationType DEF TypeOK
<1>1. ASSUME NEW k \in Flags, NEW t \in Types, Resolve(e, k, t) PROVE Good
  <2> DEFINE q == [Idle EXCEPT !.key = k, !.type = t]
             n == IF cacheEnabled THEN [q EXCEPT !.pc = "get"] ELSE CallOrNotReady(q)
  <2>1. ev' = [ev EXCEPT ![e] = n] /\ UNCHANGED <<daemonVars, streamVars, history, cacheVars>>
    BY <1>1 DEF Resolve
  <2>2. n.pc \in {"get", "call", "done"}
    BY DEF CallOrNotReady, Idle
  <2>3. n \in EvalRecord
    BY <1>0, <2>1 DEF TypeOK
  <2>4. QED
    BY <2>1, <2>2, <2>3
<1>2. ASSUME CacheGet(e) PROVE Good
  <2> DEFINE n == IF Hit(cache[r.key], r.type)
                  THEN [r EXCEPT !.pc = "done", !.src = "cached", !.got = cache[r.key]]
                  ELSE CallOrNotReady(r)
  <2>1. ev' = [ev EXCEPT ![e] = n] /\ UNCHANGED <<daemonVars, streamVars, history, cacheVars>>
    BY <1>2 DEF CacheGet
  <2>2. n.pc \in {"call", "done"}
    BY <1>0 DEF CallOrNotReady, EvalRecord
  <2>3. n \in EvalRecord
    BY <1>0, <2>1 DEF TypeOK
  <2>4. QED
    BY <2>1, <2>2, <2>3
<1>3. ASSUME CallFailed(e) PROVE Good
  <2>1. PICK code \in Codes :
            ev' = [ev EXCEPT ![e] = [r EXCEPT !.pc = "done", !.src = handleError(code)]]
    BY <1>3 DEF CallFailed
  <2> DEFINE n == [r EXCEPT !.pc = "done", !.src = handleError(code)]
  <2>2. n.pc = "done" /\ UNCHANGED <<daemonVars, streamVars, history, cacheVars>>
    BY <1>0, <1>3 DEF EvalRecord, CallFailed
  <2>3. n \in EvalRecord
    BY <1>0, <2>1 DEF TypeOK
  <2>4. QED
    BY <2>1, <2>2, <2>3
<1>4. ASSUME Return(e) PROVE Good
  BY <1>4, IdleType DEF Return, Idle
<1>5. CASE CallAnswered(e)
  <2>1. PICK reason \in Reasons :
            ev' = [ev EXCEPT ![e] = [r EXCEPT !.pc = "answered", !.reason = reason,
                                              !.got = IF reason = "FALLBACK" THEN NoEntry
                                                      ELSE cfg[r.key]]]
    BY <1>5 DEF CallAnswered
  <2> DEFINE n == [r EXCEPT !.pc = "answered", !.reason = reason,
                            !.got = IF reason = "FALLBACK" THEN NoEntry ELSE cfg[r.key]]
  <2>2. /\ n.pc = "answered" /\ n.key = r.key
        /\ n.reason = "STATIC" => n.got = cfg[n.key]
    BY <1>0 DEF EvalRecord
  <2>3. n \in EvalRecord
    BY <1>0, <2>1 DEF TypeOK
  <2>4. UNCHANGED <<daemonVars, streamVars, history, cacheVars>>
    BY <1>5 DEF CallAnswered
  <2>5. QED
    BY <2>1, <2>2, <2>3, <2>4
<1>6. CASE StoreCheck(e)
  <2> DEFINE n == IF cacheEnabled /\ r.reason = "STATIC"
                  THEN [r EXCEPT !.pc = "add"] ELSE Done(r)
  <2>1. /\ ev' = [ev EXCEPT ![e] = n] /\ r.pc = "answered"
        /\ UNCHANGED <<daemonVars, streamVars, history, cacheVars>>
    BY <1>6 DEF StoreCheck
  <2>2. n \in EvalRecord
    BY <1>0, <2>1 DEF TypeOK
  <2>3. CASE cacheEnabled /\ r.reason = "STATIC"
    BY <2>1, <2>2, <2>3
  <2>4. CASE ~(cacheEnabled /\ r.reason = "STATIC")
    <3>1. n.pc = "done"
      BY <1>0, <2>4 DEF Done, EvalRecord
    <3>2. QED
      BY <2>1, <2>2, <3>1
  <2>5. QED
    BY <2>3, <2>4
<1>7. QED
  BY <1>1, <1>2, <1>3, <1>4, <1>5, <1>6
     DEF Evaluation, ResolveBoolean, ResolveString, ResolveFloat, ResolveInt, ResolveObject, Resolve

\* Every step of an evaluation preserves coherence
LEMMA EvaluationCoherent ==
    ASSUME TypeOK, CoherenceInv, NEW e \in Evals, Evaluation(e)
    PROVE  /\ AddsStatic'
           /\ (\A k \in Flags : EntryInv(k)) => \A k \in Flags : EntryInv(k)'
           /\ ~cacheEnabled /\ UnusedCache => UnusedCache'
<1>1. CASE CacheAdd(e)
  <2>1. ev[e].pc = "add" /\ ev[e].reason = "STATIC"
    BY <1>1 DEF CacheAdd, CoherenceInv, AddsStatic
  <2>2. ~UnusedCache
    BY <2>1 DEF UnusedCache
  <2>3. Done(ev[e]).pc = "done"
    BY DEF Done, TypeOK, EvalRecord
  <2>4. AddsStatic'
    BY <1>1, <2>3 DEF CacheAdd, CoherenceInv, AddsStatic, TypeOK
  <2>5. QED
    BY <1>1, <2>1, <2>2, <2>4, EntryAdd
<1>2. CASE ~CacheAdd(e)
  <2>1. PICK n \in EvalRecord :
          /\ ev' = [ev EXCEPT ![e] = n]
          /\ \/ n.pc \notin {"answered", "add"}
             \/ /\ n.pc = "answered" /\ n.key = ev[e].key
                /\ n.reason = "STATIC" => n.got = cfg[n.key]
             \/ /\ ev[e].pc = "answered" /\ ev[e].reason = "STATIC"
                /\ cacheEnabled /\ n = [ev[e] EXCEPT !.pc = "add"]
    BY <1>2, EvaluationShape
  <2>2. UNCHANGED <<daemonVars, streamVars, history, cacheVars>>
    BY <1>2, EvaluationShape
  <2>3. ev[e] \in EvalRecord /\ \A i \in Evals : ev'[i] = IF i = e THEN n ELSE ev[i]
    BY <2>1 DEF TypeOK
  <2>4. AddsStatic'
    <3>1. n.pc = "add" => n.reason = "STATIC"
      BY <2>1, <2>3 DEF EvalRecord
    <3>2. QED
      BY <2>3, <3>1 DEF CoherenceInv, AddsStatic
  <2>5. ASSUME NEW k \in Flags, EntryInv(k) PROVE EntryInv(k)'
    <3>1. \/ n.pc \notin {"answered", "add"}
          \/ n.reason = "STATIC" /\ n.key = k => n.got = cfg[k]
          \/ Held(e, k) /\ n.got = ev[e].got
      BY <2>1, <2>3 DEF Held, EvalRecord
    <3>2. QED
      BY <2>1, <2>2, <2>5, <3>1, EntryAnswer
  <2>6. ASSUME ~cacheEnabled, UnusedCache PROVE UnusedCache'
    <3>1. n.pc # "add"
      BY <2>1, <2>6
    <3>2. QED
      BY <2>2, <2>3, <2>6, <3>1 DEF UnusedCache, cacheVars
  <2>7. QED
    BY <2>4, <2>5, <2>6
<1>3. QED
  BY <1>1, <1>2

\* The evaluations do not move in any other step
LEMMA OthersKeepEvaluations ==
    ASSUME [Next]_vars, ~\E e \in Evals : Evaluation(e)
    PROVE  UNCHANGED ev
<1> USE DEF vars
<1>1. CASE UNCHANGED vars
  BY <1>1
<1>2. CASE \E K \in (SUBSET Flags) \ {{}}, t \in Types : DaemonChange(K, t)
  BY <1>2 DEF DaemonChange
<1>3. CASE DaemonNotify \/ StreamEnds \/ InitFails \/ InitStarts \/ InitReturn
             \/ Shutdown \/ ShutdownReturns \/ TakeEvent
  BY <1>3 DEF DaemonNotify, StreamEnds, InitFails, InitStarts, InitReturn,
              Shutdown, ShutdownReturns, TakeEvent
<1>4. CASE StreamGoroutine
  BY <1>4 DEF StreamGoroutine, Retry, ConnectOk, ConnectFails, HandleConfigurationChange,
              RemoveChanged, HandleReady, HandleShutdownMessage, HandleKeepAlive,
              StreamError, StreamEof, SendEvent, Failed, Backoff, Disable,
              DisablePurge, Exhausted
<1>5. QED
  BY <1>1, <1>2, <1>3, <1>4 DEF Next

\* Without a cache the other steps leave the entries empty
LEMMA OthersKeepEmpty ==
    ASSUME TypeOK, [Next]_vars, ~\E e \in Evals : Evaluation(e),
           \A k \in Flags : cache[k] = NoEntry
    PROVE  \A k \in Flags : cache'[k] = NoEntry
<1> USE DEF vars, cacheVars
<1>1. CASE UNCHANGED cache
  BY <1>1
<1>2. CASE Purge
  BY <1>2 DEF Purge
<1>3. CASE \E k \in todo : Remove(k)
  BY <1>3 DEF Remove, TypeOK
<1>4. CASE UNCHANGED vars
  BY <1>4
<1>5. CASE \E K \in (SUBSET Flags) \ {{}}, t \in Types : DaemonChange(K, t)
  BY <1>5 DEF DaemonChange
<1>6. CASE DaemonNotify \/ StreamEnds \/ InitFails \/ InitStarts \/ InitReturn
             \/ Shutdown \/ ShutdownReturns \/ TakeEvent
  BY <1>6 DEF DaemonNotify, StreamEnds, InitFails, InitStarts, InitReturn,
              Shutdown, ShutdownReturns, TakeEvent
<1>7. CASE StreamGoroutine
  BY <1>1, <1>2, <1>3, <1>7
     DEF StreamGoroutine, Retry, ConnectOk, ConnectFails, HandleConfigurationChange,
         RemoveChanged, HandleReady, HandleShutdownMessage, HandleKeepAlive,
         StreamError, StreamEof, SendEvent, Failed, Backoff, Disable,
         DisablePurge, Exhausted
<1>8. QED
  BY <1>4, <1>5, <1>6, <1>7 DEF Next

\* Every step preserves the inductive invariant
LEMMA CoherenceStep == TypeOK /\ CoherenceInv /\ [Next]_vars => CoherenceInv'
<1> SUFFICES ASSUME TypeOK, CoherenceInv, [Next]_vars PROVE CoherenceInv'
  OBVIOUS
<1>1. StreamInv' /\ (InUse => InUse') /\ (cacheEnabled' => cacheEnabled)
  BY StreamInvStep DEF CoherenceInv
<1> DEFINE Entries == \A k \in Flags : EntryInv(k)
<1>2. CASE \E e \in Evals : Evaluation(e)
  <2>1. AddsStatic' /\ (Entries => Entries') /\ ((~cacheEnabled /\ UnusedCache) => UnusedCache')
    BY <1>2, EvaluationCoherent
  <2> HIDE DEF Entries
  <2>2. (InUse /\ Entries) \/ (~cacheEnabled /\ UnusedCache)
    BY DEF CoherenceInv, Entries
  <2>3. (InUse' /\ Entries') \/ (~cacheEnabled' /\ UnusedCache')
    BY <1>1, <2>1, <2>2
  <2>4. QED
    BY <1>1, <2>1, <2>3 DEF CoherenceInv, Entries
<1>3. CASE ~\E e \in Evals : Evaluation(e)
  <2>1. UNCHANGED ev
    BY <1>3, OthersKeepEvaluations
  <2>2. AddsStatic'
    BY <2>1 DEF CoherenceInv, AddsStatic
  <2>3. UnusedCache => UnusedCache'
    BY <1>3, <2>1, OthersKeepEmpty DEF UnusedCache
  <2>4. ASSUME InUse, NEW k \in Flags, EntryInv(k) PROVE EntryInv(k)'
    <3>1. EntryInv(k) /\ StreamInv
      BY <2>4 DEF CoherenceInv
    <3>2. CASE UNCHANGED vars
      BY <3>1, <3>2, EntryFrame
         DEF vars, daemonVars, streamVars, cacheVars, history, Pending, NotifiedBy
    <3>3. CASE \E K \in (SUBSET Flags) \ {{}}, t \in Types : DaemonChange(K, t)
      BY <3>1, <3>3, EntryDaemonChange
    <3>4. CASE DaemonNotify
      <4>1. NotifiedBy(wire, k) => NotifiedBy(wire', k)
        BY <3>4, NotifiedAppend DEF DaemonNotify, DaemonSends, TypeOK, Message
      <4>2. UNCHANGED <<cfg, cache, ev, raced, missed, todo>>
        BY <3>4 DEF DaemonNotify, streamVars, cacheVars, history
      <4>3. Pending(k) => Pending(k)'
        BY <4>1, <4>2 DEF Pending, NotifiedBy
      <4>4. QED
        BY <3>1, <4>2, <4>3, EntryFrame
    <3>5. CASE StreamEnds
      <4>1. UNCHANGED <<cfg, cache, ev, raced, todo>> /\ \E w : Lose(w)
        BY <3>5 DEF StreamEnds, streamVars, cacheVars
      <4>2. QED
        BY <3>1, <4>1, EntryLose
    <3>6. CASE InitFails \/ InitStarts \/ InitReturn \/ Shutdown
                 \/ ShutdownReturns \/ TakeEvent
      <4>1. UNCHANGED <<cfg, cache, ev, raced, missed, todo, wire>>
        BY <3>6 DEF InitFails, InitStarts, InitReturn, Shutdown, ShutdownReturns,
                    TakeEvent, daemonVars, streamVars, cacheVars, history
      <4>2. QED
        BY <3>1, <4>1, EntryFrame DEF Pending, NotifiedBy
    <3>7. CASE StreamGoroutine
      BY <2>4, <3>1, <3>7, EntryStream
    <3>8. QED
      BY <1>3, <3>2, <3>3, <3>4, <3>5, <3>6, <3>7 DEF Next
  <2>5. CASE InUse /\ Entries
    BY <1>1, <2>2, <2>4, <2>5 DEF CoherenceInv
  <2>6. CASE ~cacheEnabled /\ UnusedCache
    BY <1>1, <2>2, <2>3, <2>6 DEF CoherenceInv
  <2>7. QED
    BY <2>5, <2>6 DEF CoherenceInv
<1>4. QED
  BY <1>2, <1>3

\* The inductive invariant holds in every reachable state of startEventStream,
\* the resolvers and the cache together.
THEOREM CoherenceInvariant == Spec => []CoherenceInv
BY InitCoherent, CoherenceStep, TypeInvariant, PTL DEF Spec

\* An entry of the flagd RPC cache differs from the daemon's definition only
\* while its notification is on the way, or after a change no stream reported,
\* or after an evaluation carried an older answer past the invalidation: for
\* any number of flags, evaluations, versions and attempts.
THEOREM CacheCoherence == Spec => []CacheCoherent
<1>1. CoherenceInv => CacheCoherent
  BY DEF CoherenceInv, CacheCoherent, EntryInv, UnusedCache
<1>2. QED
  BY <1>1, CoherenceInvariant, PTL

-----------------------------------------------------------------------------
(***************************************************************************)
(* The verdict of Init.  InitVerdict speaks of Init's result; it is        *)
(* inductive together with the verdict that still waits in streamReady:    *)
(* a nil was put there by a connection, an error by a goroutine that will  *)
(* not connect again.                                                      *)
(***************************************************************************)

\* The goroutine has ended or only has to report that it gave up
Gone == sp = "finished" \/ (sp = "send" /\ after = "finished")

VerdictInv ==
    /\ streamReady = "nil" \/ init = "nil" => signaled
    /\ streamReady = "err" => Gone
    /\ init = "err" => sp = "off" \/ Gone
    /\ init = "no" => sp = "off"
    /\ sp = "off" => init \in {"no", "err"}

\* NewService has given no verdict
LEMMA InitGivesNoVerdict == Init => VerdictInv
BY DEF Init, VerdictInv, Gone

\* No step gives a verdict that the stream goroutine does not keep
LEMMA VerdictStep == TypeOK /\ VerdictInv /\ [Next]_vars => VerdictInv'
<1> SUFFICES ASSUME TypeOK, VerdictInv, [Next]_vars PROVE VerdictInv'
  OBVIOUS
<1> USE DEF VerdictInv, Gone, daemonVars, streamVars, callerVars, cacheVars, history
<1>1. CASE UNCHANGED vars
  BY <1>1 DEF vars
<1>2. ASSUME UNCHANGED <<sp, after, signaled, streamReady, init>> PROVE VerdictInv'
  BY <1>2
<1>3. CASE \E K \in (SUBSET Flags) \ {{}}, t \in Types : DaemonChange(K, t)
  BY <1>2, <1>3 DEF DaemonChange
<1>4. CASE DaemonNotify \/ StreamEnds \/ Shutdown \/ ShutdownReturns \/ TakeEvent
  BY <1>2, <1>4 DEF DaemonNotify, StreamEnds, Shutdown, ShutdownReturns, TakeEvent
<1>5. CASE \E e \in Evals : Evaluation(e)
  BY <1>2, <1>5, EvaluationFrame
<1>6. CASE InitFails \/ InitStarts
  BY <1>6 DEF InitFails, InitStarts
<1>7. CASE InitReturn
  BY <1>7 DEF InitReturn, TypeOK
<1>8. CASE Retry \/ ConnectFails \/ Disable \/ DisablePurge
  BY <1>8 DEF Retry, ConnectFails, Disable, DisablePurge
<1>9. CASE ConnectOk
  <2>1. sp = "connect" /\ sp' = "receive" /\ signaled' = TRUE /\ init' = init
    BY <1>9 DEF ConnectOk
  <2>2. streamReady' \in {streamReady, "nil"}
    BY <1>9 DEF ConnectOk, signalStreamReady
  <2>3. QED
    BY <2>1, <2>2
<1>10. CASE HandleConfigurationChange
  <2>1. /\ sp = "receive" /\ UNCHANGED <<after, signaled, streamReady, init>>
        /\ sp' \in {"receive", "remove"}
    BY <1>10 DEF HandleConfigurationChange, Received
  <2>2. QED
    BY <2>1
<1>11. CASE RemoveChanged
  BY <1>11 DEF RemoveChanged, SendThen
<1>12. CASE HandleReady \/ HandleShutdownMessage \/ HandleKeepAlive
  BY <1>12 DEF HandleReady, HandleShutdownMessage, HandleKeepAlive, Received, SendThen
<1>13. CASE StreamError \/ StreamEof
  BY <1>13 DEF StreamError, StreamEof, SendThen
<1>14. CASE SendEvent
  BY <1>14 DEF SendEvent, TypeOK
<1>15. CASE Failed \/ Backoff \/ Exhausted
  <2>1. /\ sp \in {"failed", "backoff", "exhausted"} /\ UNCHANGED <<signaled, init>>
        /\ sp' # "off"
    BY <1>15 DEF Failed, Backoff, Exhausted, SendThen
  <2>2. \/ UNCHANGED streamReady
        \/ Gone' /\ SignalFailure
    BY <1>15 DEF Failed, Backoff, Exhausted, SendThen
  <2>3. streamReady' = streamReady \/ (Gone' /\ streamReady' = "err")
    BY <2>2 DEF SignalFailure, signalStreamReady
  <2>4. QED
    BY <2>1, <2>3
<1>16. QED
  BY <1>1, <1>3, <1>4, <1>5, <1>6, <1>7, <1>8, <1>9, <1>10, <1>11, <1>12, <1>13, <1>14, <1>15
     DEF Next, StreamGoroutine

\* After Init returned nil the stream had been established, and after an error
\* no goroutine is left that would connect again, whatever the interleaving of
\* Init, Shutdown and startEventStream and for every number of attempts.
THEOREM InitVerdictKept == Spec => []InitVerdict
<1>1. VerdictInv => InitVerdict
  BY DEF VerdictInv, InitVerdict, Gone
<1>2. QED
  BY <1>1, TypeInvariant, InitGivesNoVerdict, VerdictStep, PTL DEF Spec
=============================================================================
