------------------------ MODULE DataCollectorProofs ------------------------
(* Proofs about DataCollector, for any set of events and any buffer size. *)
EXTENDS DataCollector, TLAPS

\* What the buffer holds after a flush ...
LEMMA EmptyBatch == \A x : ~InBatch(x, <<>>)
BY DEF InBatch

\* ... after the flush of AddEvent ...
LEMMA OneBatch == \A x, e : InBatch(x, <<e>>) <=> x = e
BY DEF InBatch

\* ... and after AddEvent appended to it
LEMMA AppendBatch ==
    ASSUME NEW b \in Seq(Events), NEW e \in Events, NEW x
    PROVE  InBatch(x, Append(b, e)) <=> InBatch(x, b) \/ x = e
<1>1. /\ DOMAIN Append(b, e) = 1..(Len(b) + 1) /\ DOMAIN b = 1..Len(b)
      /\ Len(b) \in Nat
      /\ \A i \in 1..Len(b) : Append(b, e)[i] = b[i]
      /\ Append(b, e)[Len(b) + 1] = e
  OBVIOUS
<1>2. ASSUME InBatch(x, Append(b, e)) PROVE InBatch(x, b) \/ x = e
  <2>1. PICK i \in 1..(Len(b) + 1) : Append(b, e)[i] = x
    BY <1>1, <1>2 DEF InBatch
  <2>2. CASE i = Len(b) + 1
    BY <2>1, <2>2, <1>1
  <2>3. CASE i # Len(b) + 1
    <3>1. i \in 1..Len(b)
      BY <2>3, <1>1
    <3> QED
      BY <3>1, <2>1, <1>1 DEF InBatch
  <2> QED
    BY <2>2, <2>3
<1>3. ASSUME InBatch(x, b) PROVE InBatch(x, Append(b, e))
  <2>1. PICK i \in 1..Len(b) : b[i] = x
    BY <1>1, <1>3 DEF InBatch
  <2>2. i \in 1..(Len(b) + 1)
    BY <1>1
  <2> QED
    BY <2>1, <2>2, <1>1 DEF InBatch
<1>4. InBatch(e, Append(b, e))
  <2>1. Len(b) + 1 \in 1..(Len(b) + 1)
    BY <1>1
  <2> QED
    BY <2>1, <1>1 DEF InBatch
<1> QED
  BY <1>2, <1>3, <1>4

-----------------------------------------------------------------------------
(* Type correctness *)

\* NewDataCollectorManager starts well typed
LEMMA InitType == Init => TypeOK
<1> SUFFICES ASSUME Init PROVE TypeOK
  OBVIOUS
<1>1. copySend \in [Senders -> Seq(Events)] /\ buffer \in Seq(Events)
  BY DEF Init
<1>2. /\ delivered \in [Events -> Nat] /\ failures \in Nat /\ idleStops \in Nat
      /\ starts \in 0 .. MaxStarts /\ waits \in 0 .. MaxStarts
  BY BoundsAssumption DEF Init
<1>3. ap \in [Events -> {"new", "sending", "accepted", "rejected", "skipped"}]
  BY DEF Init
<1>4. ticking \in [Collectors -> BOOLEAN] /\ tick \in [Collectors -> BOOLEAN]
  BY DEF Init
<1>5. disabled \in BOOLEAN /\ token \in BOOLEAN /\ overlapped \in BOOLEAN /\ panicked \in BOOLEAN
  BY DEF Init
<1>6. /\ cp \in [Collectors -> {"off", "begin", "select", "lock", "sending", "done"}]
      /\ closes \in [Collectors -> 0 .. MaxStarts] /\ closed \subseteq 0 .. MaxStarts
  BY BoundsAssumption DEF Init
<1> QED
  BY <1>1, <1>2, <1>3, <1>4, <1>5, <1>6 DEF Init, TypeOK

\* A request keeps the types of what it touches
LEMMA SendType ==
    ASSUME TypeOK, NEW s \in Senders
    PROVE  /\ BeginSend(s) => /\ mutex' \in Senders \cup {NoOne}
                              /\ copySend' \in [Senders -> Seq(Events)]
                              /\ buffer' \in Seq(Events)
                              /\ delivered' \in [Events -> Nat] /\ failures' \in Nat
           /\ EndSend(s) => /\ mutex' \in Senders \cup {NoOne}
                            /\ copySend' \in [Senders -> Seq(Events)]
           /\ \A b : Deliver(b) => delivered' \in [Events -> Nat]
           /\ \A rest \in Seq(Events) :
                Sent(s, rest) => /\ buffer' \in Seq(Events) /\ failures' \in Nat
                                 /\ delivered' \in [Events -> Nat]
           /\ SendFailed(s) => /\ buffer' \in Seq(Events) /\ failures' \in Nat
                               /\ delivered' \in [Events -> Nat]
<1>1. BeginSend(s) => /\ mutex' \in Senders \cup {NoOne}
                      /\ copySend' \in [Senders -> Seq(Events)]
                      /\ buffer' \in Seq(Events)
                      /\ delivered' \in [Events -> Nat] /\ failures' \in Nat
  BY DEF BeginSend, TypeOK
<1>2. EndSend(s) => /\ mutex' \in Senders \cup {NoOne}
                    /\ copySend' \in [Senders -> Seq(Events)]
  BY DEF EndSend, TypeOK
<1>3. \A b : Deliver(b) => delivered' \in [Events -> Nat]
  BY DEF Deliver, TypeOK
<1>4. ASSUME NEW rest \in Seq(Events), Sent(s, rest)
      PROVE  /\ buffer' \in Seq(Events) /\ failures' \in Nat
             /\ delivered' \in [Events -> Nat]
  BY <1>3, <1>4 DEF Sent, TypeOK
<1>5. SendFailed(s) => /\ buffer' \in Seq(Events) /\ failures' \in Nat
                       /\ delivered' \in [Events -> Nat]
  BY <1>3 DEF SendFailed, TypeOK
<1> QED
  BY <1>1, <1>2, <1>3, <1>4, <1>5

\* The goroutines and Stop are senders beside the events
LEMMA SenderKinds ==
    /\ \A e \in Events : e \in Senders /\ e \notin Collectors /\ e # Stopper /\ e # NoOne
    /\ \A c \in Collectors : c \in Senders /\ c \notin Events /\ c # Stopper /\ c # NoOne
    /\ Stopper \in Senders /\ Stopper # NoOne
BY SendersAssumption, BoundsAssumption DEF Senders, Stopper, Collectors

\* Steps of AddEvent keep the types
LEMMA AddingType ==
    ASSUME TypeOK, NEW e \in Events, Adding(e)
    PROVE  TypeOK'
<1> USE DEF sendVars, tickVars, goVars, stopVars, startVars
<1>0. e \in Senders
  BY SenderKinds
<1>1. CASE AddEvent(e)
  <2>2. CASE Len(buffer) >= Max /\ BeginSend(e) /\ ap' = [ap EXCEPT ![e] = "sending"]
    BY <1>0, <1>1, <2>2, SendType DEF AddEvent, TypeOK
  <2>3. CASE /\ buffer' = Append(buffer, e)
             /\ ap' = [ap EXCEPT ![e] = "accepted"]
             /\ UNCHANGED <<mutex, copySend, delivered, failures>>
    BY <1>1, <2>3 DEF AddEvent, TypeOK
  <2> QED
    BY <1>1, <2>2, <2>3 DEF AddEvent
<1>2. CASE AddEventFlushed(e)
  <2>1. <<e>> \in Seq(Events)
    OBVIOUS
  <2>2. ap' \in [Events -> {"new", "sending", "accepted", "rejected", "skipped"}]
    BY <1>2 DEF AddEventFlushed, TypeOK
  <2> QED
    BY <1>0, <1>2, <2>1, <2>2, SendType DEF AddEventFlushed, TypeOK
<1>3. CASE Skip(e)
  BY <1>3 DEF Skip, TypeOK
<1> QED
  BY <1>1, <1>2, <1>3 DEF Adding, Track, After, Error

\* Steps of a goroutine and of its ticker keep the types
LEMMA CollectorType ==
    ASSUME TypeOK, NEW c \in Collectors, TickerFires(c) \/ Collector(c)
    PROVE  TypeOK'
<1> USE DEF sendVars, tickVars, goVars, stopVars, startVars
<1>0. c \in Senders /\ <<>> \in Seq(Events)
  BY SenderKinds
<1>1. CASE TickerFires(c)
  <2>1. tick' \in [Collectors -> BOOLEAN]
    BY <1>1 DEF TickerFires, TypeOK
  <2> QED
    BY <1>1, <2>1 DEF TickerFires, TypeOK
<1>2. CASE CollectorBegins(c)
  <2>1. /\ cp' \in [Collectors -> {"off", "begin", "select", "lock", "sending", "done"}]
        /\ closes' \in [Collectors -> 0 .. MaxStarts]
    BY <1>2 DEF CollectorBegins, TypeOK
  <2> QED
    BY <1>2, <2>1 DEF CollectorBegins, TypeOK
<1>3. CASE CollectorTicks(c)
  <2>1. tick' \in [Collectors -> BOOLEAN]
    BY <1>3 DEF CollectorTicks, TypeOK
  <2>2. cp' \in [Collectors -> {"off", "begin", "select", "lock", "sending", "done"}]
    BY <1>3 DEF CollectorTicks, TypeOK
  <2> QED
    BY <1>3, <2>1, <2>2 DEF CollectorTicks, TypeOK
<1>4. CASE CollectorEnds(c)
  <2>0. panicked' \in BOOLEAN
    BY <1>4 DEF CollectorEnds
  <2>1. token' \in BOOLEAN
    BY <1>4 DEF CollectorEnds
  <2>2. closed' \subseteq 0 .. MaxStarts
    BY <1>4 DEF CollectorEnds, TypeOK
  <2>3. cp' \in [Collectors -> {"off", "begin", "select", "lock", "sending", "done"}]
    BY <1>4 DEF CollectorEnds, TypeOK
  <2> QED
    BY <1>4, <2>0, <2>1, <2>2, <2>3 DEF CollectorEnds, TypeOK
<1>5. CASE CollectorSends(c)
  <2>1. cp' \in [Collectors -> {"off", "begin", "select", "lock", "sending", "done"}]
    BY <1>5 DEF CollectorSends, TypeOK
  <2> QED
    BY <1>0, <1>5, <2>1, SendType DEF CollectorSends, TypeOK
<1>6. CASE CollectorSent(c)
  <2>1. cp' \in [Collectors -> {"off", "begin", "select", "lock", "sending", "done"}]
    BY <1>6 DEF CollectorSent, TypeOK
  <2> QED
    BY <1>0, <1>6, <2>1, SendType DEF CollectorSent, TypeOK
<1> QED
  BY <1>1, <1>2, <1>3, <1>4, <1>5, <1>6 DEF Collector

\* Start and the steps of Stop keep the types
LEMMA LifeType ==
    ASSUME TypeOK, Start \/ Stop \/ Stopping
    PROVE  TypeOK'
<1> USE DEF sendVars, tickVars, goVars, stopVars, startVars
<1>1. CASE Start
  <2>1. starts' \in 0 .. MaxStarts
    BY <1>1, BoundsAssumption DEF Start, TypeOK
  <2>2. overlapped' \in BOOLEAN
    BY <1>1 DEF Start
  <2>3. ticking' \in [Collectors -> BOOLEAN]
    BY <1>1 DEF Start, TypeOK
  <2>4. cp' \in [Collectors -> {"off", "begin", "select", "lock", "sending", "done"}]
    BY <1>1 DEF Start, TypeOK
  <2> QED
    BY <1>1, <2>1, <2>2, <2>3, <2>4 DEF Start, TypeOK
<1>2. CASE Stop
  <2>1. idleStops' \in Nat
    BY <1>2 DEF Stop, TypeOK
  <2>2. token' \in BOOLEAN
    BY <1>2 DEF Stop
  <2> QED
    BY <1>2, <2>1, <2>2 DEF Stop, TypeOK
<1>3. CASE StopTicker
  <2>1. ticking' \in [Collectors -> BOOLEAN]
    BY <1>3 DEF StopTicker, TypeOK
  <2> QED
    BY <1>3, <2>1 DEF StopTicker, TypeOK
<1>4. CASE StopLooks \/ StopWaits
  BY <1>4 DEF StopLooks, StopWaits, TypeOK
<1>5. CASE StopSends
  BY <1>5, SenderKinds, SendType DEF StopSends, TypeOK
<1>6. CASE StopSent
  <2>1. <<>> \in Seq(Events)
    OBVIOUS
  <2> QED
    BY <1>6, <2>1, SenderKinds, SendType DEF StopSent, TypeOK
<1> QED
  BY <1>1, <1>2, <1>3, <1>4, <1>5, <1>6 DEF Stopping

\* Every step keeps the types
LEMMA TypeStep == TypeOK /\ [Next]_vars => TypeOK'
<1> SUFFICES ASSUME TypeOK, [Next]_vars PROVE TypeOK'
  OBVIOUS
<1>1. CASE UNCHANGED vars
  BY <1>1 DEF vars, sendVars, tickVars, goVars, stopVars, startVars, TypeOK
<1> QED
  BY <1>1, AddingType, CollectorType, LifeType DEF Next

\* Every reachable state of the collector is well typed, whatever the order of
\* AddEvent, ticks, failed requests, Start and Stop.
THEOREM TypeInvariant == Spec => []TypeOK
<1> QED
  BY InitType, TypeStep, PTL DEF Spec

-----------------------------------------------------------------------------
(* No loss, no unexplained duplicate, a bounded buffer *)

\* The part of CollectInv about events and their delivery
DeliveryInv == RetryInv /\ Bounded /\ NothingLost /\ DuplicatesOnlyByFailure

\* Under the mutex a request delivers exactly the buffer
LEMMA DeliversBuffer ==
    ASSUME TypeOK, CollectInv, NEW s \in Senders, mutex = s, Deliver(copySend[s])
    PROVE  \A x \in Events : /\ InBatch(x, buffer) => delivered'[x] = delivered[x] + 1
                             /\ ~InBatch(x, buffer) => delivered'[x] = delivered[x]
<1>1. copySend[s] = buffer
  BY DEF CollectInv, SendingInv
<1> QED
  BY <1>1 DEF Deliver, TypeOK

\* A request that succeeds empties the buffer: what it held is delivered
LEMMA SentInv ==
    ASSUME TypeOK, CollectInv, NEW s \in Senders, mutex = s, Sent(s, <<>>), ap' = ap
    PROVE  DeliveryInv'
<1>1. \A x \in Events : /\ InBatch(x, buffer) => delivered'[x] = delivered[x] + 1
                        /\ ~InBatch(x, buffer) => delivered'[x] = delivered[x]
  BY DeliversBuffer DEF Sent
<1>2. \A x : ~InBatch(x, buffer')
  BY EmptyBatch DEF Sent
<1>3. buffer' = <<>> /\ failures' = failures
  BY DEF Sent
<1>4. RetryInv'
  BY <1>2 DEF RetryInv
<1>5. Bounded'
  BY <1>3, BoundsAssumption DEF Bounded
<1>6. NothingLost'
  <2> SUFFICES ASSUME NEW x \in Events
               PROVE  /\ ap'[x] = "accepted" => InBatch(x, buffer') \/ delivered'[x] > 0
                      /\ ap'[x] # "accepted" => ~InBatch(x, buffer') /\ delivered'[x] = 0
    BY DEF NothingLost
  <2>1. /\ ap[x] = "accepted" => InBatch(x, buffer) \/ delivered[x] > 0
        /\ ap[x] # "accepted" => ~InBatch(x, buffer) /\ delivered[x] = 0
    BY DEF NothingLost, CollectInv
  <2>2. delivered[x] \in Nat
    BY DEF TypeOK
  <2> QED
    BY <1>1, <1>2, <2>1, <2>2
<1>7. DuplicatesOnlyByFailure'
  <2> SUFFICES ASSUME NEW x \in Events PROVE delivered'[x] <= failures + 1
    BY <1>3 DEF DuplicatesOnlyByFailure
  <2>1. CASE InBatch(x, buffer)
    BY <2>1, <1>1 DEF CollectInv, RetryInv, TypeOK
  <2>2. CASE ~InBatch(x, buffer)
    BY <2>2, <1>1 DEF CollectInv, DuplicatesOnlyByFailure
  <2> QED
    BY <2>1, <2>2
<1> QED
  BY <1>4, <1>5, <1>6, <1>7 DEF DeliveryInv

\* A request that fails keeps the buffer, delivered or not
LEMMA FailedInv ==
    ASSUME TypeOK, CollectInv, NEW s \in Senders, mutex = s, SendFailed(s),
           \A x \in Events : ap'[x] = "accepted" <=> ap[x] = "accepted"
    PROVE  DeliveryInv'
<1>1. buffer' = buffer /\ failures' = failures + 1
  BY DEF SendFailed
<1>2. \A x \in Events : /\ delivered'[x] = delivered[x] \/ delivered'[x] = delivered[x] + 1
                        /\ ~InBatch(x, buffer) => delivered'[x] = delivered[x]
  <2>1. CASE Deliver(copySend[s])
    BY <2>1, DeliversBuffer
  <2>2. CASE UNCHANGED delivered
    BY <2>2
  <2> QED
    BY <2>1, <2>2 DEF SendFailed
<1>3. \A x \in Events : delivered[x] \in Nat /\ failures \in Nat
  BY DEF TypeOK
<1>4. \A x : InBatch(x, buffer') <=> InBatch(x, buffer)
  BY <1>1
<1>5. RetryInv'
  BY <1>1, <1>2, <1>3, <1>4 DEF RetryInv, CollectInv
<1>6. Bounded'
  BY <1>1 DEF Bounded, CollectInv
<1>7. NothingLost'
  <2> SUFFICES ASSUME NEW x \in Events
               PROVE  /\ ap'[x] = "accepted" => InBatch(x, buffer') \/ delivered'[x] > 0
                      /\ ap'[x] # "accepted" => ~InBatch(x, buffer') /\ delivered'[x] = 0
    BY DEF NothingLost
  <2>1. /\ ap[x] = "accepted" => InBatch(x, buffer) \/ delivered[x] > 0
        /\ ap[x] # "accepted" => ~InBatch(x, buffer) /\ delivered[x] = 0
    BY DEF NothingLost, CollectInv
  <2> QED
    BY <1>2, <1>3, <1>4, <2>1
<1>8. DuplicatesOnlyByFailure'
  BY <1>1, <1>2, <1>3 DEF DuplicatesOnlyByFailure, CollectInv
<1> QED
  BY <1>5, <1>6, <1>7, <1>8 DEF DeliveryInv

\* The flush inside AddEvent succeeds: the buffer restarts with the new event
LEMMA FlushedInv ==
    ASSUME TypeOK, CollectInv, NEW e \in Events, mutex = e, ap[e] = "sending",
           Sent(e, <<e>>), ap' = [ap EXCEPT ![e] = "accepted"]
    PROVE  DeliveryInv'
<1>1. \A x \in Events : /\ InBatch(x, buffer) => delivered'[x] = delivered[x] + 1
                        /\ ~InBatch(x, buffer) => delivered'[x] = delivered[x]
  <2>1. e \in Senders
    BY DEF Senders
  <2> QED
    BY <2>1, DeliversBuffer DEF Sent
<1>2. \A x : InBatch(x, buffer') <=> x = e
  BY OneBatch DEF Sent
<1>3. buffer' = <<e>> /\ failures' = failures /\ failures \in Nat
  BY DEF Sent, TypeOK
<1>4. ~InBatch(e, buffer) /\ delivered[e] = 0
  BY DEF CollectInv, NothingLost
<1>5. delivered'[e] = 0
  BY <1>1, <1>4
<1>6. RetryInv'
  BY <1>2, <1>3, <1>5 DEF RetryInv
<1>7. Bounded'
  BY <1>3, BoundsAssumption DEF Bounded
<1>8. NothingLost'
  <2> SUFFICES ASSUME NEW x \in Events
               PROVE  /\ ap'[x] = "accepted" => InBatch(x, buffer') \/ delivered'[x] > 0
                      /\ ap'[x] # "accepted" => ~InBatch(x, buffer') /\ delivered'[x] = 0
    BY DEF NothingLost
  <2>1. CASE x = e
    BY <2>1, <1>2 DEF TypeOK
  <2>2. CASE x # e
    <3>1. ap'[x] = ap[x]
      BY <2>2 DEF TypeOK
    <3>2. /\ ap[x] = "accepted" => InBatch(x, buffer) \/ delivered[x] > 0
          /\ ap[x] # "accepted" => ~InBatch(x, buffer) /\ delivered[x] = 0
      BY DEF NothingLost, CollectInv
    <3>3. delivered[x] \in Nat
      BY DEF TypeOK
    <3> QED
      BY <3>1, <3>2, <3>3, <2>2, <1>1, <1>2
  <2> QED
    BY <2>1, <2>2
<1>9. DuplicatesOnlyByFailure'
  <2> SUFFICES ASSUME NEW x \in Events PROVE delivered'[x] <= failures + 1
    BY <1>3 DEF DuplicatesOnlyByFailure
  <2>1. CASE InBatch(x, buffer)
    BY <2>1, <1>1 DEF CollectInv, RetryInv, TypeOK
  <2>2. CASE ~InBatch(x, buffer)
    BY <2>2, <1>1 DEF CollectInv, DuplicatesOnlyByFailure
  <2> QED
    BY <2>1, <2>2
<1> QED
  BY <1>6, <1>7, <1>8, <1>9 DEF DeliveryInv

\* AddEvent appends to a buffer that has room
LEMMA AppendedInv ==
    ASSUME TypeOK, CollectInv, NEW e \in Events, ap[e] = "new", Len(buffer) < Max,
           buffer' = Append(buffer, e), ap' = [ap EXCEPT ![e] = "accepted"],
           UNCHANGED <<delivered, failures>>
    PROVE  DeliveryInv'
<1>1. \A x : InBatch(x, buffer') <=> InBatch(x, buffer) \/ x = e
  BY AppendBatch DEF TypeOK
<1>2. delivered[e] = 0 /\ failures \in Nat
  BY DEF CollectInv, NothingLost, TypeOK
<1>3. RetryInv'
  BY <1>1, <1>2 DEF RetryInv, CollectInv
<1>4. Bounded'
  BY BoundsAssumption DEF Bounded, TypeOK
<1>5. NothingLost'
  BY <1>1 DEF NothingLost, CollectInv, TypeOK
<1>6. DuplicatesOnlyByFailure'
  BY DEF DuplicatesOnlyByFailure, CollectInv
<1> QED
  BY <1>3, <1>4, <1>5, <1>6 DEF DeliveryInv

\* Steps that touch neither the buffer nor the relay
LEMMA IdleDelivery ==
    ASSUME TypeOK, CollectInv, UNCHANGED <<buffer, delivered, failures>>,
           \A x \in Events : ap'[x] = "accepted" <=> ap[x] = "accepted"
    PROVE  DeliveryInv'
BY DEF DeliveryInv, CollectInv, RetryInv, Bounded, NothingLost, DuplicatesOnlyByFailure

-----------------------------------------------------------------------------

\* The empty buffer satisfies the invariant
LEMMA InitCollect == Init => CollectInv
<1> SUFFICES ASSUME Init PROVE CollectInv
  OBVIOUS
<1>1. SendingInv
  BY SendersAssumption, SenderKinds DEF Init, SendingInv
<1>2. StopInv
  <2>1. \A c \in Collectors : cp[c] = "off" /\ c > starts /\ c \notin closed
    BY BoundsAssumption DEF Init, Collectors
  <2> QED
    BY <2>1 DEF Init, StopInv, Running
<1>3. \A x : ~InBatch(x, buffer)
  BY EmptyBatch DEF Init
<1>4. RetryInv
  BY <1>3 DEF RetryInv
<1>7. NothingLost
  <2>1. \A x \in Events : ap[x] = "new" /\ delivered[x] = 0
    BY DEF Init
  <2> QED
    BY <1>3, <2>1 DEF NothingLost
<1>5. Bounded
  BY BoundsAssumption DEF Init, Bounded
<1>6. DuplicatesOnlyByFailure
  <2>1. \A x \in Events : delivered[x] = 0
    BY DEF Init
  <2>2. failures = 0
    BY DEF Init
  <2> QED
    BY <2>1, <2>2 DEF DuplicatesOnlyByFailure
<1> QED
  BY <1>1, <1>2, <1>4, <1>5, <1>6, <1>7 DEF CollectInv

\* Neither the mutex nor a copy of the buffer changes
LEMMA IdleSending ==
    ASSUME TypeOK, SendingInv, UNCHANGED <<buffer, mutex, copySend>>,
           \A x \in Events : ap'[x] = "sending" <=> ap[x] = "sending",
           \A c \in Collectors : cp'[c] = "sending" <=> cp[c] = "sending",
           sp' = "sending" <=> sp = "sending"
    PROVE  SendingInv'
BY DEF SendingInv

\* The mutex is taken with a copy of the buffer
LEMMA BeginSending ==
    ASSUME TypeOK, SendingInv, NEW s \in Senders, BeginSend(s),
           \A x \in Events : ap'[x] = "sending" <=> ap[x] = "sending" \/ x = s,
           \A c \in Collectors : cp'[c] = "sending" <=> cp[c] = "sending" \/ c = s,
           sp' = "sending" <=> sp = "sending" \/ s = Stopper
    PROVE  SendingInv'
<1>1. /\ mutex = NoOne /\ mutex' = s
      /\ copySend'[mutex'] = buffer'
  BY DEF BeginSend, TypeOK
<1>2. /\ \A x \in Events : ap[x] # "sending"
      /\ \A c \in Collectors : cp[c] # "sending"
      /\ sp # "sending"
  BY <1>1, SenderKinds DEF SendingInv
<1> QED
  BY <1>1, <1>2 DEF SendingInv

\* The mutex is released by its holder
LEMMA EndSending ==
    ASSUME TypeOK, SendingInv, NEW s \in Senders, EndSend(s),
           \A x \in Events : ap'[x] = "sending" <=> ap[x] = "sending" /\ x # s,
           \A c \in Collectors : cp'[c] = "sending" <=> cp[c] = "sending" /\ c # s,
           sp' = "sending" <=> sp = "sending" /\ s # Stopper
    PROVE  SendingInv'
<1>1. mutex = s /\ mutex' = NoOne /\ mutex' \notin Senders
  BY SendersAssumption DEF EndSend
<1>2. /\ \A x \in Events : ap'[x] # "sending"
      /\ \A c \in Collectors : cp'[c] # "sending"
      /\ sp' # "sending"
  BY <1>1 DEF SendingInv
<1> QED
  BY <1>1, <1>2, SenderKinds DEF SendingInv

\* A goroutine past its defer moves between the select, the lock and a request
LEMMA RunningStop ==
    ASSUME TypeOK, StopInv, NEW c \in Collectors, NEW pc \in {"select", "lock", "sending"},
           cp[c] \in {"select", "lock", "sending"}, cp' = [cp EXCEPT ![c] = pc],
           UNCHANGED <<closes, closed, stopVars, startVars>>
    PROVE  StopInv'
<1>1. \A d \in Collectors : /\ cp'[d] = "off" <=> cp[d] = "off"
                            /\ cp'[d] = "done" <=> cp[d] = "done"
                            /\ (Running(d))' <=> Running(d)
                            /\ cp'[d] \in {"select", "lock", "sending"}
                                  <=> cp[d] \in {"select", "lock", "sending"}
  BY DEF TypeOK, Running
<1> QED
  BY <1>1 DEF StopInv, stopVars, startVars

\* Steps of AddEvent preserve the invariant
LEMMA AddingCollect ==
    ASSUME TypeOK, CollectInv, NEW e \in Events, Adding(e)
    PROVE  DeliveryInv' /\ SendingInv' /\ StopInv'
<1>0. SendingInv /\ StopInv
  BY DEF CollectInv
<1>s. e \in Senders /\ e \notin Collectors /\ e # Stopper /\ e # NoOne
  BY SenderKinds
<1>u. UNCHANGED <<goVars, stopVars, startVars>>
  BY DEF Adding, Track, After, Error, Skip, AddEvent, AddEventFlushed
<1>z. StopInv'
  BY <1>0, <1>u DEF StopInv, Running, goVars, stopVars, startVars
<1>c. /\ \A c \in Collectors : cp'[c] = cp[c] /\ c # e
      /\ sp' = sp
  BY <1>s, <1>u DEF goVars, stopVars
<1>1. CASE AddEvent(e)
  <2>1. CASE BeginSend(e) /\ ap' = [ap EXCEPT ![e] = "sending"]
    <3>1. \A x \in Events : /\ ap'[x] = "accepted" <=> ap[x] = "accepted"
                            /\ ap'[x] = "sending" <=> ap[x] = "sending" \/ x = e
      BY <1>1, <2>1 DEF AddEvent, TypeOK
    <3>2. DeliveryInv'
      BY <3>1, <2>1, IdleDelivery DEF BeginSend
    <3>3. SendingInv'
      BY <3>1, <2>1, <1>0, <1>c, <1>s, BeginSending
    <3> QED
      BY <1>z, <3>2, <3>3
  <2>2. CASE /\ Len(buffer) < Max
             /\ buffer' = Append(buffer, e)
             /\ ap' = [ap EXCEPT ![e] = "accepted"]
             /\ UNCHANGED <<mutex, copySend, delivered, failures>>
    <3>1. DeliveryInv'
      BY <1>1, <2>2, AppendedInv DEF AddEvent
    <3>2. SendingInv'
      <4>1. \A x \in Events : ap'[x] = "sending" <=> ap[x] = "sending"
        BY <1>1, <2>2 DEF AddEvent, TypeOK
      <4>2. mutex = NoOne /\ mutex' = NoOne
        BY <1>1, <2>2 DEF AddEvent
      <4> QED
        BY <4>1, <4>2, <1>0, <1>c, SendersAssumption DEF SendingInv
    <3> QED
      BY <1>z, <3>1, <3>2
  <2> QED
    BY <1>1, <2>1, <2>2 DEF AddEvent
<1>2. CASE AddEventFlushed(e)
  <2>1. mutex = e /\ ap[e] = "sending"
    BY <1>2 DEF AddEventFlushed, EndSend
  <2>2. DeliveryInv'
    <3>1. CASE Sent(e, <<e>>) /\ ap' = [ap EXCEPT ![e] = "accepted"]
      BY <2>1, <3>1, FlushedInv
    <3>2. CASE SendFailed(e) /\ ap' = [ap EXCEPT ![e] = "rejected"]
      <4>1. \A x \in Events : ap'[x] = "accepted" <=> ap[x] = "accepted"
        BY <2>1, <3>2 DEF TypeOK
      <4> QED
        BY <4>1, <1>s, <2>1, <3>2, FailedInv
    <3> QED
      BY <1>2, <3>1, <3>2 DEF AddEventFlushed
  <2>3. SendingInv'
    <3>1. \A x \in Events : ap'[x] = "sending" <=> ap[x] = "sending" /\ x # e
      BY <1>2 DEF AddEventFlushed, TypeOK
    <3>2. EndSend(e)
      BY <1>2 DEF AddEventFlushed
    <3> QED
      BY <3>1, <3>2, <1>0, <1>c, <1>s, EndSending
  <2> QED
    BY <1>z, <2>2, <2>3
<1>3. CASE Skip(e)
  <2>1. \A x \in Events : /\ ap'[x] = "accepted" <=> ap[x] = "accepted"
                          /\ ap'[x] = "sending" <=> ap[x] = "sending"
    BY <1>3 DEF Skip, TypeOK
  <2>2. UNCHANGED <<buffer, mutex, copySend, delivered, failures>>
    BY <1>3 DEF Skip, sendVars
  <2>3. DeliveryInv'
    BY <2>1, <2>2, IdleDelivery
  <2>4. SendingInv'
    BY <1>0, <1>c, <2>1, <2>2, IdleSending
  <2> QED
    BY <1>z, <2>3, <2>4
<1> QED
  BY <1>1, <1>2, <1>3 DEF Adding, Track, After, Error

\* Steps of a goroutine and of its ticker preserve the invariant
LEMMA CollectorCollect ==
    ASSUME TypeOK, CollectInv, NEW c \in Collectors, TickerFires(c) \/ Collector(c)
    PROVE  DeliveryInv' /\ SendingInv' /\ StopInv'
<1>0. SendingInv /\ StopInv
  BY DEF CollectInv
<1>s. c \in Senders /\ c \notin Events /\ c # Stopper
  BY SenderKinds
<1>u. ap' = ap /\ sp' = sp /\ UNCHANGED startVars
  BY DEF TickerFires, Collector, CollectorBegins, CollectorTicks, CollectorEnds,
         CollectorSends, CollectorSent, stopVars
<1>i. ASSUME UNCHANGED sendVars,
             \A d \in Collectors : cp'[d] = "sending" <=> cp[d] = "sending"
      PROVE  DeliveryInv' /\ SendingInv'
  <2>1. UNCHANGED <<buffer, mutex, copySend, delivered, failures>>
    BY <1>i DEF sendVars
  <2> QED
    BY <1>0, <1>u, <1>i, <2>1, IdleDelivery, IdleSending
<1>1. CASE TickerFires(c)
  <2>1. UNCHANGED <<sendVars, goVars, stopVars, startVars>>
    BY <1>1 DEF TickerFires
  <2>2. StopInv'
    BY <1>0, <2>1 DEF StopInv, Running, goVars, stopVars, startVars
  <2> QED
    BY <1>i, <2>1, <2>2 DEF goVars
<1>2. CASE CollectorBegins(c)
  <2>1. \A d \in Collectors :
           /\ cp'[d] = "sending" <=> cp[d] = "sending"
           /\ cp'[d] = "off" <=> cp[d] = "off"
           /\ cp'[d] = "done" <=> cp[d] = "done"
           /\ (Running(d))' <=> Running(d)
           /\ d # c => cp'[d] = cp[d] /\ closes'[d] = closes[d]
    BY <1>2 DEF CollectorBegins, TypeOK, Running
  <2>2. closes'[c] = starts /\ Running(c)
    BY <1>2 DEF CollectorBegins, TypeOK, Running
  <2>3. UNCHANGED <<closed, stopVars, startVars, sendVars>>
    BY <1>2 DEF CollectorBegins
  <2>4. StopInv'
    BY <1>0, <2>1, <2>2, <2>3 DEF StopInv, stopVars, startVars
  <2> QED
    BY <1>i, <2>1, <2>3, <2>4
<1>3. CASE CollectorTicks(c)
  <2>1. \A d \in Collectors : cp'[d] = "sending" <=> cp[d] = "sending"
    BY <1>3 DEF CollectorTicks, TypeOK
  <2>2. UNCHANGED <<closes, closed, stopVars, startVars, sendVars>>
    BY <1>3 DEF CollectorTicks
  <2>3. StopInv'
    BY <1>0, <1>3, <2>2, RunningStop DEF CollectorTicks
  <2> QED
    BY <1>i, <2>1, <2>2, <2>3
<1>4. CASE CollectorEnds(c)
  <2>1. \A d \in Collectors :
           /\ cp'[d] = "sending" <=> cp[d] = "sending"
           /\ cp'[d] = "off" <=> cp[d] = "off"
           /\ (Running(d))' => Running(d)
           /\ d # c => cp'[d] = cp[d]
    BY <1>4 DEF CollectorEnds, TypeOK, Running
  <2>2. cp[c] = "select" /\ cp'[c] = "done" /\ closed' = closed \cup {closes[c]}
    BY <1>4 DEF CollectorEnds, TypeOK
  <2>3. UNCHANGED <<closes, sp, waits, starts, overlapped, sendVars>>
    BY <1>4 DEF CollectorEnds, startVars
  <2>4. StopInv'
    BY <1>0, <2>1, <2>2, <2>3 DEF StopInv
  <2> QED
    BY <1>i, <2>1, <2>3, <2>4
<1>5. CASE CollectorSends(c)
  <2>1. UNCHANGED <<closes, closed, stopVars, startVars>>
    BY <1>5 DEF CollectorSends
  <2>2. StopInv'
    BY <1>0, <1>5, <2>1, RunningStop DEF CollectorSends
  <2>3. CASE cp' = [cp EXCEPT ![c] = "select"] /\ UNCHANGED sendVars
    <3>1. \A d \in Collectors : cp'[d] = "sending" <=> cp[d] = "sending"
      BY <1>5, <2>3 DEF CollectorSends, TypeOK
    <3> QED
      BY <1>i, <2>2, <2>3, <3>1
  <2>4. CASE cp' = [cp EXCEPT ![c] = "sending"] /\ BeginSend(c)
    <3>1. /\ \A d \in Collectors : cp'[d] = "sending" <=> cp[d] = "sending" \/ d = c
          /\ \A x \in Events : ap'[x] = ap[x] /\ x # c
      BY <1>s, <1>u, <2>4 DEF TypeOK
    <3>2. SendingInv'
      BY <1>0, <1>s, <1>u, <2>4, <3>1, BeginSending
    <3>3. DeliveryInv'
      BY <1>u, <2>4, IdleDelivery DEF BeginSend
    <3> QED
      BY <2>2, <3>2, <3>3
  <2> QED
    BY <1>5, <2>3, <2>4 DEF CollectorSends
<1>6. CASE CollectorSent(c)
  <2>1. UNCHANGED <<closes, closed, stopVars, startVars>>
    BY <1>6 DEF CollectorSent
  <2>2. StopInv'
    BY <1>0, <1>6, <2>1, RunningStop DEF CollectorSent
  <2>3. mutex = c /\ EndSend(c) /\ (Sent(c, <<>>) \/ SendFailed(c))
    BY <1>6 DEF CollectorSent, EndSend
  <2>4. DeliveryInv'
    BY <1>s, <1>u, <2>3, SentInv, FailedInv
  <2>5. /\ \A d \in Collectors : cp'[d] = "sending" <=> cp[d] = "sending" /\ d # c
        /\ \A x \in Events : ap'[x] = ap[x] /\ x # c
    BY <1>6, <1>s, <1>u DEF CollectorSent, TypeOK
  <2>6. SendingInv'
    BY <1>0, <1>s, <1>u, <2>3, <2>5, EndSending
  <2> QED
    BY <2>2, <2>4, <2>6
<1> QED
  BY <1>1, <1>2, <1>3, <1>4, <1>5, <1>6 DEF Collector

\* Start and the steps of Stop preserve the invariant
LEMMA LifeCollect ==
    ASSUME TypeOK, CollectInv, Start \/ Stop \/ Stopping
    PROVE  DeliveryInv' /\ SendingInv' /\ StopInv'
<1>0. SendingInv /\ StopInv
  BY DEF CollectInv
<1>s. Stopper \in Senders /\ Stopper \notin Events /\ Stopper \notin Collectors
  BY SenderKinds
<1>i. ASSUME UNCHANGED <<sendVars, ap>>, sp' = "sending" <=> sp = "sending",
             \A d \in Collectors : cp'[d] = "sending" <=> cp[d] = "sending"
      PROVE  DeliveryInv' /\ SendingInv'
  <2>1. UNCHANGED <<buffer, mutex, copySend, delivered, failures, ap>>
    BY <1>i DEF sendVars
  <2> QED
    BY <1>0, <1>i, <2>1, IdleDelivery, IdleSending
<1>1. CASE Start
  <2>1. starts \in Nat /\ starts + 1 \in Collectors /\ starts' = starts + 1
    BY <1>1, BoundsAssumption DEF Start, TypeOK, Collectors
  <2>2. \A c \in Collectors : c \in Nat
    BY DEF Collectors
  <2>3. cp[starts + 1] = "off" /\ cp'[starts + 1] = "begin"
    BY <1>0, <1>1, <2>1 DEF Start, StopInv, TypeOK
  <2>4. \A d \in Collectors : /\ cp'[d] = "sending" <=> cp[d] = "sending"
                              /\ d # starts + 1 => cp'[d] = cp[d]
    BY <1>1, <2>3 DEF Start, TypeOK
  <2>5. UNCHANGED <<closes, closed, sp, waits, sendVars, ap>>
    BY <1>1 DEF Start, stopVars
  <2>6. ~overlapped' => /\ ~overlapped /\ sp = "no"
                        /\ \A c \in Collectors : ~Running(c)
    BY <1>1 DEF Start
  <2>7. StopInv'
    <3>1. \A c \in Collectors : cp'[c] = "off" <=> c > starts'
      BY <1>0, <2>1, <2>2, <2>3, <2>4 DEF StopInv
    <3>2. ASSUME ~overlapped', NEW c \in Collectors
          PROVE  /\ (Running(c))' => c = starts'
                 /\ cp'[c] \in {"select", "lock", "sending"} => closes'[c] = c
                 /\ c \in closed' => cp'[c] = "done"
      BY <1>0, <2>1, <2>3, <2>4, <2>5, <2>6, <3>2 DEF StopInv, Running
    <3> QED
      BY <2>5, <2>6, <3>1, <3>2 DEF StopInv
  <2> QED
    BY <1>i, <2>4, <2>5, <2>7
<1>2. CASE Stop \/ StopTicker \/ StopLooks \/ StopWaits
  <2> USE <1>2 DEF Stop, StopTicker, StopLooks, StopWaits
  <2>1. UNCHANGED <<sendVars, ap>> /\ UNCHANGED <<cp, closes, closed, starts, overlapped>>
    BY DEF goVars, startVars
  <2>2. sp' = "sending" <=> sp = "sending"
    OBVIOUS
  <2>3. \A c \in Collectors : c \in Nat \ {0} /\ starts \in Nat
    BY BoundsAssumption DEF Collectors, TypeOK
  <2>4. StopInv'
    <3>1. CASE Stop \/ StopTicker
      BY <3>1, <1>0, <2>1 DEF StopInv, Running
    <3>2. CASE StopLooks
      BY <3>2, <1>0, <2>1, <2>3 DEF StopInv, Running
    <3>3. CASE StopWaits
      <4>1. ~overlapped => \A c \in Collectors : ~Running(c)
        BY <3>3, <1>0 DEF StopInv, Running
      <4> QED
        BY <3>3, <4>1, <1>0, <2>1 DEF StopInv, Running
    <3> QED
      BY <3>1, <3>2, <3>3
  <2> QED
    BY <1>i, <2>1, <2>2, <2>4
<1>3. CASE StopSends \/ StopSent
  <2>1. UNCHANGED <<ap, cp, closes, closed, waits, starts, overlapped>>
    BY <1>3 DEF StopSends, StopSent, goVars, startVars
  <2>2. StopInv'
    BY <1>0, <1>3, <2>1 DEF StopInv, Running, StopSends, StopSent
  <2>3. CASE StopSends
    <3>1. CASE sp' = "no" /\ UNCHANGED sendVars
      BY <1>i, <2>1, <2>2, <2>3, <3>1 DEF StopSends
    <3>2. CASE sp' = "sending" /\ BeginSend(Stopper)
      <4>1. SendingInv'
        BY <1>0, <1>s, <2>1, <3>2, BeginSending
      <4>2. DeliveryInv'
        BY <2>1, <3>2, IdleDelivery DEF BeginSend
      <4> QED
        BY <2>2, <4>1, <4>2
    <3> QED
      BY <2>3, <3>1, <3>2 DEF StopSends
  <2>4. CASE StopSent
    <3>1. mutex = Stopper /\ EndSend(Stopper) /\ (Sent(Stopper, <<>>) \/ SendFailed(Stopper))
      BY <2>4 DEF StopSent, EndSend
    <3>2. DeliveryInv'
      BY <1>s, <2>1, <3>1, SentInv, FailedInv
    <3>3. SendingInv'
      BY <1>0, <1>s, <2>1, <2>4, <3>1, EndSending DEF StopSent
    <3> QED
      BY <2>2, <3>2, <3>3
  <2> QED
    BY <1>3, <2>3, <2>4
<1> QED
  BY <1>1, <1>2, <1>3 DEF Stopping

\* Every step of AddEvent, the goroutines and Stop preserves the invariant
LEMMA CollectStep == TypeOK /\ CollectInv /\ [Next]_vars => CollectInv'
<1> SUFFICES ASSUME TypeOK, CollectInv, [Next]_vars PROVE CollectInv'
  OBVIOUS
<1>a. ASSUME DeliveryInv', SendingInv', StopInv' PROVE CollectInv'
  BY <1>a DEF DeliveryInv, CollectInv
<1>1. CASE Next
  BY <1>1, <1>a, AddingCollect, CollectorCollect, LifeCollect DEF Next
<1>2. CASE UNCHANGED vars
  <2>1. UNCHANGED <<buffer, delivered, failures, mutex, copySend, ap>>
    BY <1>2 DEF vars, sendVars
  <2>2. UNCHANGED <<cp, closes, closed, sp, waits, starts, overlapped>>
    BY <1>2 DEF vars, goVars, stopVars, startVars
  <2>3. SendingInv /\ StopInv
    BY DEF CollectInv
  <2>4. StopInv'
    BY <2>2, <2>3 DEF StopInv, Running
  <2> QED
    BY <1>a, <2>1, <2>2, <2>3, <2>4, IdleDelivery, IdleSending
<1> QED
  BY <1>1, <1>2

\* The inductive invariant holds in every reachable state of AddEvent, the
\* ticker goroutines of any number of Starts, and Stop together.
THEOREM CollectInvariant == Spec => []CollectInv
<1> QED
  BY InitType, TypeStep, InitCollect, CollectStep, PTL DEF Spec

\* The collector never buffers more than dataCollectorMaxEventStored events.
THEOREM BufferBounded == Spec => []Bounded
<1>1. CollectInv => Bounded
  BY DEF CollectInv
<1> QED
  BY <1>1, CollectInvariant, PTL

\* Every event AddEvent accepted is buffered or was received by the relay, and
\* no refused one is, for any number of events, adders and failed requests.
THEOREM NoAcceptedEventLost == Spec => []NothingLost
<1>1. CollectInv => NothingLost
  BY DEF CollectInv
<1> QED
  BY <1>1, CollectInvariant, PTL

\* The relay receives an event at most once more than requests failed.
THEOREM NoUnexplainedDuplicate == Spec => []DuplicatesOnlyByFailure
<1>1. CollectInv => DuplicatesOnlyByFailure
  BY DEF CollectInv
<1> QED
  BY <1>1, CollectInvariant, PTL

\* A Stop that has waited left no goroutine of the collector and flushes alone,
\* unless calls of Start overlapped: for any number of Starts and Stops.
THEOREM LastFlushAlone == Spec => []StopIsLast
<1>1. CollectInv => StopIsLast
  BY DEF CollectInv, StopInv, SendingInv, StopIsLast
<1> QED
  BY <1>1, CollectInvariant, PTL

\* Stop returns with an empty buffer unless its request failed: whatever was
\* added while it waited for the goroutine or for the mutex is sent.
THEOREM FlushAtStop == Spec => FlushedOnStop
<1> DEFINE Returns == sp # "no" /\ sp' = "no" => buffer' = <<>> \/ failures' > failures
<1>1. ASSUME TypeOK, [Next]_vars PROVE [Returns]_vars
  <2>1. CASE StopSends
    BY <2>1 DEF StopSends, sendVars
  <2>2. CASE StopSent
    <3>1. failures \in Nat
      BY <1>1 DEF TypeOK
    <3> QED
      BY <2>2, <3>1 DEF StopSent, Sent, SendFailed
  <2>3. CASE ~StopSends /\ ~StopSent
    <3>1. sp' = sp \/ sp' # "no"
      BY <1>1, <2>3 DEF Next, Adding, Track, After, Error, Skip, AddEvent, AddEventFlushed,
         Start, Stop, TickerFires, Collector, CollectorBegins, CollectorTicks,
         CollectorEnds, CollectorSends, CollectorSent, Stopping, StopTicker, StopLooks,
         StopWaits, stopVars, vars
    <3> QED
      BY <3>1
  <2> QED
    BY <2>1, <2>2, <2>3
<1> QED
  BY <1>1, TypeInvariant, PTL DEF Spec, FlushedOnStop
=============================================================================
