---------------------------- MODULE FlagdProvider ----------------------------
(***************************************************************************)
(* The flagd provider with the in-process resolver:                        *)
(* providers/flagd/pkg/provider.go on top of FlagdInProcess.               *)
(*                                                                         *)
(* Init holds mtx while it waits for the first event of the service or for *)
(* its deadline.  handleEvents forwards the service's events to the SDK    *)
(* over an unbuffered channel and sets the status under mtx.  Shutdown     *)
(* holds mtx while the service shuts down.  Init and Shutdown are called   *)
(* once each, as the SDK does.                                             *)
(***************************************************************************)
EXTENDS FlagdInProcess

VARIABLES
    pi,       \* Init: no, wait, nil, err
    ps,       \* Shutdown: no, inside, done
    hp,       \* program counter of handleEvents
    mtx,      \* the holder of mtx: free, init, shutdown
    status    \* Provider.status

providerVars == <<pi, ps, hp, mtx, status>>
pvars == <<vars, providerVars>>

\* What a step of handleEvents or of Provider.Init leaves alone in the service
serviceVars == <<sourceVars, streamVars, syncVars, monitorVars, data, listenVars,
                 ready, staleVars, cancelled, initVars, stop>>

\* Init takes mtx and starts service.Init in a goroutine
ProviderInit ==
    /\ pi = "no" /\ mtx = "free"
    /\ pi' = "wait" /\ mtx' = "init"
    /\ InitFails \/ InitStarts
    /\ UNCHANGED <<ps, hp, status>>

\* Its select: service.Init failed ...
ProviderInitFailed ==
    /\ pi = "wait" /\ init = "err"
    /\ pi' = "err" /\ mtx' = "free"
    /\ UNCHANGED <<vars, ps, hp, status>>

\* Mutant: any event completes Init
ProviderInitAnyEvent ==
    /\ pi = "wait"
    /\ Took
    /\ mtx' = "free" /\ pi' = "nil" /\ status' = "ready" /\ hp' = "wait"
    /\ UNCHANGED <<serviceVars, ps>>

\* ... or the first event arrives: READY starts handleEvents, every other one
\* is an error
ProviderInitEvent ==
    /\ pi = "wait"
    /\ Took
    /\ mtx' = "free"
    /\ IF last' = "ready"
       THEN pi' = "nil" /\ status' = "ready" /\ hp' = "wait"
       ELSE pi' = "err" /\ UNCHANGED <<status, hp>>
    /\ UNCHANGED <<serviceVars, ps>>

\* ... or the deadline is over
ProviderInitDeadline ==
    /\ pi = "wait"
    /\ pi' = "err" /\ mtx' = "free"
    /\ UNCHANGED <<vars, ps, hp, status>>

\* handleEvents takes an event of the service, ...
HandleEventsTakes ==
    /\ hp = "wait"
    /\ Took
    /\ hp' = "emit"
    /\ UNCHANGED <<serviceVars, pi, ps, mtx, status>>

\* ... blocks until the SDK receives it, ...
HandleEventsEmits ==
    /\ hp = "emit"
    /\ hp' = IF last \in {"ready", "change", "error"} THEN "set" ELSE "wait"
    /\ UNCHANGED <<vars, pi, ps, mtx, status>>

\* ... then waits for mtx to set the status; STALE leaves it as it is
setStatus ==
    /\ hp = "set" /\ mtx = "free"
    /\ hp' = "wait"
    /\ status' = IF last = "error" THEN "error" ELSE "ready"
    /\ UNCHANGED <<vars, pi, ps, mtx>>

\* Shutdown keeps mtx until service.Shutdown returns
ProviderShutdown ==
    /\ ps = "no" /\ pi \in {"nil", "err"} /\ mtx = "free"
    /\ ps' = "inside" /\ mtx' = "shutdown"
    /\ Shutdown
    /\ UNCHANGED <<pi, hp, status>>

ProviderShutdownReturns ==
    /\ ps = "inside" /\ stop = "done"
    /\ ps' = "done" /\ mtx' = "free"
    /\ UNCHANGED <<vars, pi, hp, status>>

\* The service, without the calls the provider makes
ServiceRuns ==
    \/ InitReturn \/ ShutdownReturns
    \/ SyncGoroutine \/ MonitorSees \/ MonitorReports
    \/ EventMonitor \/ StaleTimer
    \/ Listener

ProviderSetup == Init /\ pi = "no" /\ ps = "no" /\ hp = "off" /\ mtx = "free" /\ status = "notReady"

HandleEvents == HandleEventsTakes \/ HandleEventsEmits \/ setStatus

ProviderNext ==
    \/ (Environment \/ ServiceRuns) /\ UNCHANGED providerVars
    \/ ProviderInit \/ ProviderInitFailed \/ ProviderInitEvent \/ ProviderInitDeadline
    \/ HandleEvents
    \/ ProviderShutdown \/ ProviderShutdownReturns

ProviderSpec == ProviderSetup /\ [][ProviderNext]_pvars

\* Every goroutine that can run does and the SDK receives what is emitted;
\* nothing is assumed of the source
ProviderFairSpec ==
    /\ ProviderSpec
    /\ WF_pvars(HandleEvents) /\ WF_pvars(ProviderShutdownReturns)
    /\ WF_pvars(ShutdownReturns /\ UNCHANGED providerVars)
    /\ WF_pvars(SyncGoroutine /\ UNCHANGED providerVars)
    /\ WF_pvars(EventMonitor /\ UNCHANGED providerVars)
    /\ WF_pvars(Listener /\ UNCHANGED providerVars)

-----------------------------------------------------------------------------
(* Properties *)

\* The provider is not READY, in the answer of Init or in its status, before
\* the source delivered a configuration and the listener applied it: evaluations
\* of a ready provider never run on the empty initial store.
ReadyHasData == pi = "nil" \/ status = "ready" => applied

\* An Init that failed, also one whose deadline passed while the service was about
\* to become ready, stays failed: the READY that comes too late reaches nobody.
FailedStaysFailed == pi = "err" => status = "notReady" /\ hp = "off"

\* Between two events the status is what the last event says; a STALE event
\* leaves the status that Init or an earlier event set.
StatusFollowsEvents ==
    hp = "wait" => /\ last \in {"ready", "change"} => status = "ready"
                   /\ last = "error" => status = "error"

\* What the provider says of itself is true at every step of its service.
StatusTruthful == TypeOK /\ ReadyHasData /\ FailedStaysFailed /\ StatusFollowsEvents

\* service.go, line 435: "Shutdown gracefully shuts down the service": the call
\* returns while handleEvents forwards events to an SDK that receives them.
ShutdownWhileForwarding == ps = "inside" /\ pi = "nil" ~> ps = "done"
==============================================================================
