--------------------------- MODULE PsiphonBridge ---------------------------
(***************************************************************************)
(* PRPsiphonStart and PRPsiphonStop of psiphon_bridge.go from concurrent   *)
(* callers, with psi.Start and psi.Stop (MobileLibrary/psi/psi.go) under   *)
(* controllerMutex, on top of the controller they start and stop. The      *)
(* bridge keeps what the controller's notices told it; both calls reset    *)
(* that outside controllerMutex.                                           *)
(***************************************************************************)
EXTENDS PsiphonController

CONSTANT Callers

ASSUME CallersAssumption == None \notin Callers

VARIABLES
    controllerMutex,    \* its holder, while psi.Stop waits
    call,               \* where a caller's call stands
    ports,              \* which of socksPort and httpPort are known
    orderly             \* the last start found no session and no other call under
                        \* way, and no stop since then overlapped another call

bridgeVars == <<controllerMutex, call, ports, orderly>>
vars == <<controllerVars, bridgeVars>>

TypeOK ==
    /\ ControllerTypeOK
    /\ controllerMutex \in Callers \cup {None}
    /\ call \in [Callers -> {"idle", "start", "stop", "wait", "reset"}]
    /\ ports \in {"none", "socks", "both"} /\ orderly \in BOOLEAN

Init ==
    /\ ControllerInit
    /\ controllerMutex = None
    /\ call = [c \in Callers |-> "idle"]
    /\ ports = "none" /\ orderly = TRUE

Alone(c) == \A d \in Callers \ {c} : call[d] = "idle"

notices == <<connected, ports>>
controllerRest == <<tunnelPoolSize, watcher, loopVars, estVars, chanVars, open, op>>
-----------------------------------------------------------------------------
(* PRPsiphonStart resets the bridge's state first *)
PRPsiphonStart(c) ==
    /\ call[c] = "idle"
    /\ call' = [call EXCEPT ![c] = "start"]
    /\ connected' = FALSE /\ ports' = "none"
    /\ orderly' = (Alone(c) /\ run = "none")
    /\ UNCHANGED <<run, runDone, controllerRest, controllerMutex>>

(* psi.Start finds a controller: "already started" *)
AlreadyStarted(c) ==
    /\ call[c] = "start" /\ controllerMutex = None /\ run # "none"
    /\ call' = [call EXCEPT ![c] = "idle"]
    /\ UNCHANGED <<controllerVars, controllerMutex, ports, orderly>>

(* The configuration, the data store or NewController fails *)
StartFails(c) ==
    /\ call[c] = "start" /\ controllerMutex = None /\ run = "none"
    /\ call' = [call EXCEPT ![c] = "idle"]
    /\ UNCHANGED <<controllerVars, controllerMutex, ports, orderly>>

(* A new controller, with channels and a context of its own, and Run *)
Start(c) ==
    /\ call[c] = "start" /\ controllerMutex = None /\ run = "none"
    /\ call' = [call EXCEPT ![c] = "idle"]
    /\ run' = "new" /\ runDone' = FALSE /\ establishedOnce' = FALSE /\ pc' = "off"
    /\ tunnelPoolSize' \in Sizes
    /\ UNCHANGED <<watcher, cur, pool, estVars, chanVars, open, op, notices,
                   controllerMutex, orderly>>

PRPsiphonStop(c) ==
    /\ call[c] = "idle"
    /\ call' = [call EXCEPT ![c] = "stop"]
    /\ orderly' = (orderly /\ Alone(c))
    /\ UNCHANGED <<controllerVars, controllerMutex, ports>>

(* psi.Stop without a controller *)
NothingToStop(c) ==
    /\ call[c] = "stop" /\ controllerMutex = None /\ run = "none"
    /\ call' = [call EXCEPT ![c] = "reset"]
    /\ UNCHANGED <<controllerVars, controllerMutex, ports, orderly>>

(* Mutant of StopController: Run is waited for and never cancelled *)
StopControllerWaits(c) ==
    /\ call[c] = "stop" /\ controllerMutex = None /\ run # "none"
    /\ call' = [call EXCEPT ![c] = "wait"] /\ controllerMutex' = c
    /\ UNCHANGED <<run, runDone, controllerRest, notices, orderly>>

(* stopController, then the wait for Run with the mutex held *)
StopController(c) ==
    /\ call[c] = "stop" /\ controllerMutex = None /\ run # "none"
    /\ call' = [call EXCEPT ![c] = "wait"] /\ controllerMutex' = c
    /\ runDone' = TRUE
    /\ UNCHANGED <<run, controllerRest, notices, orderly>>

(* Run has returned: the controller is forgotten *)
Stopped(c) ==
    /\ call[c] = "wait" /\ run = "exited"
    /\ call' = [call EXCEPT ![c] = "reset"] /\ controllerMutex' = None
    /\ run' = "none"
    /\ UNCHANGED <<runDone, controllerRest, notices, orderly>>

(* PRPsiphonStop resets the bridge's state last, without the mutex *)
Reset(c) ==
    /\ call[c] = "reset"
    /\ call' = [call EXCEPT ![c] = "idle"]
    /\ connected' = FALSE /\ ports' = "none"
    /\ UNCHANGED <<run, runDone, controllerRest, controllerMutex, orderly>>

(* The controller's own steps. Its proxies announce their ports, the SOCKS  *)
(* proxy also before the HTTP proxy cannot listen and Run fails.            *)
Bridged(step) ==
    /\ step
    /\ \/ run = "new" /\ run' = "live" /\ ports' = "both"
       \/ run = "new" /\ run' = "exited" /\ ports = "none" /\ ports' = "socks"
       \/ ~(run = "new" /\ run' = "live") /\ UNCHANGED ports
    /\ UNCHANGED <<controllerMutex, call, orderly>>

Call(c) ==
    \/ PRPsiphonStart(c) \/ AlreadyStarted(c) \/ StartFails(c) \/ Start(c)
    \/ PRPsiphonStop(c) \/ NothingToStop(c) \/ StopController(c) \/ Stopped(c) \/ Reset(c)

Next == Bridged(ControllerNext) \/ \E c \in Callers : Call(c)

(* The mutex serves its waiters in turn (SF). Dials, handshakes and the     *)
(* operator's requests end by their contexts and timeouts; a select of      *)
(* runTunnels with runCtx done takes that case in the end (SF).             *)
Fairness ==
    /\ \A c \in Callers :
         /\ SF_vars(AlreadyStarted(c) \/ StartFails(c) \/ Start(c) \/ NothingToStop(c) \/ StopController(c))
         /\ WF_vars(Stopped(c) \/ Reset(c))
    /\ WF_vars(Bridged(RunFails \/ RunStarts))
    /\ WF_vars(Bridged(RunReturns))
    /\ WF_vars(Bridged(WatcherEnds))
    /\ WF_vars(Bridged(Launch \/ GeneratorStops))
    /\ \A w \in Workers :
         /\ WF_vars(Bridged(DialFails(w) \/ Deliver(w)))
         /\ WF_vars(Bridged(WorkerEnds(w)))
    /\ WF_vars(Bridged(StopEstablishing \/ ActivateFails \/ Activate \/ RegisterTunnel
                              \/ DuplicateTunnel \/ Discard \/ StopAll \/ TerminateAll))
    /\ SF_vars(Bridged(LeaveLoop))
    /\ \A t \in Tunnels : WF_vars(Bridged(SignalTunnelFailure(t) \/ FailedTunnelsFull(t)
                                              \/ OperateStops(t)))

Spec == Init /\ [][Next]_vars /\ Fairness
-----------------------------------------------------------------------------
(* What the bridge reports is never better than what is there: it says      *)
(* connected only while a tunnel is up. Calls made one at a time, with a    *)
(* start only after the last session was stopped, see exactly what is       *)
(* there; the reset of a refused start, or of a stop that a new start       *)
(* overtook, would hide a tunnel that works (psiphon_bridge.go,             *)
(* PRPsiphonStart and PRPsiphonStop). The notice of a tunnel whose operator *)
(* waits for itself never comes.                                            *)
StatusTruthful ==
    /\ connected => run = "live" /\ (SelfWait \/ pool # {})
    /\ orderly => (pool # {} => connected) /\ (run = "live" => ports = "both")

(* Every call returns, a stop with the controller and its tunnels gone,     *)
(* unless an operator waits for itself; that a pool of one tunnel rules out *)
(* (psi.go, Start and Stop).                                                *)
CallsReturn == \A c \in Callers : call[c] # "idle" ~> call[c] = "idle" \/ SelfWait
=============================================================================
