------------------------- MODULE PsiphonController -------------------------
(***************************************************************************)
(* One run of Psiphon's controller (psiphon/controller.go): Run, the       *)
(* runTunnels loop, the workers and the generator that establish tunnels,  *)
(* the watcher of the first one, and the goroutine that operates each      *)
(* active tunnel (psiphon/tunnel.go). Its Tunnels and Exiting notices      *)
(* reach the provider while the controller waits, so a notice is part of   *)
(* the step that emits it.                                                 *)
(*                                                                         *)
(* A step under tunnelMutex is one action: every reader of the pool takes  *)
(* that mutex. Only an operator that waits for itself keeps it (SelfWait).  *)
(* The order in which candidates are offered, server affinity  *)
(* included, is left open; the grace period of the latter ends by a timer. *)
(***************************************************************************)
EXTENDS Naturals, Sequences, SequencesExt, FiniteSets

CONSTANTS
    Tunnels,    \* names of tunnels; one is used again once it is forgotten
    Server,     \* the server a tunnel of that name leads to
    Workers,    \* establishTunnelWorker goroutines
    Sizes,      \* values of tunnelPoolSize
    ConnectedCap, FailedCap,    \* what the channels hold: MAX_TUNNEL_POOL_SIZE
    None

ASSUME ControllerAssumption ==
    /\ IsFiniteSet(Tunnels) /\ None \notin Tunnels
    /\ DOMAIN Server = Tunnels
    /\ Sizes \subseteq Nat \ {0}
    /\ ConnectedCap \in Nat \ {0} /\ FailedCap \in Nat \ {0}
    /\ "idle" \notin Tunnels /\ "off" \notin Tunnels

VARIABLES
    run,        \* "none": controller is nil; "new", "live": Run; "exited": it returned
    runDone,    \* runCtx is done
    tunnelPoolSize,
    pc,         \* where runTunnels stands
    cur,        \* the tunnel its current case is about
    pool,       \* controller.tunnels
    connectedTunnels, failedTunnels,    \* the two channels
    establishedOnce, watcher,
    isEstablishing,
    estDone,    \* stopEstablish was called
    gen,        \* launchEstablishing, then establishCandidateGenerator
    worker,     \* the tunnel a worker dials, "idle" or "off"
    open,       \* tunnels whose connection is open
    op,         \* operateTunnel of a tunnel
    connected   \* what the last notice told the provider

runVars == <<run, runDone, tunnelPoolSize, watcher>>
loopVars == <<pc, cur, pool, establishedOnce>>
estVars == <<isEstablishing, estDone, gen, worker>>
chanVars == <<connectedTunnels, failedTunnels>>
controllerVars == <<runVars, loopVars, estVars, chanVars, open, op, connected>>

FlagsOK ==
    /\ runDone \in BOOLEAN /\ establishedOnce \in BOOLEAN /\ connected \in BOOLEAN
    /\ isEstablishing \in BOOLEAN /\ estDone \in BOOLEAN

PlacesOK ==
    /\ run \in {"none", "new", "live", "exited"} /\ tunnelPoolSize \in Sizes
    /\ pc \in {"off", "select", "stop", "activate", "register", "discard",
               "exit", "terminate", "done"}
    /\ cur \in Tunnels \cup {None}
    /\ pool \in SUBSET Tunnels /\ open \in SUBSET Tunnels
    /\ connectedTunnels \in Seq(Tunnels) /\ failedTunnels \in Seq(Tunnels)
    /\ watcher \in {"off", "on"} /\ gen \in {"off", "launch", "on"}
    /\ worker \in [Workers -> Tunnels \cup {"idle", "off"}]
    /\ op \in [Tunnels -> {"off", "run", "stop", "failing", "stuck"}]

ControllerTypeOK == FlagsOK /\ PlacesOK

ControllerInit ==
    /\ tunnelPoolSize \in Sizes
    /\ run = "none" /\ runDone = FALSE /\ watcher = "off"
    /\ pc = "off" /\ cur = None /\ pool = {} /\ establishedOnce = FALSE
    /\ connectedTunnels = <<>> /\ failedTunnels = <<>>
    /\ isEstablishing = FALSE /\ estDone = FALSE /\ gen = "off"
    /\ worker = [w \in Workers |-> "off"]
    /\ open = {} /\ op = [t \in Tunnels |-> "off"]
    /\ connected = FALSE

IsFull == Cardinality(pool) >= tunnelPoolSize
IsStopEstablishing == estDone \/ runDone

(* establishWaitGroup and the wait for it in stopEstablishing *)
EstablishersGone == gen = "off" /\ \A w \in Workers : worker[w] = "off"

(* An operator holds tunnelMutex for ever, or waits for it while runTunnels *)
(* holds it and waits for the operator: nobody takes the mutex any more.    *)
SelfWait == \E t \in Tunnels : op[t] = "stuck"

(* A name no goroutine, channel or open connection stands for *)
Fresh(t) ==
    /\ t \notin open \cup {cur} \cup {worker[w] : w \in Workers}
    /\ t \notin ToSet(connectedTunnels) \cup ToSet(failedTunnels)
    /\ op[t] = "off"
-----------------------------------------------------------------------------
(* Run *)

(* A proxy cannot listen, or the listen interface has no address: Run       *)
(* returns without an Exiting notice.                                       *)
RunFails ==
    /\ run = "new"
    /\ run' = "exited" /\ runDone' = TRUE
    /\ UNCHANGED <<tunnelPoolSize, watcher, loopVars, estVars, chanVars, open, op, connected>>

(* Both proxies listen; the watcher and runTunnels start, and the latter    *)
(* begins by establishing.                                                  *)
RunStarts ==
    /\ run = "new"
    /\ run' = "live" /\ watcher' = "on" /\ pc' = "select"
    /\ isEstablishing' = TRUE /\ estDone' = FALSE /\ gen' = "launch"
    /\ UNCHANGED <<runDone, tunnelPoolSize, cur, pool, establishedOnce, worker, chanVars, open, op, connected>>

(* runWaitGroup is empty and Run says so *)
RunReturns ==
    /\ run = "live" /\ runDone /\ pc = "done" /\ watcher = "off"
    /\ run' = "exited" /\ connected' = FALSE
    /\ UNCHANGED <<runDone, tunnelPoolSize, watcher, loopVars, estVars, chanVars, open, op>>

(* The establishment timeout, or the end of the run *)
WatcherEnds ==
    /\ watcher = "on"
    /\ watcher' = "off"
    /\ \/ ~SelfWait /\ runDone' = (runDone \/ ~establishedOnce)
       \/ runDone /\ UNCHANGED runDone
    /\ UNCHANGED <<run, tunnelPoolSize, loopVars, estVars, chanVars, open, op, connected>>
-----------------------------------------------------------------------------
(* Establishing *)

(* The tactics wait is over. A stop in between leaves without workers.      *)
Launch ==
    /\ gen = "launch"
    /\ \/ /\ IsStopEstablishing
          /\ gen' = "off" /\ UNCHANGED worker
       \/ /\ ~SelfWait
          /\ gen' = "on"
          /\ worker' = [w \in Workers |-> "idle"]
    /\ UNCHANGED <<runVars, loopVars, isEstablishing, estDone, chanVars, open, op, connected>>

(* The generator stops with the context, which closes the candidate channel *)
GeneratorStops ==
    /\ gen = "on" /\ IsStopEstablishing
    /\ gen' = "off"
    /\ UNCHANGED <<runVars, loopVars, isEstablishing, estDone, worker, chanVars, open, op, connected>>

(* The server entries cannot be read: SignalComponentFailure *)
GeneratorFails ==
    /\ gen = "on" /\ ~IsStopEstablishing
    /\ gen' = "off" /\ runDone' = TRUE
    /\ UNCHANGED <<run, tunnelPoolSize, watcher, loopVars, isEstablishing, estDone, worker, chanVars, open, op, connected>>

(* An idle worker takes a candidate. A stopped one leaves it, a server with *)
(* an active tunnel is passed over.                                         *)
TakeCandidate(w, t) ==
    /\ gen = "on" /\ worker[w] = "idle" /\ Fresh(t)
    /\ \/ /\ IsStopEstablishing
          /\ worker' = [worker EXCEPT ![w] = "off"]
       \/ /\ ~IsStopEstablishing /\ ~SelfWait
          /\ \A a \in pool : Server[a] # Server[t]
          /\ worker' = [worker EXCEPT ![w] = t]
    /\ UNCHANGED <<runVars, loopVars, isEstablishing, estDone, gen, chanVars, open, op, connected>>

(* The candidate channel is closed *)
WorkerEnds(w) ==
    /\ gen = "off" /\ worker[w] = "idle"
    /\ worker' = [worker EXCEPT ![w] = "off"]
    /\ UNCHANGED <<runVars, loopVars, isEstablishing, estDone, gen, chanVars, open, op, connected>>

DialFails(w) ==
    /\ worker[w] \in Tunnels
    /\ worker' = [worker EXCEPT ![w] = IF IsStopEstablishing THEN "off" ELSE "idle"]
    /\ UNCHANGED <<runVars, loopVars, isEstablishing, estDone, gen, chanVars, open, op, connected>>

(* Mutant of Deliver: a tunnel the channel has no room for is dropped *)
DeliverDrops(w) ==
    /\ worker[w] \in Tunnels
    /\ worker' = [worker EXCEPT ![w] = "idle"]
    /\ open' = open \cup {worker[w]}
    /\ connectedTunnels' = IF Len(connectedTunnels) < ConnectedCap
                           THEN Append(connectedTunnels, worker[w]) ELSE connectedTunnels
    /\ UNCHANGED <<runVars, loopVars, isEstablishing, estDone, gen, failedTunnels, op, connected>>

(* The dial succeeds: the tunnel goes to runTunnels, even after a stop, or  *)
(* is closed again when the channel is full.                                *)
Deliver(w) ==
    /\ worker[w] \in Tunnels
    /\ worker' = [worker EXCEPT ![w] = "idle"]
    /\ \/ /\ Len(connectedTunnels) < ConnectedCap
          /\ open' = open \cup {worker[w]}
          /\ connectedTunnels' = Append(connectedTunnels, worker[w])
       \/ /\ Len(connectedTunnels) >= ConnectedCap
          /\ UNCHANGED <<open, connectedTunnels>>
    /\ UNCHANGED <<runVars, loopVars, isEstablishing, estDone, gen, failedTunnels, op, connected>>
-----------------------------------------------------------------------------
(* Operating a tunnel *)

(* The keep-alive or a request fails; a stop may come too late for it *)
OperateFails(t) ==
    /\ op[t] \in {"run", "stop"}
    /\ op' = [op EXCEPT ![t] = "failing"]
    /\ UNCHANGED <<runVars, loopVars, estVars, chanVars, open, connected>>

(* Mutant of SignalTunnelFailure: a tunnel that is not in the pool yet is   *)
(* not reported.                                                            *)
SignalActiveFailure(t) ==
    /\ op[t] = "failing" /\ Len(failedTunnels) < FailedCap
    /\ failedTunnels' = IF t \in pool THEN Append(failedTunnels, t) ELSE failedTunnels
    /\ op' = [op EXCEPT ![t] = "off"]
    /\ UNCHANGED <<runVars, loopVars, estVars, connectedTunnels, open, connected>>

(* The operator's last step: runTunnels is told, without waiting *)
SignalTunnelFailure(t) ==
    /\ op[t] = "failing" /\ Len(failedTunnels) < FailedCap
    /\ failedTunnels' = Append(failedTunnels, t)
    /\ op' = [op EXCEPT ![t] = "off"]
    /\ UNCHANGED <<runVars, loopVars, estVars, connectedTunnels, open, connected>>

(* SignalTunnelFailure finds the channel full and calls terminateTunnel:    *)
(* that takes the tunnel out of the pool and closes it, which waits for the *)
(* operator that makes the call. While runTunnels terminates all tunnels it *)
(* does not get the mutex. A tunnel that is not in the pool is left alone.  *)
FailedTunnelsFull(t) ==
    /\ op[t] = "failing" /\ Len(failedTunnels) >= FailedCap /\ ~SelfWait
    /\ \/ /\ t \in pool
          /\ op' = [op EXCEPT ![t] = "stuck"]
          /\ pool' = IF pc = "terminate" THEN pool ELSE pool \ {t}
       \/ /\ t \notin pool
          /\ op' = [op EXCEPT ![t] = "off"] /\ UNCHANGED pool
    /\ UNCHANGED <<runVars, pc, cur, establishedOnce, estVars, chanVars, open, connected>>

(* operateCtx is done *)
OperateStops(t) ==
    /\ op[t] = "stop"
    /\ op' = [op EXCEPT ![t] = "off"]
    /\ UNCHANGED <<runVars, loopVars, estVars, chanVars, open, connected>>

(* stopOperate, the first half of Tunnel.Close, for the tunnels of ts *)
StopOperate(ts) ==
    op' = [t \in Tunnels |-> IF t \in ts /\ op[t] = "run" THEN "stop" ELSE op[t]]
-----------------------------------------------------------------------------
(* runTunnels *)

(* startEstablishing: nothing when workers are already out. It counts the   *)
(* tunnels, as every case of runTunnels does that this is part of.          *)
StartEstablishing ==
    /\ ~SelfWait
    /\ isEstablishing' = TRUE
    /\ \/ isEstablishing /\ UNCHANGED <<estDone, gen, worker>>
       \/ ~isEstablishing /\ estDone' = FALSE /\ gen' = "launch" /\ UNCHANGED worker

(* Mutant of TunnelFailed: the notice counts the pool before the tunnel     *)
(* leaves it.                                                               *)
TunnelFailedStale ==
    /\ pc = "select" /\ failedTunnels # <<>>
    /\ failedTunnels' = Tail(failedTunnels)
    /\ pool' = pool \ {Head(failedTunnels)}
    /\ open' = IF Head(failedTunnels) \in pool THEN open \ {Head(failedTunnels)} ELSE open
    /\ connected' = (pool # {})
    /\ StartEstablishing
    /\ UNCHANGED <<runVars, pc, cur, establishedOnce, connectedTunnels, op>>

(* terminateTunnel and startEstablishing. The operator has ended: sending   *)
(* the failure was its last step. A tunnel that is not in the pool was      *)
(* discarded before and is closed already.                                  *)
TunnelFailed ==
    /\ pc = "select" /\ failedTunnels # <<>>
    /\ LET t == Head(failedTunnels) IN
       /\ failedTunnels' = Tail(failedTunnels)
       /\ pool' = pool \ {t}
       /\ open' = IF t \in pool THEN open \ {t} ELSE open
       /\ connected' = IF t \in pool THEN pool' # {} ELSE connected
    /\ StartEstablishing
    /\ UNCHANGED <<runVars, pc, cur, establishedOnce, connectedTunnels, op>>

(* A tunnel more than the pool wants is discarded *)
SurplusTunnel ==
    /\ pc = "select" /\ connectedTunnels # <<>> /\ IsFull /\ ~SelfWait
    /\ connectedTunnels' = Tail(connectedTunnels)
    /\ open' = open \ {Head(connectedTunnels)}
    /\ UNCHANGED <<runVars, loopVars, estVars, failedTunnels, op, connected>>

(* The last tunnel the pool wants stops the establishing first *)
TunnelConnected ==
    /\ pc = "select" /\ connectedTunnels # <<>> /\ ~IsFull /\ ~SelfWait
    /\ connectedTunnels' = Tail(connectedTunnels)
    /\ cur' = Head(connectedTunnels)
    /\ \/ Cardinality(pool) + 1 < tunnelPoolSize /\ pc' = "activate" /\ UNCHANGED estDone
       \/ Cardinality(pool) + 1 = tunnelPoolSize /\ pc' = "stop" /\ estDone' = TRUE
    /\ UNCHANGED <<runVars, pool, establishedOnce, isEstablishing, gen, worker,
                   failedTunnels, open, op, connected>>

(* stopEstablishing has waited for the establishers *)
StopEstablishing ==
    /\ pc = "stop" /\ EstablishersGone
    /\ pc' = "activate" /\ isEstablishing' = FALSE /\ estDone' = FALSE
    /\ UNCHANGED <<runVars, cur, pool, establishedOnce, gen, worker, chanVars, open, op, connected>>

(* Mutant of ActivateFails: the establishing it stopped is not resumed *)
ActivateFailsQuietly ==
    /\ pc = "activate"
    /\ pc' = "select" /\ cur' = None /\ open' = open \ {cur}
    /\ UNCHANGED <<runVars, pool, establishedOnce, estVars, chanVars, op, connected>>

(* The handshake fails, times out or is cancelled. Establishing starts      *)
(* again after the last tunnel; before the last it still goes on.           *)
ActivateFails ==
    /\ pc = "activate"
    /\ pc' = "select" /\ cur' = None /\ open' = open \ {cur}
    /\ StartEstablishing
    /\ UNCHANGED <<runVars, pool, establishedOnce, chanVars, op, connected>>

Activate ==
    /\ pc = "activate"
    /\ pc' = "register" /\ op' = [op EXCEPT ![cur] = "run"]
    /\ UNCHANGED <<runVars, cur, pool, establishedOnce, estVars, chanVars, open, connected>>

(* registerTunnel finds room. isFullyEstablished is asked once more at the  *)
(* end of the case: the last tunnel has stopped the establishing already.   *)
RegisterTunnel ==
    /\ pc = "register" /\ ~IsFull /\ ~SelfWait
    /\ \A a \in pool : Server[a] # Server[cur]
    /\ pc' = "select" /\ cur' = None
    /\ pool' = pool \cup {cur} /\ establishedOnce' = TRUE /\ connected' = TRUE
    /\ UNCHANGED <<runVars, estVars, chanVars, open, op>>

(* registerTunnel finds another tunnel to the same server: discard *)
DuplicateTunnel ==
    /\ pc = "register" /\ \E a \in pool : Server[a] = Server[cur]
    /\ pc' = "discard" /\ StopOperate({cur})
    /\ StartEstablishing
    /\ UNCHANGED <<runVars, cur, pool, establishedOnce, chanVars, open, connected>>

(* Tunnel.Close has waited for the operator *)
Discard ==
    /\ pc = "discard" /\ op[cur] = "off"
    /\ pc' = "select" /\ cur' = None /\ open' = open \ {cur}
    /\ UNCHANGED <<runVars, pool, establishedOnce, estVars, chanVars, op, connected>>

(* runCtx is done: the loop ends and stops the establishing *)
LeaveLoop ==
    /\ pc = "select" /\ runDone
    /\ pc' = "exit" /\ estDone' = TRUE
    /\ UNCHANGED <<runVars, cur, pool, establishedOnce, isEstablishing, gen, worker,
                   chanVars, open, op, connected>>

(* The establishers are gone; terminateAllTunnels stops the operators *)
StopAll ==
    /\ pc = "exit" /\ EstablishersGone /\ ~SelfWait
    /\ pc' = "terminate" /\ isEstablishing' = FALSE /\ estDone' = FALSE
    /\ StopOperate(pool)
    /\ UNCHANGED <<runVars, cur, pool, establishedOnce, gen, worker, chanVars, open, connected>>

(* terminateAllTunnels has waited for them; then both channels are closed   *)
(* and what they still hold is discarded.                                   *)
TerminateAll ==
    /\ pc = "terminate" /\ \A t \in pool : op[t] = "off"
    /\ pc' = "done" /\ pool' = {} /\ connected' = FALSE
    /\ open' = open \ (pool \cup ToSet(connectedTunnels) \cup ToSet(failedTunnels))
    /\ connectedTunnels' = <<>> /\ failedTunnels' = <<>>
    /\ UNCHANGED <<runVars, cur, establishedOnce, estVars, op>>

Establisher ==
    \/ Launch \/ GeneratorStops \/ GeneratorFails
    \/ \E w \in Workers : WorkerEnds(w) \/ DialFails(w) \/ Deliver(w)
                          \/ \E t \in Tunnels : TakeCandidate(w, t)

RunTunnels ==
    \/ TunnelFailed \/ SurplusTunnel \/ TunnelConnected \/ StopEstablishing
    \/ ActivateFails \/ Activate \/ RegisterTunnel \/ DuplicateTunnel \/ Discard
    \/ LeaveLoop \/ StopAll \/ TerminateAll

ControllerNext ==
    \/ RunFails \/ RunStarts \/ RunReturns \/ WatcherEnds
    \/ Establisher \/ RunTunnels
    \/ \E t \in Tunnels : \/ OperateFails(t) \/ OperateStops(t)
                         \/ SignalTunnelFailure(t) \/ FailedTunnelsFull(t)
-----------------------------------------------------------------------------
(* Every open tunnel has one place that will close it, be it the operator   *)
(* that waits for itself, and once runTunnels has ended nothing is open and *)
(* no goroutine is left that could send on the channels it closed           *)
(* (controller.go, runTunnels and discardTunnel).                           *)
NoTunnelLeak ==
    /\ open \subseteq pool \cup ({cur} \ {None}) \cup ToSet(connectedTunnels)
                     \cup {t \in Tunnels : op[t] = "stuck"}
    /\ pc = "done" => open = {} /\ EstablishersGone /\ \A t \in Tunnels : op[t] = "off"

(* While the pool is short runTunnels has workers out, so a tunnel that is  *)
(* lost or refused is always replaced, unless an operator waits for itself  *)
(* (controller.go, runTunnels and startEstablishing).                       *)
EstablishesWhileShort ==
    pc = "select" /\ ~IsFull => SelfWait \/ (isEstablishing /\ ~estDone)

(* A pool of one tunnel needs no more than one place in failedTunnels: its  *)
(* operator never waits for itself, runTunnels is told of every tunnel that *)
(* has no operator left, and no worker is out beside a tunnel (controller.go,*)
(* SignalTunnelFailure, registerTunnel and stopEstablishing).               *)
PoolOfOne ==
    tunnelPoolSize = 1 =>
        /\ ~SelfWait
        /\ pc = "select" =>
             /\ \A t \in pool : op[t] = "off" => t \in ToSet(failedTunnels)
             /\ IsFull => ~isEstablishing
=============================================================================
