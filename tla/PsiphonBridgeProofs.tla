----------------------- MODULE PsiphonBridgeProofs -----------------------
(***************************************************************************)
(* Proofs about PsiphonBridge and the controller under it, for any number  *)
(* of callers, workers, tunnels and servers, any size of the pool and of   *)
(* the channels. IInv says where a tunnel may be at a time: with a worker, *)
(* in connectedTunnels, in the hands of runTunnels or in the pool, and     *)
(* that its operator runs only in the last two places.                     *)
(***************************************************************************)
EXTENDS PsiphonBridge, SequenceTheorems, FiniteSetTheorems, TLAPS

\* Where runTunnels stands in the life of a controller.
RunInv ==
    /\ run \in {"none", "exited"} => pc \in {"off", "done"}
    /\ run = "new" => pc = "off"
    /\ run = "live" => pc # "off"

\* Before and after runTunnels nothing is left of a run.
QuietInv ==
    /\ pc \in {"off", "done"} =>
         /\ open = {} /\ pool = {}
         /\ connectedTunnels = <<>> /\ failedTunnels = <<>>
         /\ \A t \in Tunnels : op[t] = "off"
    /\ pc \in {"off", "done", "terminate"} => EstablishersGone

\* The tunnel in the hands of runTunnels is nowhere else.
CurInv ==
    /\ pc \in {"stop", "activate", "register", "discard"} =>
         cur \in open /\ cur \notin pool /\ cur \notin ToSet(connectedTunnels)
    /\ pc \notin {"stop", "activate", "register", "discard"} => cur = None
    /\ pc \in {"stop", "activate"} => op[cur] = "off" /\ cur \notin ToSet(failedTunnels)

PoolInv == pool \subseteq open

\* An operator runs for a tunnel that is activated and did not fail; one that
\* waits for itself has taken its tunnel out of the pool before the shutdown.
OpInv ==
    \A t \in Tunnels : op[t] # "off" =>
        /\ t \notin ToSet(failedTunnels)
        /\ t \in pool \/ (t = cur /\ pc \in {"register", "discard"}) \/ op[t] = "stuck"
        /\ op[t] = "stuck" /\ pc = "terminate" => t \in pool

\* What connectedTunnels holds is open, new, and there once.
ConnInv ==
    /\ \A t \in ToSet(connectedTunnels) :
         t \in open /\ t \notin pool /\ t \notin ToSet(failedTunnels)
    /\ IsInjective(connectedTunnels)

\* A worker dials a tunnel nobody else knows.
WorkerInv ==
    \A w \in Workers : worker[w] \in Tunnels =>
        /\ worker[w] \notin open /\ worker[w] \notin ToSet(failedTunnels)
        /\ \A v \in Workers : worker[v] = worker[w] => v = w

OpenInv ==
    open \subseteq pool \cup {cur} \cup ToSet(connectedTunnels) \cup {t \in Tunnels : op[t] = "stuck"}

\* Why a short pool has workers out.
EstInv ==
    /\ estDone => pc \in {"stop", "exit"}
    /\ \/ SelfWait
       \/ /\ pc = "select" /\ ~IsFull => isEstablishing
          /\ pc \in {"activate", "register"} => isEstablishing \/ Cardinality(pool) + 1 = tunnelPoolSize
          /\ pc = "discard" => isEstablishing
          /\ pc = "stop" => Cardinality(pool) + 1 = tunnelPoolSize

\* A pool of one tunnel: no establishing beside it, no failure but its own.
OneInv ==
    tunnelPoolSize = 1 =>
        /\ pc \in {"activate", "register"} => ~isEstablishing
        /\ pc = "select" /\ IsFull => ~isEstablishing
        /\ pc # "discard"
        /\ pc \in {"stop", "activate", "register"} => pool = {}
        /\ \A t, u \in pool : t = u
        /\ ToSet(failedTunnels) \subseteq pool \cup {cur} /\ IsInjective(failedTunnels)

\* A pool of one tunnel: an operator ends by reporting its tunnel, or because
\* the controller shuts down.
AliveInv ==
    tunnelPoolSize = 1 =>
        /\ ~SelfWait
        /\ pc # "terminate" =>
             /\ \A t \in Tunnels : op[t] # "stop"
             /\ \A t \in pool : op[t] = "off" => t \in ToSet(failedTunnels)
        /\ pc = "register" => op[cur] # "off" \/ cur \in ToSet(failedTunnels)

\* Orderly calls do not overlap, and the reset of a stop finds no controller.
CallInv ==
    orderly =>
        /\ \A c, d \in Callers : c # d => call[c] = "idle" \/ call[d] = "idle"
        /\ \A c \in Callers : call[c] = "reset" => run = "none"

TunnelInv == QuietInv /\ CurInv /\ PoolInv /\ OpInv /\ ConnInv /\ WorkerInv /\ OpenInv

IInv == TypeOK /\ RunInv /\ TunnelInv /\ EstInv /\ OneInv /\ AliveInv /\ CallInv
        /\ StatusTruthful


-----------------------------------------------------------------------------
(* The two channels as sequences.                                          *)

\* Receiving from a channel.
LEMMA SetOfTail ==
  ASSUME NEW S, NEW s \in Seq(S), s # <<>>
  PROVE  /\ Head(s) \in S /\ Tail(s) \in Seq(S)
         /\ Head(s) \in ToSet(s)
         /\ ToSet(Tail(s)) \subseteq ToSet(s)
         /\ ToSet(s) \subseteq ToSet(Tail(s)) \cup {Head(s)}
         /\ IsInjective(s) => IsInjective(Tail(s)) /\ Head(s) \notin ToSet(Tail(s))
<1>1. Head(s) \in S /\ Tail(s) \in Seq(S)
  OBVIOUS
<1>2. Head(s) \in ToSet(s)
  BY DEF ToSet
<1>3. ToSet(Tail(s)) \subseteq ToSet(s)
  BY DEF ToSet
<1>4. ToSet(s) \subseteq ToSet(Tail(s)) \cup {Head(s)}
  <2>1. ASSUME NEW i \in 1..Len(s), i # 1
        PROVE  i - 1 \in 1..Len(Tail(s)) /\ Tail(s)[i - 1] = s[i]
    <3>1. Len(Tail(s)) = Len(s) - 1 /\ \A j \in 1..Len(Tail(s)) : Tail(s)[j] = s[j + 1]
      BY HeadTailProperties
    <3>2. Len(s) \in Nat /\ i - 1 \in 1..(Len(s) - 1) /\ (i - 1) + 1 = i
      BY <2>1
    <3> QED BY <3>1, <3>2
  <2>2. DOMAIN s = 1..Len(s) /\ DOMAIN Tail(s) = 1..Len(Tail(s)) /\ Head(s) = s[1]
    OBVIOUS
  <2>3. ASSUME NEW i \in 1..Len(s) PROVE s[i] \in ToSet(Tail(s)) \cup {Head(s)}
    BY <2>1, <2>2 DEF ToSet
  <2> QED
    BY <2>2, <2>3 DEF ToSet
<1>5. IsInjective(s) => IsInjective(Tail(s))
  BY DEF IsInjective
<1>6. IsInjective(s) => Head(s) \notin ToSet(Tail(s))
  BY DEF IsInjective, ToSet
<1> QED BY <1>1, <1>2, <1>3, <1>4, <1>5, <1>6

\* Sending on a channel.
LEMMA SetOfAppend ==
  ASSUME NEW S, NEW s \in Seq(S), NEW x \in S
  PROVE  /\ Append(s, x) \in Seq(S)
         /\ ToSet(Append(s, x)) = ToSet(s) \cup {x}
         /\ IsInjective(s) /\ x \notin ToSet(s) => IsInjective(Append(s, x))
<1>1. DOMAIN Append(s, x) = 1..(Len(s) + 1) /\ DOMAIN s = 1..Len(s) /\ Len(s) \in Nat
  OBVIOUS
<1>2. Append(s, x)[Len(s) + 1] = x /\ \A i \in 1..Len(s) : Append(s, x)[i] = s[i]
  OBVIOUS
<1>3. ToSet(Append(s, x)) \subseteq ToSet(s) \cup {x}
  BY <1>1, <1>2 DEF ToSet
<1>4. ToSet(s) \subseteq ToSet(Append(s, x))
  <2>1. ASSUME NEW i \in 1..Len(s) PROVE \E j \in 1..(Len(s) + 1) : Append(s, x)[j] = s[i]
    BY <1>1, <1>2
  <2> QED BY <2>1, <1>1 DEF ToSet
<1>5. x \in ToSet(Append(s, x))
  <2>1. Len(s) + 1 \in 1..(Len(s) + 1)
    BY <1>1
  <2> QED BY <2>1, <1>1, <1>2 DEF ToSet
<1>6. ASSUME IsInjective(s), x \notin ToSet(s) PROVE IsInjective(Append(s, x))
  <2>1. \A i \in 1..Len(s) : s[i] # x
    BY <1>1, <1>6 DEF ToSet
  <2>2. \A i, j \in 1..Len(s) : s[i] = s[j] => i = j
    BY <1>1, <1>6 DEF IsInjective
  <2>3. \A i, j \in 1..(Len(s) + 1) : Append(s, x)[i] = Append(s, x)[j] => i = j
    BY <1>1, <1>2, <2>1, <2>2
  <2> QED BY <1>1, <2>3 DEF IsInjective
<1>7. Append(s, x) \in Seq(S)
  OBVIOUS
<1> QED BY <1>3, <1>4, <1>5, <1>6, <1>7

LEMMA SetInSeq == ASSUME NEW S, NEW s \in Seq(S) PROVE ToSet(s) \subseteq S
  BY DEF ToSet

LEMMA SetOfEmpty == ToSet(<<>>) = {} /\ IsInjective(<<>>)
  BY DEF ToSet, IsInjective

\* A worker delivers its tunnel, or the channel is full.
LEMMA Delivered ==
  ASSUME PlacesOK, NEW w \in Workers, Deliver(w)
  PROVE  /\ worker[w] \in Tunnels /\ worker' = [worker EXCEPT ![w] = "idle"]
         /\ UNCHANGED <<run, tunnelPoolSize, watcher, pc, cur, pool, gen, isEstablishing, estDone, failedTunnels, op>>
         /\ \/ UNCHANGED <<open, connectedTunnels>>
            \/ /\ open' = open \cup {worker[w]}
               /\ connectedTunnels' \in Seq(Tunnels)
               /\ ToSet(connectedTunnels') = ToSet(connectedTunnels) \cup {worker[w]}
               /\ IsInjective(connectedTunnels) /\ worker[w] \notin ToSet(connectedTunnels)
                    => IsInjective(connectedTunnels')
<1>1. CASE connectedTunnels' = Append(connectedTunnels, worker[w]) /\ open' = open \cup {worker[w]}
  <2> DEFINE s == Append(connectedTunnels, worker[w])
  <2>1. worker[w] \in Tunnels
    BY DEF Deliver
  <2>2. /\ s \in Seq(Tunnels) /\ ToSet(s) = ToSet(connectedTunnels) \cup {worker[w]}
        /\ IsInjective(connectedTunnels) /\ worker[w] \notin ToSet(connectedTunnels)
             => IsInjective(s)
    BY <2>1, SetOfAppend DEF PlacesOK
  <2>3. connectedTunnels' = s
    BY <1>1
  <2>4. worker' = [worker EXCEPT ![w] = "idle"]
        /\ UNCHANGED <<run, tunnelPoolSize, watcher, pc, cur, pool, gen, isEstablishing, estDone, failedTunnels, op>>
    BY DEF Deliver, runVars, loopVars
  <2> HIDE DEF s
  <2> QED BY <1>1, <2>1, <2>2, <2>3, <2>4
<1>2. CASE UNCHANGED <<open, connectedTunnels>>
  BY <1>2 DEF Deliver, runVars, loopVars
<1> QED BY <1>1, <1>2 DEF Deliver

\* The size of the pool.
LEMMA PoolSize ==
  ASSUME PlacesOK
  PROVE  /\ Cardinality(pool) \in Nat /\ tunnelPoolSize \in Nat /\ tunnelPoolSize # 0
         /\ Cardinality(pool) = 0 <=> pool = {}
         /\ \A t \in Tunnels \ pool : Cardinality(pool \cup {t}) = Cardinality(pool) + 1
         /\ Cardinality({}) = 0
<1>1. IsFiniteSet(pool)
  BY ControllerAssumption, FS_Subset DEF PlacesOK
<1>2. tunnelPoolSize \in Nat /\ tunnelPoolSize # 0
  BY ControllerAssumption DEF PlacesOK
<1> QED BY <1>1, <1>2, FS_CardinalityType, FS_EmptySet, FS_AddElement


\* No controller at the start.
LEMMA InitIInv == Init => IInv
<1> SUFFICES ASSUME Init PROVE IInv
  OBVIOUS
<1> USE ControllerAssumption, CallersAssumption, SetOfEmpty DEF Init, ControllerInit
<1>1. connectedTunnels \in Seq(Tunnels) /\ failedTunnels \in Seq(Tunnels)
  OBVIOUS
<1>4. TypeOK
  BY <1>1 DEF TypeOK, ControllerTypeOK, FlagsOK, PlacesOK
<1>2. RunInv /\ TunnelInv
  BY DEF RunInv, TunnelInv, QuietInv, CurInv, PoolInv, OpInv, ConnInv, WorkerInv,
     OpenInv, EstablishersGone
<1>3. EstInv /\ OneInv /\ AliveInv /\ CallInv /\ StatusTruthful
  BY DEF EstInv, OneInv, AliveInv, CallInv, StatusTruthful, SelfWait
<1> QED BY <1>2, <1>3, <1>4 DEF IInv

-----------------------------------------------------------------------------
(* The controller's steps.                                                 *)


\* Types.
LEMMA StepPlacesOK ==
  ASSUME PlacesOK, CurInv, ControllerNext PROVE PlacesOK'
<1> USE ControllerAssumption DEF PlacesOK, CurInv, runVars, loopVars, estVars, chanVars
<1>1. CASE RunFails \/ RunStarts \/ RunReturns \/ WatcherEnds
  BY <1>1 DEF RunFails, RunStarts, RunReturns, WatcherEnds
<1>2. CASE Launch \/ GeneratorStops \/ GeneratorFails
  BY <1>2 DEF Launch, GeneratorStops, GeneratorFails
<1>3. ASSUME NEW w \in Workers, WorkerEnds(w) \/ DialFails(w) PROVE PlacesOK'
  BY <1>3 DEF WorkerEnds, DialFails
<1>4. ASSUME NEW w \in Workers, Deliver(w) PROVE PlacesOK'
  BY <1>4, Delivered
<1>5. ASSUME NEW w \in Workers, NEW t \in Tunnels, TakeCandidate(w, t) PROVE PlacesOK'
  BY <1>5 DEF TakeCandidate, Fresh
<1>6. CASE TunnelFailed
  BY <1>6, SetOfTail DEF TunnelFailed, StartEstablishing
<1>7. CASE SurplusTunnel
  BY <1>7, SetOfTail DEF SurplusTunnel
<1>8. CASE TunnelConnected
  BY <1>8, SetOfTail DEF TunnelConnected
<1>9. CASE StopEstablishing
  BY <1>9 DEF StopEstablishing
<1>10. CASE ActivateFails
  BY <1>10 DEF ActivateFails, StartEstablishing
<1>11. CASE Activate
  BY <1>11 DEF Activate
<1>12. CASE RegisterTunnel
  BY <1>12 DEF RegisterTunnel
<1>13. CASE DuplicateTunnel
  BY <1>13 DEF DuplicateTunnel, StartEstablishing, StopOperate
<1>14. CASE Discard
  BY <1>14 DEF Discard
<1>15. CASE LeaveLoop
  BY <1>15 DEF LeaveLoop
<1>16. CASE StopAll
  BY <1>16 DEF StopAll, StopOperate
<1>17. CASE TerminateAll
  BY <1>17, SetOfEmpty DEF TerminateAll
<1>18. ASSUME NEW t \in Tunnels, OperateFails(t) \/ OperateStops(t) PROVE PlacesOK'
  BY <1>18 DEF OperateFails, OperateStops
<1>19. ASSUME NEW t \in Tunnels, SignalTunnelFailure(t) PROVE PlacesOK'
  BY <1>19, SetOfAppend DEF SignalTunnelFailure
<1>20. ASSUME NEW t \in Tunnels, FailedTunnelsFull(t) PROVE PlacesOK'
  BY <1>20 DEF FailedTunnelsFull
<1> QED
  BY ControllerNext, <1>1, <1>2, <1>3, <1>4, <1>5, <1>6, <1>7, <1>8, <1>9, <1>10, <1>11,
     <1>12, <1>13, <1>14, <1>15, <1>16, <1>17, <1>18, <1>19, <1>20 DEF ControllerNext,
     Establisher, RunTunnels

\* Run begins and ends with runTunnels.
LEMMA StepRunInv ==
  ASSUME RunInv, PlacesOK, QuietInv, ControllerNext PROVE RunInv'
<1> USE ControllerAssumption DEF RunInv, PlacesOK, QuietInv, runVars, loopVars, estVars,
   chanVars
<1>1. CASE RunFails \/ RunStarts \/ RunReturns \/ WatcherEnds
  BY <1>1 DEF RunFails, RunStarts, RunReturns, WatcherEnds
<1>2. CASE Launch \/ GeneratorStops \/ GeneratorFails
  BY <1>2 DEF Launch, GeneratorStops, GeneratorFails
<1>3. ASSUME NEW w \in Workers, WorkerEnds(w) \/ DialFails(w) PROVE RunInv'
  BY <1>3 DEF WorkerEnds, DialFails
<1>4. ASSUME NEW w \in Workers, Deliver(w) PROVE RunInv'
  BY <1>4, Delivered
<1>5. ASSUME NEW w \in Workers, NEW t \in Tunnels, TakeCandidate(w, t) PROVE RunInv'
  BY <1>5 DEF TakeCandidate, Fresh
<1>6. CASE TunnelFailed
  BY <1>6, SetOfTail DEF TunnelFailed, StartEstablishing
<1>7. CASE SurplusTunnel
  BY <1>7, SetOfTail DEF SurplusTunnel
<1>8. CASE TunnelConnected
  BY <1>8, SetOfTail DEF TunnelConnected
<1>9. CASE StopEstablishing
  BY <1>9 DEF StopEstablishing
<1>10. CASE ActivateFails
  BY <1>10 DEF ActivateFails, StartEstablishing
<1>11. CASE Activate
  BY <1>11 DEF Activate
<1>12. CASE RegisterTunnel
  BY <1>12 DEF RegisterTunnel
<1>13. CASE DuplicateTunnel
  BY <1>13 DEF DuplicateTunnel, StartEstablishing, StopOperate
<1>14. CASE Discard
  BY <1>14 DEF Discard
<1>15. CASE LeaveLoop
  BY <1>15 DEF LeaveLoop
<1>16. CASE StopAll
  BY <1>16 DEF StopAll, StopOperate
<1>17. CASE TerminateAll
  BY <1>17, SetOfEmpty DEF TerminateAll
<1>18. ASSUME NEW t \in Tunnels, OperateFails(t) \/ OperateStops(t) PROVE RunInv'
  BY <1>18 DEF OperateFails, OperateStops
<1>19. ASSUME NEW t \in Tunnels, SignalTunnelFailure(t) PROVE RunInv'
  BY <1>19, SetOfAppend DEF SignalTunnelFailure
<1>20. ASSUME NEW t \in Tunnels, FailedTunnelsFull(t) PROVE RunInv'
  BY <1>20 DEF FailedTunnelsFull
<1> QED
  BY ControllerNext, <1>1, <1>2, <1>3, <1>4, <1>5, <1>6, <1>7, <1>8, <1>9, <1>10, <1>11,
     <1>12, <1>13, <1>14, <1>15, <1>16, <1>17, <1>18, <1>19, <1>20 DEF ControllerNext,
     Establisher, RunTunnels

\* What the end of runTunnels finds and leaves.
LEMMA StepQuietInv ==
  ASSUME QuietInv, PlacesOK, RunInv, CurInv, OpInv, OpenInv, ControllerNext PROVE QuietInv'
<1> USE ControllerAssumption DEF QuietInv, PlacesOK, RunInv, CurInv, OpInv, OpenInv,
   runVars, loopVars, estVars, chanVars
<1>1. CASE RunFails \/ RunStarts \/ RunReturns \/ WatcherEnds
  BY <1>1 DEF RunFails, RunStarts, RunReturns, WatcherEnds, EstablishersGone
<1>2. CASE Launch \/ GeneratorStops \/ GeneratorFails
  BY <1>2 DEF Launch, GeneratorStops, GeneratorFails, EstablishersGone
<1>3. ASSUME NEW w \in Workers, WorkerEnds(w) \/ DialFails(w) PROVE QuietInv'
  BY <1>3 DEF WorkerEnds, DialFails, EstablishersGone
<1>4. ASSUME NEW w \in Workers, Deliver(w) PROVE QuietInv'
  BY <1>4, Delivered DEF EstablishersGone
<1>5. ASSUME NEW w \in Workers, NEW t \in Tunnels, TakeCandidate(w, t) PROVE QuietInv'
  BY <1>5 DEF TakeCandidate, Fresh, EstablishersGone
<1>6. CASE TunnelFailed
  BY <1>6, SetOfTail DEF TunnelFailed, StartEstablishing, EstablishersGone
<1>7. CASE SurplusTunnel
  BY <1>7, SetOfTail DEF SurplusTunnel, EstablishersGone
<1>8. CASE TunnelConnected
  BY <1>8, SetOfTail DEF TunnelConnected, EstablishersGone
<1>9. CASE StopEstablishing
  BY <1>9 DEF StopEstablishing, EstablishersGone
<1>10. CASE ActivateFails
  BY <1>10 DEF ActivateFails, StartEstablishing, EstablishersGone
<1>11. CASE Activate
  BY <1>11 DEF Activate, EstablishersGone
<1>12. CASE RegisterTunnel
  BY <1>12 DEF RegisterTunnel, EstablishersGone
<1>13. CASE DuplicateTunnel
  BY <1>13 DEF DuplicateTunnel, StartEstablishing, StopOperate, EstablishersGone
<1>14. CASE Discard
  BY <1>14 DEF Discard, EstablishersGone
<1>15. CASE LeaveLoop
  BY <1>15 DEF LeaveLoop, EstablishersGone
<1>16. CASE StopAll
  BY <1>16 DEF StopAll, StopOperate, EstablishersGone
<1>17. CASE TerminateAll
  BY <1>17, SetOfEmpty DEF TerminateAll, EstablishersGone
<1>18. ASSUME NEW t \in Tunnels, OperateFails(t) \/ OperateStops(t) PROVE QuietInv'
  BY <1>18 DEF OperateFails, OperateStops, EstablishersGone
<1>19. ASSUME NEW t \in Tunnels, SignalTunnelFailure(t) PROVE QuietInv'
  BY <1>19, SetOfAppend DEF SignalTunnelFailure, EstablishersGone
<1>20. ASSUME NEW t \in Tunnels, FailedTunnelsFull(t) PROVE QuietInv'
  BY <1>20 DEF FailedTunnelsFull, EstablishersGone
<1> QED
  BY ControllerNext, <1>1, <1>2, <1>3, <1>4, <1>5, <1>6, <1>7, <1>8, <1>9, <1>10, <1>11,
     <1>12, <1>13, <1>14, <1>15, <1>16, <1>17, <1>18, <1>19, <1>20 DEF ControllerNext,
     Establisher, RunTunnels

\* runTunnels takes one tunnel at a time from connectedTunnels.
LEMMA StepCurInv ==
  ASSUME CurInv, PlacesOK, OpInv, ConnInv, WorkerInv, PoolInv, QuietInv, RunInv, ControllerNext PROVE CurInv'
<1> USE ControllerAssumption DEF CurInv, PlacesOK, OpInv, ConnInv, WorkerInv, PoolInv,
   QuietInv, RunInv, runVars, loopVars, estVars, chanVars
<1>1. CASE RunFails \/ RunStarts \/ RunReturns \/ WatcherEnds
  BY <1>1 DEF RunFails, RunStarts, RunReturns, WatcherEnds
<1>2. CASE Launch \/ GeneratorStops \/ GeneratorFails
  BY <1>2 DEF Launch, GeneratorStops, GeneratorFails
<1>3. ASSUME NEW w \in Workers, WorkerEnds(w) \/ DialFails(w) PROVE CurInv'
  BY <1>3 DEF WorkerEnds, DialFails
<1>4. ASSUME NEW w \in Workers, Deliver(w) PROVE CurInv'
  BY <1>4, Delivered
<1>5. ASSUME NEW w \in Workers, NEW t \in Tunnels, TakeCandidate(w, t) PROVE CurInv'
  BY <1>5 DEF TakeCandidate, Fresh
<1>6. CASE TunnelFailed
  BY <1>6, SetOfTail DEF TunnelFailed, StartEstablishing
<1>7. CASE SurplusTunnel
  BY <1>7, SetOfTail DEF SurplusTunnel
<1>8. CASE TunnelConnected
  BY <1>8, SetOfTail DEF TunnelConnected, SelfWait
<1>9. CASE StopEstablishing
  BY <1>9 DEF StopEstablishing
<1>10. CASE ActivateFails
  BY <1>10 DEF ActivateFails, StartEstablishing
<1>11. CASE Activate
  BY <1>11 DEF Activate
<1>12. CASE RegisterTunnel
  BY <1>12 DEF RegisterTunnel
<1>13. CASE DuplicateTunnel
  BY <1>13 DEF DuplicateTunnel, StartEstablishing, StopOperate
<1>14. CASE Discard
  BY <1>14 DEF Discard
<1>15. CASE LeaveLoop
  BY <1>15 DEF LeaveLoop
<1>16. CASE StopAll
  BY <1>16 DEF StopAll, StopOperate
<1>17. CASE TerminateAll
  BY <1>17, SetOfEmpty DEF TerminateAll
<1>18. ASSUME NEW t \in Tunnels, OperateFails(t) \/ OperateStops(t) PROVE CurInv'
  BY <1>18 DEF OperateFails, OperateStops
<1>19. ASSUME NEW t \in Tunnels, SignalTunnelFailure(t) PROVE CurInv'
  BY <1>19, SetOfAppend DEF SignalTunnelFailure
<1>20. ASSUME NEW t \in Tunnels, FailedTunnelsFull(t) PROVE CurInv'
  BY <1>20 DEF FailedTunnelsFull
<1> QED
  BY ControllerNext, <1>1, <1>2, <1>3, <1>4, <1>5, <1>6, <1>7, <1>8, <1>9, <1>10, <1>11,
     <1>12, <1>13, <1>14, <1>15, <1>16, <1>17, <1>18, <1>19, <1>20 DEF ControllerNext,
     Establisher, RunTunnels

\* A tunnel leaves the pool no later than it is closed.
LEMMA StepPoolInv ==
  ASSUME PoolInv, PlacesOK, CurInv, ConnInv, ControllerNext PROVE PoolInv'
<1> USE ControllerAssumption DEF PoolInv, PlacesOK, CurInv, ConnInv, runVars, loopVars,
   estVars, chanVars
<1>1. CASE RunFails \/ RunStarts \/ RunReturns \/ WatcherEnds
  BY <1>1 DEF RunFails, RunStarts, RunReturns, WatcherEnds
<1>2. CASE Launch \/ GeneratorStops \/ GeneratorFails
  BY <1>2 DEF Launch, GeneratorStops, GeneratorFails
<1>3. ASSUME NEW w \in Workers, WorkerEnds(w) \/ DialFails(w) PROVE PoolInv'
  BY <1>3 DEF WorkerEnds, DialFails
<1>4. ASSUME NEW w \in Workers, Deliver(w) PROVE PoolInv'
  BY <1>4, Delivered
<1>5. ASSUME NEW w \in Workers, NEW t \in Tunnels, TakeCandidate(w, t) PROVE PoolInv'
  BY <1>5 DEF TakeCandidate, Fresh
<1>6. CASE TunnelFailed
  BY <1>6, SetOfTail DEF TunnelFailed, StartEstablishing
<1>7. CASE SurplusTunnel
  BY <1>7, SetOfTail DEF SurplusTunnel
<1>8. CASE TunnelConnected
  BY <1>8, SetOfTail DEF TunnelConnected
<1>9. CASE StopEstablishing
  BY <1>9 DEF StopEstablishing
<1>10. CASE ActivateFails
  BY <1>10 DEF ActivateFails, StartEstablishing
<1>11. CASE Activate
  BY <1>11 DEF Activate
<1>12. CASE RegisterTunnel
  BY <1>12 DEF RegisterTunnel
<1>13. CASE DuplicateTunnel
  BY <1>13 DEF DuplicateTunnel, StartEstablishing, StopOperate
<1>14. CASE Discard
  BY <1>14 DEF Discard
<1>15. CASE LeaveLoop
  BY <1>15 DEF LeaveLoop
<1>16. CASE StopAll
  BY <1>16 DEF StopAll, StopOperate
<1>17. CASE TerminateAll
  BY <1>17, SetOfEmpty DEF TerminateAll
<1>18. ASSUME NEW t \in Tunnels, OperateFails(t) \/ OperateStops(t) PROVE PoolInv'
  BY <1>18 DEF OperateFails, OperateStops
<1>19. ASSUME NEW t \in Tunnels, SignalTunnelFailure(t) PROVE PoolInv'
  BY <1>19, SetOfAppend DEF SignalTunnelFailure
<1>20. ASSUME NEW t \in Tunnels, FailedTunnelsFull(t) PROVE PoolInv'
  BY <1>20 DEF FailedTunnelsFull
<1> QED
  BY ControllerNext, <1>1, <1>2, <1>3, <1>4, <1>5, <1>6, <1>7, <1>8, <1>9, <1>10, <1>11,
     <1>12, <1>13, <1>14, <1>15, <1>16, <1>17, <1>18, <1>19, <1>20 DEF ControllerNext,
     Establisher, RunTunnels

\* An operator ends before its tunnel leaves, or by reporting it.
LEMMA StepOpInv ==
  ASSUME OpInv, PlacesOK, RunInv, CurInv, ConnInv, PoolInv, ControllerNext PROVE OpInv'
<1> USE ControllerAssumption DEF OpInv, PlacesOK, RunInv, CurInv, ConnInv, PoolInv,
   runVars, loopVars, estVars, chanVars
<1>1. CASE RunFails \/ RunStarts \/ RunReturns \/ WatcherEnds
  BY <1>1 DEF RunFails, RunStarts, RunReturns, WatcherEnds
<1>2. CASE Launch \/ GeneratorStops \/ GeneratorFails
  BY <1>2 DEF Launch, GeneratorStops, GeneratorFails
<1>3. ASSUME NEW w \in Workers, WorkerEnds(w) \/ DialFails(w) PROVE OpInv'
  BY <1>3 DEF WorkerEnds, DialFails
<1>4. ASSUME NEW w \in Workers, Deliver(w) PROVE OpInv'
  BY <1>4, Delivered
<1>5. ASSUME NEW w \in Workers, NEW t \in Tunnels, TakeCandidate(w, t) PROVE OpInv'
  BY <1>5 DEF TakeCandidate, Fresh
<1>6. CASE TunnelFailed
  BY <1>6, SetOfTail DEF TunnelFailed, StartEstablishing
<1>7. CASE SurplusTunnel
  BY <1>7, SetOfTail DEF SurplusTunnel
<1>8. CASE TunnelConnected
  BY <1>8, SetOfTail DEF TunnelConnected
<1>9. CASE StopEstablishing
  BY <1>9 DEF StopEstablishing
<1>10. CASE ActivateFails
  BY <1>10 DEF ActivateFails, StartEstablishing
<1>11. CASE Activate
  BY <1>11 DEF Activate
<1>12. CASE RegisterTunnel
  BY <1>12 DEF RegisterTunnel
<1>13. CASE DuplicateTunnel
  BY <1>13 DEF DuplicateTunnel, StartEstablishing, StopOperate
<1>14. CASE Discard
  BY <1>14 DEF Discard
<1>15. CASE LeaveLoop
  BY <1>15 DEF LeaveLoop
<1>16. CASE StopAll
  BY <1>16 DEF StopAll, StopOperate, SelfWait
<1>17. CASE TerminateAll
  BY <1>17, SetOfEmpty DEF TerminateAll
<1>18. ASSUME NEW t \in Tunnels, OperateFails(t) \/ OperateStops(t) PROVE OpInv'
  BY <1>18 DEF OperateFails, OperateStops
<1>19. ASSUME NEW t \in Tunnels, SignalTunnelFailure(t) PROVE OpInv'
  BY <1>19, SetOfAppend DEF SignalTunnelFailure
<1>20. ASSUME NEW t \in Tunnels, FailedTunnelsFull(t) PROVE OpInv'
  BY <1>20 DEF FailedTunnelsFull
<1> QED
  BY ControllerNext, <1>1, <1>2, <1>3, <1>4, <1>5, <1>6, <1>7, <1>8, <1>9, <1>10, <1>11,
     <1>12, <1>13, <1>14, <1>15, <1>16, <1>17, <1>18, <1>19, <1>20 DEF ControllerNext,
     Establisher, RunTunnels

\* A worker delivers a tunnel once.
LEMMA StepConnInv ==
  ASSUME ConnInv, PlacesOK, CurInv, OpInv, WorkerInv, PoolInv, ControllerNext PROVE ConnInv'
<1> USE ControllerAssumption DEF ConnInv, PlacesOK, CurInv, OpInv, WorkerInv, PoolInv,
   runVars, loopVars, estVars, chanVars
<1>1. CASE RunFails \/ RunStarts \/ RunReturns \/ WatcherEnds
  BY <1>1 DEF RunFails, RunStarts, RunReturns, WatcherEnds
<1>2. CASE Launch \/ GeneratorStops \/ GeneratorFails
  BY <1>2 DEF Launch, GeneratorStops, GeneratorFails
<1>3. ASSUME NEW w \in Workers, WorkerEnds(w) \/ DialFails(w) PROVE ConnInv'
  BY <1>3 DEF WorkerEnds, DialFails
<1>4. ASSUME NEW w \in Workers, Deliver(w) PROVE ConnInv'
  BY <1>4, Delivered
<1>5. ASSUME NEW w \in Workers, NEW t \in Tunnels, TakeCandidate(w, t) PROVE ConnInv'
  BY <1>5 DEF TakeCandidate, Fresh
<1>6. CASE TunnelFailed
  BY <1>6, SetOfTail DEF TunnelFailed, StartEstablishing
<1>7. CASE SurplusTunnel
  BY <1>7, SetOfTail DEF SurplusTunnel
<1>8. CASE TunnelConnected
  BY <1>8, SetOfTail DEF TunnelConnected
<1>9. CASE StopEstablishing
  BY <1>9 DEF StopEstablishing
<1>10. CASE ActivateFails
  BY <1>10 DEF ActivateFails, StartEstablishing
<1>11. CASE Activate
  BY <1>11 DEF Activate
<1>12. CASE RegisterTunnel
  BY <1>12 DEF RegisterTunnel
<1>13. CASE DuplicateTunnel
  BY <1>13 DEF DuplicateTunnel, StartEstablishing, StopOperate
<1>14. CASE Discard
  BY <1>14 DEF Discard
<1>15. CASE LeaveLoop
  BY <1>15 DEF LeaveLoop
<1>16. CASE StopAll
  BY <1>16 DEF StopAll, StopOperate
<1>17. CASE TerminateAll
  BY <1>17, SetOfEmpty DEF TerminateAll
<1>18. ASSUME NEW t \in Tunnels, OperateFails(t) \/ OperateStops(t) PROVE ConnInv'
  BY <1>18 DEF OperateFails, OperateStops
<1>19. ASSUME NEW t \in Tunnels, SignalTunnelFailure(t) PROVE ConnInv'
  BY <1>19, SetOfAppend DEF SignalTunnelFailure
<1>20. ASSUME NEW t \in Tunnels, FailedTunnelsFull(t) PROVE ConnInv'
  BY <1>20 DEF FailedTunnelsFull
<1> QED
  BY ControllerNext, <1>1, <1>2, <1>3, <1>4, <1>5, <1>6, <1>7, <1>8, <1>9, <1>10, <1>11,
     <1>12, <1>13, <1>14, <1>15, <1>16, <1>17, <1>18, <1>19, <1>20 DEF ControllerNext,
     Establisher, RunTunnels

\* A candidate's tunnel is new.
LEMMA StepWorkerInv ==
  ASSUME WorkerInv, PlacesOK, CurInv, PoolInv, OpInv, ControllerNext PROVE WorkerInv'
<1> USE ControllerAssumption DEF WorkerInv, PlacesOK, CurInv, PoolInv, OpInv, runVars,
   loopVars, estVars, chanVars
<1>1. CASE RunFails \/ RunStarts \/ RunReturns \/ WatcherEnds
  BY <1>1 DEF RunFails, RunStarts, RunReturns, WatcherEnds
<1>2. CASE Launch \/ GeneratorStops \/ GeneratorFails
  BY <1>2 DEF Launch, GeneratorStops, GeneratorFails
<1>3. ASSUME NEW w \in Workers, WorkerEnds(w) \/ DialFails(w) PROVE WorkerInv'
  BY <1>3 DEF WorkerEnds, DialFails
<1>4. ASSUME NEW w \in Workers, Deliver(w) PROVE WorkerInv'
  BY <1>4, Delivered
<1>5. ASSUME NEW w \in Workers, NEW t \in Tunnels, TakeCandidate(w, t) PROVE WorkerInv'
  BY <1>5 DEF TakeCandidate, Fresh
<1>6. CASE TunnelFailed
  BY <1>6, SetOfTail DEF TunnelFailed, StartEstablishing
<1>7. CASE SurplusTunnel
  BY <1>7, SetOfTail DEF SurplusTunnel
<1>8. CASE TunnelConnected
  BY <1>8, SetOfTail DEF TunnelConnected
<1>9. CASE StopEstablishing
  BY <1>9 DEF StopEstablishing
<1>10. CASE ActivateFails
  BY <1>10 DEF ActivateFails, StartEstablishing
<1>11. CASE Activate
  BY <1>11 DEF Activate
<1>12. CASE RegisterTunnel
  BY <1>12 DEF RegisterTunnel
<1>13. CASE DuplicateTunnel
  BY <1>13 DEF DuplicateTunnel, StartEstablishing, StopOperate
<1>14. CASE Discard
  BY <1>14 DEF Discard
<1>15. CASE LeaveLoop
  BY <1>15 DEF LeaveLoop
<1>16. CASE StopAll
  BY <1>16 DEF StopAll, StopOperate
<1>17. CASE TerminateAll
  BY <1>17, SetOfEmpty DEF TerminateAll
<1>18. ASSUME NEW t \in Tunnels, OperateFails(t) \/ OperateStops(t) PROVE WorkerInv'
  BY <1>18 DEF OperateFails, OperateStops
<1>19. ASSUME NEW t \in Tunnels, SignalTunnelFailure(t) PROVE WorkerInv'
  BY <1>19, SetOfAppend DEF SignalTunnelFailure
<1>20. ASSUME NEW t \in Tunnels, FailedTunnelsFull(t) PROVE WorkerInv'
  BY <1>20 DEF FailedTunnelsFull
<1> QED
  BY ControllerNext, <1>1, <1>2, <1>3, <1>4, <1>5, <1>6, <1>7, <1>8, <1>9, <1>10, <1>11,
     <1>12, <1>13, <1>14, <1>15, <1>16, <1>17, <1>18, <1>19, <1>20 DEF ControllerNext,
     Establisher, RunTunnels

\* A connection is closed when its tunnel leaves the last place it was at.
LEMMA StepOpenInv ==
  ASSUME OpenInv, PlacesOK, CurInv, ControllerNext PROVE OpenInv'
<1> USE ControllerAssumption DEF OpenInv, PlacesOK, CurInv, runVars, loopVars, estVars,
   chanVars
<1>1. CASE RunFails \/ RunStarts \/ RunReturns \/ WatcherEnds
  BY <1>1 DEF RunFails, RunStarts, RunReturns, WatcherEnds
<1>2. CASE Launch \/ GeneratorStops \/ GeneratorFails
  BY <1>2 DEF Launch, GeneratorStops, GeneratorFails
<1>3. ASSUME NEW w \in Workers, WorkerEnds(w) \/ DialFails(w) PROVE OpenInv'
  BY <1>3 DEF WorkerEnds, DialFails
<1>4. ASSUME NEW w \in Workers, Deliver(w) PROVE OpenInv'
  BY <1>4, Delivered
<1>5. ASSUME NEW w \in Workers, NEW t \in Tunnels, TakeCandidate(w, t) PROVE OpenInv'
  BY <1>5 DEF TakeCandidate, Fresh
<1>6. CASE TunnelFailed
  BY <1>6, SetOfTail DEF TunnelFailed, StartEstablishing
<1>7. CASE SurplusTunnel
  BY <1>7, SetOfTail DEF SurplusTunnel
<1>8. CASE TunnelConnected
  BY <1>8, SetOfTail DEF TunnelConnected
<1>9. CASE StopEstablishing
  BY <1>9 DEF StopEstablishing
<1>10. CASE ActivateFails
  BY <1>10 DEF ActivateFails, StartEstablishing
<1>11. CASE Activate
  BY <1>11 DEF Activate
<1>12. CASE RegisterTunnel
  BY <1>12 DEF RegisterTunnel
<1>13. CASE DuplicateTunnel
  BY <1>13 DEF DuplicateTunnel, StartEstablishing, StopOperate
<1>14. CASE Discard
  BY <1>14 DEF Discard
<1>15. CASE LeaveLoop
  BY <1>15 DEF LeaveLoop
<1>16. CASE StopAll
  BY <1>16 DEF StopAll, StopOperate
<1>17. CASE TerminateAll
  BY <1>17, SetOfEmpty DEF TerminateAll
<1>18. ASSUME NEW t \in Tunnels, OperateFails(t) \/ OperateStops(t) PROVE OpenInv'
  BY <1>18 DEF OperateFails, OperateStops
<1>19. ASSUME NEW t \in Tunnels, SignalTunnelFailure(t) PROVE OpenInv'
  BY <1>19, SetOfAppend DEF SignalTunnelFailure
<1>20. ASSUME NEW t \in Tunnels, FailedTunnelsFull(t) PROVE OpenInv'
  BY <1>20 DEF FailedTunnelsFull
<1> QED
  BY ControllerNext, <1>1, <1>2, <1>3, <1>4, <1>5, <1>6, <1>7, <1>8, <1>9, <1>10, <1>11,
     <1>12, <1>13, <1>14, <1>15, <1>16, <1>17, <1>18, <1>19, <1>20 DEF ControllerNext,
     Establisher, RunTunnels

\* Establishing is stopped for the last tunnel only, and resumed if it fails.
LEMMA StepEstInv ==
  ASSUME EstInv, PlacesOK, RunInv, CurInv, ControllerNext PROVE EstInv'
<1> USE ControllerAssumption DEF EstInv, PlacesOK, RunInv, CurInv, runVars, loopVars,
   estVars, chanVars, SelfWait
<1>1. CASE RunFails \/ RunStarts \/ RunReturns \/ WatcherEnds
  BY <1>1, PoolSize DEF RunFails, RunStarts, RunReturns, WatcherEnds, IsFull
<1>2. CASE Launch \/ GeneratorStops \/ GeneratorFails
  BY <1>2, PoolSize DEF Launch, GeneratorStops, GeneratorFails, IsFull
<1>3. ASSUME NEW w \in Workers, WorkerEnds(w) \/ DialFails(w) PROVE EstInv'
  BY <1>3, PoolSize DEF WorkerEnds, DialFails, IsFull
<1>4. ASSUME NEW w \in Workers, Deliver(w) PROVE EstInv'
  BY <1>4, Delivered DEF IsFull
<1>5. ASSUME NEW w \in Workers, NEW t \in Tunnels, TakeCandidate(w, t) PROVE EstInv'
  BY <1>5, PoolSize DEF TakeCandidate, Fresh, IsFull
<1>6. CASE TunnelFailed
  BY <1>6, SetOfTail, PoolSize DEF TunnelFailed, StartEstablishing, IsFull
<1>7. CASE SurplusTunnel
  BY <1>7, SetOfTail, PoolSize DEF SurplusTunnel, IsFull
<1>8. CASE TunnelConnected
  BY <1>8, SetOfTail, PoolSize DEF TunnelConnected, IsFull
<1>9. CASE StopEstablishing
  BY <1>9, PoolSize DEF StopEstablishing, IsFull
<1>10. CASE ActivateFails
  BY <1>10, PoolSize DEF ActivateFails, StartEstablishing, IsFull
<1>11. CASE Activate
  BY <1>11, PoolSize DEF Activate, IsFull
<1>12. CASE RegisterTunnel
  BY <1>12, PoolSize DEF RegisterTunnel, IsFull
<1>13. CASE DuplicateTunnel
  BY <1>13, PoolSize DEF DuplicateTunnel, StartEstablishing, StopOperate, IsFull
<1>14. CASE Discard
  BY <1>14, PoolSize DEF Discard, IsFull
<1>15. CASE LeaveLoop
  BY <1>15, PoolSize DEF LeaveLoop, IsFull
<1>16. CASE StopAll
  BY <1>16, PoolSize DEF StopAll, StopOperate, IsFull
<1>17. CASE TerminateAll
  BY <1>17, SetOfEmpty, PoolSize DEF TerminateAll, IsFull
<1>18. ASSUME NEW t \in Tunnels, OperateFails(t) \/ OperateStops(t) PROVE EstInv'
  BY <1>18, PoolSize DEF OperateFails, OperateStops, IsFull
<1>19. ASSUME NEW t \in Tunnels, SignalTunnelFailure(t) PROVE EstInv'
  BY <1>19, SetOfAppend, PoolSize DEF SignalTunnelFailure, IsFull
<1>20. ASSUME NEW t \in Tunnels, FailedTunnelsFull(t) PROVE EstInv'
  BY <1>20, PoolSize DEF FailedTunnelsFull, IsFull
<1> QED
  BY ControllerNext, <1>1, <1>2, <1>3, <1>4, <1>5, <1>6, <1>7, <1>8, <1>9, <1>10, <1>11,
     <1>12, <1>13, <1>14, <1>15, <1>16, <1>17, <1>18, <1>19, <1>20 DEF ControllerNext,
     Establisher, RunTunnels

\* A pool of one has one failure at a time.
LEMMA OneFailure ==
  ASSUME PlacesOK, CurInv, OpInv, OneInv, tunnelPoolSize = 1,
         NEW t \in Tunnels, op[t] \notin {"off", "stuck"}
  PROVE  failedTunnels = <<>>
<1> SUFFICES ASSUME failedTunnels # <<>> PROVE FALSE
  OBVIOUS
<1> DEFINE u == Head(failedTunnels)
<1>1. u \in Tunnels /\ u \in ToSet(failedTunnels)
  BY SetOfTail DEF PlacesOK
<1>2. t # u /\ (t \in pool \/ (t = cur /\ pc \in {"register", "discard"}))
  BY <1>1 DEF OpInv
<1> HIDE DEF u
<1>3. u \in pool \/ u = cur
  BY <1>1 DEF OneInv
<1>4. pc \in {"stop", "activate", "register", "discard"} => pool = {}
  BY DEF OneInv
<1>5. cur = None \/ pc \in {"stop", "activate", "register", "discard"}
  BY DEF CurInv
<1>6. \A a, b \in pool : a = b
  BY DEF OneInv
<1> QED BY <1>1, <1>2, <1>3, <1>4, <1>5, <1>6, ControllerAssumption

\* So its operator finds room in the channel.
LEMMA OneHasRoom ==
  ASSUME PlacesOK, CurInv, OpInv, OneInv, tunnelPoolSize = 1,
         NEW t \in Tunnels, FailedTunnelsFull(t)
  PROVE  FALSE
<1>1. op[t] = "failing" /\ Len(failedTunnels) >= FailedCap
  BY DEF FailedTunnelsFull
<1>2. failedTunnels = <<>>
  BY <1>1, OneFailure
<1>3. Len(failedTunnels) = 0
  BY <1>2
<1> QED BY <1>1, <1>3, ControllerAssumption

\* With a pool of one the last tunnel is the first.
LEMMA StepOneInv ==
  ASSUME OneInv, PlacesOK, RunInv, QuietInv, CurInv, OpInv, EstInv, ControllerNext PROVE OneInv'
<1> USE ControllerAssumption DEF OneInv, PlacesOK, RunInv, QuietInv, CurInv, OpInv,
   EstInv, runVars, loopVars, estVars, chanVars
<1>1. CASE RunFails \/ RunStarts \/ RunReturns \/ WatcherEnds
  BY <1>1, PoolSize DEF RunFails, RunStarts, RunReturns, WatcherEnds, IsFull
<1>2. CASE Launch \/ GeneratorStops \/ GeneratorFails
  BY <1>2, PoolSize DEF Launch, GeneratorStops, GeneratorFails, IsFull
<1>3. ASSUME NEW w \in Workers, WorkerEnds(w) \/ DialFails(w) PROVE OneInv'
  BY <1>3, PoolSize DEF WorkerEnds, DialFails, IsFull
<1>4. ASSUME NEW w \in Workers, Deliver(w) PROVE OneInv'
  BY <1>4, Delivered DEF IsFull
<1>5. ASSUME NEW w \in Workers, NEW t \in Tunnels, TakeCandidate(w, t) PROVE OneInv'
  BY <1>5, PoolSize DEF TakeCandidate, Fresh, IsFull
<1>6. CASE TunnelFailed
  <2> DEFINE t == Head(failedTunnels)
  <2>1. /\ pc = "select" /\ cur = None /\ failedTunnels \in Seq(Tunnels) /\ failedTunnels # <<>>
        /\ pool' = pool \ {t} /\ failedTunnels' = Tail(failedTunnels)
        /\ UNCHANGED <<tunnelPoolSize, pc, cur>>
    BY <1>6 DEF TunnelFailed
  <2>2. /\ t \in Tunnels /\ t \in ToSet(failedTunnels)
        /\ ToSet(failedTunnels') \subseteq ToSet(failedTunnels)
        /\ IsInjective(failedTunnels) => IsInjective(failedTunnels') /\ t \notin ToSet(failedTunnels')
    BY <2>1, SetOfTail
  <2> HIDE DEF t
  <2>3. CASE tunnelPoolSize = 1
    <3>1. t \in pool
      BY <2>1, <2>2, <2>3
    <3>2. pool' = {}
      BY <2>1, <2>3, <3>1
    <3>3. Cardinality(pool') = 0 /\ tunnelPoolSize' = 1
      BY <2>1, <2>3, <3>2, PoolSize
    <3>4. ~IsFull'
      BY <3>3 DEF IsFull
    <3>5. ToSet(failedTunnels') \subseteq pool' /\ IsInjective(failedTunnels')
      BY <2>1, <2>2, <2>3, SetInSeq
    <3> QED BY <2>1, <3>2, <3>4, <3>5
  <2> QED BY <2>1, <2>3
<1>7. CASE SurplusTunnel
  BY <1>7, SetOfTail, PoolSize DEF SurplusTunnel, IsFull
<1>8. CASE TunnelConnected
  <2>1. /\ pc = "select" /\ cur = None /\ ~IsFull /\ pc' \in {"activate", "stop"}
        /\ Cardinality(pool) + 1 < tunnelPoolSize \/ pc' = "stop"
        /\ UNCHANGED <<tunnelPoolSize, pool, failedTunnels>>
    BY <1>8 DEF TunnelConnected
  <2>2. CASE tunnelPoolSize = 1
    <3>1. pool = {} /\ pc' = "stop"
      BY <2>1, <2>2, PoolSize DEF IsFull
    <3>2. ToSet(failedTunnels') = {}
      BY <2>1, <2>2, <3>1, SetInSeq
    <3> QED BY <2>1, <2>2, <3>1, <3>2
  <2> QED BY <2>1, <2>2
<1>9. CASE StopEstablishing
  BY <1>9, PoolSize DEF StopEstablishing, IsFull
<1>10. CASE ActivateFails
  BY <1>10, PoolSize DEF ActivateFails, StartEstablishing, IsFull
<1>11. CASE Activate
  BY <1>11, PoolSize DEF Activate, IsFull
<1>12. CASE RegisterTunnel
  BY <1>12, PoolSize DEF RegisterTunnel, IsFull
<1>13. CASE DuplicateTunnel
  BY <1>13, PoolSize DEF DuplicateTunnel, StartEstablishing, StopOperate, IsFull
<1>14. CASE Discard
  BY <1>14, PoolSize DEF Discard, IsFull
<1>15. CASE LeaveLoop
  BY <1>15, PoolSize DEF LeaveLoop, IsFull
<1>16. CASE StopAll
  BY <1>16, PoolSize DEF StopAll, StopOperate, IsFull
<1>17. CASE TerminateAll
  BY <1>17, SetOfEmpty, PoolSize DEF TerminateAll, IsFull
<1>18. ASSUME NEW t \in Tunnels, OperateFails(t) \/ OperateStops(t) PROVE OneInv'
  BY <1>18, PoolSize DEF OperateFails, OperateStops, IsFull
<1>19. ASSUME NEW t \in Tunnels, SignalTunnelFailure(t) PROVE OneInv'
  BY <1>19, SetOfAppend, PoolSize DEF SignalTunnelFailure, IsFull
<1>20. ASSUME NEW t \in Tunnels, FailedTunnelsFull(t) PROVE OneInv'
  BY <1>20, OneHasRoom DEF FailedTunnelsFull
<1> QED
  BY ControllerNext, <1>1, <1>2, <1>3, <1>4, <1>5, <1>6, <1>7, <1>8, <1>9, <1>10, <1>11,
     <1>12, <1>13, <1>14, <1>15, <1>16, <1>17, <1>18, <1>19, <1>20 DEF ControllerNext,
     Establisher, RunTunnels

\* With a pool of one nobody ends an operator but its own failure.
LEMMA StepAliveInv ==
  ASSUME AliveInv, PlacesOK, RunInv, QuietInv, CurInv, OpInv, EstInv, OneInv, ControllerNext
  PROVE  AliveInv'
<1> USE ControllerAssumption DEF AliveInv, PlacesOK, RunInv, QuietInv, CurInv, OpInv,
   runVars, loopVars, estVars, chanVars, SelfWait
<1>1. CASE RunFails \/ RunStarts \/ RunReturns \/ WatcherEnds
  BY <1>1 DEF RunFails, RunStarts, RunReturns, WatcherEnds
<1>2. CASE Launch \/ GeneratorStops \/ GeneratorFails
  BY <1>2 DEF Launch, GeneratorStops, GeneratorFails
<1>3. ASSUME NEW w \in Workers, WorkerEnds(w) \/ DialFails(w) PROVE AliveInv'
  BY <1>3 DEF WorkerEnds, DialFails
<1>4. ASSUME NEW w \in Workers, Deliver(w) PROVE AliveInv'
  BY <1>4, Delivered
<1>5. ASSUME NEW w \in Workers, NEW t \in Tunnels, TakeCandidate(w, t) PROVE AliveInv'
  BY <1>5 DEF TakeCandidate, Fresh
<1>6. CASE TunnelFailed
  BY <1>6, SetOfTail DEF TunnelFailed, StartEstablishing
<1>7. CASE SurplusTunnel
  BY <1>7, SetOfTail DEF SurplusTunnel
<1>8. CASE TunnelConnected
  BY <1>8, SetOfTail DEF TunnelConnected
<1>9. CASE StopEstablishing
  BY <1>9 DEF StopEstablishing
<1>10. CASE ActivateFails
  BY <1>10 DEF ActivateFails, StartEstablishing
<1>11. CASE Activate
  BY <1>11 DEF Activate
<1>12. CASE RegisterTunnel
  BY <1>12 DEF RegisterTunnel
<1>13. CASE DuplicateTunnel
  BY <1>13 DEF OneInv, DuplicateTunnel
<1>14. CASE Discard
  BY <1>14 DEF Discard
<1>15. CASE LeaveLoop
  BY <1>15 DEF LeaveLoop
<1>16. CASE StopAll
  BY <1>16 DEF StopAll, StopOperate
<1>17. CASE TerminateAll
  BY <1>17, SetOfEmpty DEF TerminateAll
<1>18. ASSUME NEW t \in Tunnels, OperateFails(t) \/ OperateStops(t) PROVE AliveInv'
  BY <1>18 DEF OperateFails, OperateStops
<1>19. ASSUME NEW t \in Tunnels, SignalTunnelFailure(t) PROVE AliveInv'
  BY <1>19, SetOfAppend DEF SignalTunnelFailure
<1>20. ASSUME NEW t \in Tunnels, FailedTunnelsFull(t) PROVE AliveInv'
  BY <1>20, OneHasRoom DEF FailedTunnelsFull
<1> QED
  BY ControllerNext, <1>1, <1>2, <1>3, <1>4, <1>5, <1>6, <1>7, <1>8, <1>9, <1>10, <1>11,
     <1>12, <1>13, <1>14, <1>15, <1>16, <1>17, <1>18, <1>19, <1>20 DEF ControllerNext,
     Establisher, RunTunnels

\* Types of the flags.
LEMMA StepFlagsOK ==
  ASSUME FlagsOK, ControllerNext PROVE FlagsOK'
<1> USE ControllerAssumption DEF FlagsOK, runVars, loopVars, estVars, chanVars
<1>1. CASE RunFails \/ RunStarts \/ RunReturns \/ WatcherEnds
  BY <1>1 DEF RunFails, RunStarts, RunReturns, WatcherEnds
<1>2. CASE Launch \/ GeneratorStops \/ GeneratorFails
  BY <1>2 DEF Launch, GeneratorStops, GeneratorFails
<1>3. ASSUME NEW w \in Workers, WorkerEnds(w) \/ DialFails(w) PROVE FlagsOK'
  BY <1>3 DEF WorkerEnds, DialFails
<1>4. ASSUME NEW w \in Workers, Deliver(w) PROVE FlagsOK'
  BY <1>4, SetOfAppend DEF Deliver
<1>5. ASSUME NEW w \in Workers, NEW t \in Tunnels, TakeCandidate(w, t) PROVE FlagsOK'
  BY <1>5 DEF TakeCandidate, Fresh
<1>6. CASE TunnelFailed
  BY <1>6, SetOfTail DEF TunnelFailed, StartEstablishing
<1>7. CASE SurplusTunnel
  BY <1>7, SetOfTail DEF SurplusTunnel
<1>8. CASE TunnelConnected
  BY <1>8, SetOfTail DEF TunnelConnected
<1>9. CASE StopEstablishing
  BY <1>9 DEF StopEstablishing
<1>10. CASE ActivateFails
  BY <1>10 DEF ActivateFails, StartEstablishing
<1>11. CASE Activate
  BY <1>11 DEF Activate
<1>12. CASE RegisterTunnel
  BY <1>12 DEF RegisterTunnel
<1>13. CASE DuplicateTunnel
  BY <1>13 DEF DuplicateTunnel, StartEstablishing, StopOperate
<1>14. CASE Discard
  BY <1>14 DEF Discard
<1>15. CASE LeaveLoop
  BY <1>15 DEF LeaveLoop
<1>16. CASE StopAll
  BY <1>16 DEF StopAll, StopOperate
<1>17. CASE TerminateAll
  BY <1>17, SetOfEmpty DEF TerminateAll
<1>18. ASSUME NEW t \in Tunnels, OperateFails(t) \/ OperateStops(t) PROVE FlagsOK'
  BY <1>18 DEF OperateFails, OperateStops
<1>19. ASSUME NEW t \in Tunnels, SignalTunnelFailure(t) PROVE FlagsOK'
  BY <1>19, SetOfAppend DEF SignalTunnelFailure
<1>20. ASSUME NEW t \in Tunnels, FailedTunnelsFull(t) PROVE FlagsOK'
  BY <1>20 DEF FailedTunnelsFull
<1> QED
  BY ControllerNext, <1>1, <1>2, <1>3, <1>4, <1>5, <1>6, <1>7, <1>8, <1>9, <1>10, <1>11,
     <1>12, <1>13, <1>14, <1>15, <1>16, <1>17, <1>18, <1>19, <1>20 DEF ControllerNext,
     Establisher, RunTunnels

-----------------------------------------------------------------------------
(* The calls of the bridge and the whole.                                  *)

\* A call leaves the tunnels alone: it forgets a controller that has ended,
\* or makes a new one where there was none.
LEMMA CallFrame ==
  ASSUME NEW c \in Callers, Call(c)
  PROVE  /\ UNCHANGED <<cur, pool, watcher, estVars, chanVars, open, op>>
         /\ \/ UNCHANGED <<pc, tunnelPoolSize>> /\ (run' = run \/ (run = "exited" /\ run' = "none"))
            \/ run = "none" /\ run' = "new" /\ pc' = "off" /\ tunnelPoolSize' \in Sizes
<1> USE DEF controllerVars, controllerRest, runVars, loopVars, estVars, chanVars,
   notices
<1>1. CASE PRPsiphonStart(c) \/ AlreadyStarted(c) \/ StartFails(c)
  BY <1>1 DEF PRPsiphonStart, AlreadyStarted, StartFails
<1>2. CASE Start(c)
  BY <1>2 DEF Start
<1>3. CASE PRPsiphonStop(c) \/ NothingToStop(c) \/ StopController(c)
  BY <1>3 DEF PRPsiphonStop, NothingToStop, StopController
<1>4. CASE Stopped(c) \/ Reset(c)
  BY <1>4 DEF Stopped, Reset
<1> QED BY <1>1, <1>2, <1>3, <1>4 DEF Call

LEMMA CallTunnels ==
  ASSUME PlacesOK, RunInv, TunnelInv, NEW c \in Callers, Call(c)
  PROVE  PlacesOK' /\ RunInv' /\ TunnelInv'
<1> USE CallFrame DEF estVars, chanVars, TunnelInv
<1>1. PlacesOK'
  BY DEF PlacesOK
<1>2. RunInv'
  BY DEF RunInv
<1>3. QuietInv'
  BY DEF RunInv, QuietInv, EstablishersGone
<1>4. CurInv'
  BY DEF RunInv, CurInv
<1>5. PoolInv' /\ OpenInv'
  BY DEF PoolInv, OpenInv
<1>6. OpInv'
  BY DEF RunInv, QuietInv, OpInv
<1>7. ConnInv' /\ WorkerInv'
  BY DEF ConnInv, WorkerInv
<1> QED BY <1>1, <1>2, <1>3, <1>4, <1>5, <1>6, <1>7

LEMMA CallPool ==
  ASSUME RunInv, QuietInv, EstInv, OneInv, AliveInv, NEW c \in Callers, Call(c)
  PROVE  EstInv' /\ OneInv' /\ AliveInv'
<1> USE CallFrame DEF estVars, chanVars, RunInv
<1>1. CASE UNCHANGED <<pc, tunnelPoolSize>>
  BY <1>1 DEF EstInv, OneInv, AliveInv, IsFull, SelfWait
<1>2. CASE run = "none" /\ pc' = "off"
  BY <1>2, SetOfEmpty DEF QuietInv, EstInv, OneInv, AliveInv, SelfWait
<1> QED BY <1>1, <1>2

\* The tunnels' part of the invariant, in either kind of step.
LEMMA StepTunnels ==
  ASSUME PlacesOK, RunInv, TunnelInv, EstInv, OneInv, AliveInv, Next
  PROVE  PlacesOK' /\ RunInv' /\ TunnelInv' /\ EstInv' /\ OneInv' /\ AliveInv'
<1>1. CASE Bridged(ControllerNext)
  <2>1. ControllerNext
    BY <1>1 DEF Bridged
  <2>2. PlacesOK' /\ RunInv' /\ EstInv'
    BY <2>1, StepPlacesOK, StepRunInv, StepEstInv DEF TunnelInv
  <2>3. QuietInv' /\ CurInv' /\ PoolInv'
    BY <2>1, StepQuietInv, StepCurInv, StepPoolInv DEF TunnelInv
  <2>4. OpInv' /\ ConnInv' /\ WorkerInv' /\ OpenInv'
    BY <2>1, StepOpInv, StepConnInv, StepWorkerInv, StepOpenInv DEF TunnelInv
  <2>5. OneInv' /\ AliveInv'
    BY <2>1, StepOneInv, StepAliveInv DEF TunnelInv
  <2> QED BY <2>2, <2>3, <2>4, <2>5 DEF TunnelInv
<1>2. ASSUME NEW c \in Callers, Call(c)
      PROVE  PlacesOK' /\ RunInv' /\ TunnelInv' /\ EstInv' /\ OneInv' /\ AliveInv'
  BY <1>2, CallTunnels, CallPool DEF TunnelInv
<1> QED BY <1>1, <1>2 DEF Next

\* Types of the bridge's state.
LEMMA StepTypes ==
  ASSUME TypeOK, PlacesOK', Next PROVE TypeOK'
<1>1. CASE Bridged(ControllerNext)
  <2>1. FlagsOK'
    BY <1>1, StepFlagsOK DEF Bridged, TypeOK, ControllerTypeOK
  <2>2. UNCHANGED <<controllerMutex, call, orderly>> /\ ports' \in {"none", "socks", "both"}
    BY <1>1 DEF Bridged, TypeOK
  <2> QED BY <2>1, <2>2 DEF TypeOK, ControllerTypeOK
<1>2. ASSUME NEW c \in Callers, Call(c) PROVE TypeOK'
  <2> USE DEF controllerVars, controllerRest, runVars, loopVars, notices
  <2>1. FlagsOK' /\ ports' \in {"none", "socks", "both"} /\ orderly' \in BOOLEAN
    <3> USE DEF TypeOK, ControllerTypeOK, FlagsOK
    <3>1. CASE PRPsiphonStart(c) \/ AlreadyStarted(c) \/ StartFails(c) \/ Start(c)
      BY <3>1, CallFrame DEF PRPsiphonStart, AlreadyStarted, StartFails, Start, estVars
    <3>2. CASE PRPsiphonStop(c) \/ NothingToStop(c) \/ StopController(c) \/ Stopped(c) \/ Reset(c)
      BY <3>2, CallFrame DEF PRPsiphonStop, NothingToStop, StopController, Stopped,
         Reset, estVars
    <3> QED BY <1>2, <3>1, <3>2 DEF Call
  <2>2. /\ controllerMutex' \in Callers \cup {None}
        /\ call' \in [Callers -> {"idle", "start", "stop", "wait", "reset"}]
    BY <1>2 DEF TypeOK, Call, PRPsiphonStart, AlreadyStarted, StartFails, Start,
       PRPsiphonStop,
       NothingToStop, StopController, Stopped, Reset
  <2> QED BY <2>1, <2>2 DEF TypeOK, ControllerTypeOK
<1> QED BY <1>1, <1>2 DEF Next

\* A call that overlaps another is not orderly.
LEMMA StepCallInv ==
  ASSUME TypeOK, CallInv, Next PROVE CallInv'
<1> USE DEF CallInv, TypeOK
<1>1. CASE Bridged(ControllerNext)
  <2>1. UNCHANGED <<call, orderly>>
    BY <1>1 DEF Bridged
  <2>2. run = "none" => run' = "none"
    BY <1>1 DEF Bridged, ControllerNext, RunFails, RunStarts, RunReturns, WatcherEnds,
       Establisher, Launch, GeneratorStops, GeneratorFails, WorkerEnds, DialFails, Deliver,
       TakeCandidate, RunTunnels, TunnelFailed, SurplusTunnel, TunnelConnected, StopEstablishing,
       ActivateFails, Activate, RegisterTunnel, DuplicateTunnel, Discard, LeaveLoop, StopAll,
       TerminateAll, OperateFails, SignalTunnelFailure, FailedTunnelsFull, OperateStops, runVars
  <2> QED BY <2>1, <2>2
<1>2. ASSUME NEW c \in Callers, Call(c) PROVE CallInv'
  <2> USE DEF controllerVars, controllerRest, runVars
  <2>1. CASE PRPsiphonStart(c)
    BY <2>1 DEF PRPsiphonStart, Alone
  <2>2. CASE AlreadyStarted(c) \/ StartFails(c)
    BY <2>2 DEF AlreadyStarted, StartFails
  <2>3. CASE Start(c)
    BY <2>3 DEF Start
  <2>4. CASE PRPsiphonStop(c)
    BY <2>4 DEF PRPsiphonStop, Alone
  <2>5. CASE NothingToStop(c) \/ StopController(c)
    BY <2>5 DEF NothingToStop, StopController
  <2>6. CASE Stopped(c) \/ Reset(c)
    BY <2>6 DEF Stopped, Reset
  <2> QED BY <1>2, <2>1, <2>2, <2>3, <2>4, <2>5, <2>6 DEF Call
<1> QED BY <1>1, <1>2 DEF Next

\* Every step that changes the pool tells the bridge; a reset finds nothing.
LEMMA StepStatus ==
  ASSUME TypeOK, RunInv, QuietInv, CurInv, CallInv, StatusTruthful, Next
  PROVE  StatusTruthful'
<1> USE DEF StatusTruthful, TypeOK, ControllerTypeOK, FlagsOK, PlacesOK, RunInv,
       runVars, loopVars, estVars, chanVars, SelfWait
<1>1. CASE Bridged(ControllerNext)
  <2>1. /\ ControllerNext /\ orderly' = orderly
        /\ run = "new" /\ run' = "live" => ports' = "both"
        /\ run # "new" => ports' = ports
    BY <1>1 DEF Bridged
  <2>2. CASE RunFails \/ RunStarts \/ RunReturns \/ WatcherEnds
    BY <2>1, <2>2 DEF RunFails, RunStarts, RunReturns, WatcherEnds, QuietInv
  <2>3. CASE Establisher
    BY <2>1, <2>3 DEF Establisher, Launch, GeneratorStops, GeneratorFails, WorkerEnds,
       DialFails,
       Deliver, TakeCandidate
  <2>4. CASE TunnelFailed
    BY <2>1, <2>4 DEF TunnelFailed
  <2>5. CASE RegisterTunnel
    BY <2>1, <2>5 DEF RegisterTunnel
  <2>6. CASE TerminateAll
    BY <2>1, <2>6 DEF TerminateAll
  <2>7. CASE SurplusTunnel \/ TunnelConnected \/ StopEstablishing \/ ActivateFails
    BY <2>1, <2>7 DEF SurplusTunnel, TunnelConnected, StopEstablishing, ActivateFails
  <2>8. CASE DuplicateTunnel \/ Discard \/ LeaveLoop \/ StopAll
    BY <2>1, <2>8 DEF DuplicateTunnel, Discard, LeaveLoop, StopAll
  <2>9. ASSUME NEW t \in Tunnels, OperateFails(t) \/ SignalTunnelFailure(t) \/ OperateStops(t)
        PROVE  StatusTruthful'
    BY <2>1, <2>9 DEF OperateFails, SignalTunnelFailure, OperateStops
  <2>10. ASSUME NEW t \in Tunnels, FailedTunnelsFull(t) PROVE StatusTruthful'
    BY <2>1, <2>10 DEF FailedTunnelsFull
  <2>11. CASE Activate
    BY <2>1, <2>11 DEF Activate, CurInv
  <2> QED BY <2>1, <2>2, <2>3, <2>4, <2>5, <2>6, <2>7, <2>8, <2>9, <2>10, <2>11 DEF ControllerNext, RunTunnels
<1>2. ASSUME NEW c \in Callers, Call(c) PROVE StatusTruthful'
  <2> USE DEF controllerVars, controllerRest, notices, QuietInv
  <2>1. CASE PRPsiphonStart(c)
    BY <2>1 DEF PRPsiphonStart
  <2>2. CASE AlreadyStarted(c) \/ StartFails(c) \/ NothingToStop(c) \/ PRPsiphonStop(c)
    BY <2>2 DEF AlreadyStarted, StartFails, NothingToStop, PRPsiphonStop
  <2>3. CASE Start(c)
    BY <2>3 DEF Start
  <2>4. CASE StopController(c) \/ Stopped(c)
    BY <2>4 DEF StopController, Stopped
  <2>5. CASE Reset(c)
    BY <2>5 DEF Reset, CallInv
  <2> QED BY <1>2, <2>1, <2>2, <2>3, <2>4, <2>5 DEF Call
<1> QED BY <1>1, <1>2 DEF Next

LEMMA Inductive == Spec => []IInv
<1>1. Init => IInv
  BY InitIInv
<1>2. IInv /\ [Next]_vars => IInv'
  <2> SUFFICES ASSUME IInv, [Next]_vars PROVE IInv'
    OBVIOUS
  <2>1. CASE Next
    <3>1. PlacesOK' /\ RunInv' /\ TunnelInv' /\ EstInv' /\ OneInv' /\ AliveInv'
      BY <2>1, StepTunnels DEF IInv, TypeOK, ControllerTypeOK
    <3>2. TypeOK' /\ CallInv' /\ StatusTruthful'
      BY <2>1, <3>1, StepTypes, StepCallInv, StepStatus DEF IInv, TunnelInv
    <3> QED BY <3>1, <3>2 DEF IInv
  <2>2. CASE UNCHANGED vars
    BY <2>2 DEF vars, controllerVars, bridgeVars, runVars, loopVars, estVars, chanVars,
       IInv, TypeOK,
       ControllerTypeOK, FlagsOK, PlacesOK, RunInv, TunnelInv, QuietInv, CurInv, PoolInv, OpInv,
       ConnInv, WorkerInv, OpenInv, EstInv, OneInv, AliveInv, CallInv, StatusTruthful, IsFull, EstablishersGone, SelfWait
  <2> QED BY <2>1, <2>2
<1> QED BY <1>1, <1>2, PTL DEF Spec

-----------------------------------------------------------------------------
\* The bridge's and the controller's variables keep their types
\* (psiphon_bridge.go and controller.go).
THEOREM TypeCorrect == Spec => []TypeOK
<1>1. IInv => TypeOK
  BY DEF IInv
<1> QED BY <1>1, Inductive, PTL

\* Every open tunnel is in the pool, in the hands of runTunnels or in
\* connectedTunnels, and the end of runTunnels leaves nothing of a run, for
\* any size of the pool and of the channels (controller.go, runTunnels).
THEOREM TunnelsAreOwned == Spec => []NoTunnelLeak
<1>1. IInv => NoTunnelLeak
  <2> SUFFICES ASSUME IInv PROVE NoTunnelLeak
    OBVIOUS
  <2>1. pc = "done" => open = {} /\ EstablishersGone /\ \A t \in Tunnels : op[t] = "off"
    BY DEF IInv, TunnelInv, QuietInv
  <2>2. None \notin open
    BY ControllerAssumption DEF IInv, TypeOK, ControllerTypeOK, PlacesOK
  <2>3. open \subseteq pool \cup ({cur} \ {None}) \cup ToSet(connectedTunnels)
                         \cup {t \in Tunnels : op[t] = "stuck"}
    BY <2>2 DEF IInv, TunnelInv, OpenInv
  <2> QED BY <2>1, <2>3 DEF NoTunnelLeak
<1> QED BY <1>1, Inductive, PTL

\* While the pool is short workers are out, unless an operator waits for
\* itself (controller.go, runTunnels and startEstablishing).
THEOREM ShortPoolEstablishes == Spec => []EstablishesWhileShort
<1>1. IInv => EstablishesWhileShort
  BY DEF IInv, EstInv, EstablishesWhileShort
<1> QED BY <1>1, Inductive, PTL

\* A pool of one: no operator waits for itself, runTunnels hears of every
\* tunnel without an operator, and no worker is out beside a tunnel, for any
\* size of the channels (controller.go, SignalTunnelFailure).
THEOREM OneTunnelIsWatched == Spec => []PoolOfOne
<1>1. IInv => PoolOfOne
  BY DEF IInv, OneInv, AliveInv, PoolOfOne
<1> QED BY <1>1, Inductive, PTL

\* The bridge never says connected without a tunnel, and orderly calls see
\* what is there (psiphon_bridge.go, PRPsiphonStart and PRPsiphonStop).
THEOREM StatusIsTrue == Spec => []StatusTruthful
<1>1. IInv => StatusTruthful
  BY DEF IInv
<1> QED BY <1>1, Inductive, PTL
==========================================================================
