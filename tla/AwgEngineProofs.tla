-------------------------- MODULE AwgEngineProofs --------------------------
(***************************************************************************)
(* Proofs about AwgEngine, for any number of callers, tunnels, probes and  *)
(* inner hosts. IInv says who holds liveMu and which tunnel that call      *)
(* works on, and for every process how far the opening or closing of its   *)
(* tunnel has come, in terms of what is open.                              *)
(***************************************************************************)
EXTENDS AwgEngine, TLAPS

\* The call that holds liveMu is the one at work; it has a tunnel in hand
\* unless it is about to open one.
LockInv ==
    /\ \A c \in Calls : Busy(c) <=> liveMu = c
    /\ liveMu = None => cur = None
    /\ \A c \in Calls : pc[c] = "open" => cur = None /\ live = None
    /\ \A c \in Calls : Busy(c) /\ pc[c] # "open" =>
         /\ cur \in Ids
         /\ ctx[c] \in {"drop", "quit", "swap"} => live = cur
         /\ ctx[c] \in {"hop", "fail"} => live = None

\* What a process closes an inner device for, at each place.
PhaseInv ==
    \A p \in Procs :
        /\ pc[p] \in {"create", "raise"} => ctx[p] \in {"hop", "swap"}
        /\ pc[p] \in {"up", "lookup", "listen", "measure"} => ctx[p] = "hop"
        /\ pc[p] \in {"ln", "outer"} => ctx[p] \in {"drop", "fail", "quit"}
        /\ pc[p] \in {"unbind", "wait"} => ctx[p] # "none"
        /\ p \in Probes => ctx[p] \notin {"drop", "swap"}
        /\ p \in Calls => pc[p] \notin {"measure", "done"}
        /\ pc[p] \in {"unbind", "wait", "create", "raise"} /\ ctx[p] = "hop" => left[p] >= 1
        /\ pc[p] = "lookup" => left[p] >= 2

SemInv == \A p \in Probes : Busy(p) <=> p \in sem

\* What is open of the tunnel a process works on.
WorkInv ==
    \A p \in Procs : Busy(p) /\ pc[p] # "open" =>
        /\ Tun(p) \in outer
        /\ pc[p] \notin {"ln", "measure"} /\ ctx[p] # "swap" => Tun(p) \notin listen
        /\ ctx[p] = "swap" => Tun(p) \in listen
        /\ pc[p] = "up" => Tun(p) \notin hop \cup told \cup inner
        /\ pc[p] \in {"wait", "create", "raise", "outer"} => Tun(p) \notin sock
        /\ pc[p] \in {"create", "outer"} => Tun(p) \notin inner
        /\ pc[p] = "raise" => Tun(p) \in inner \ net
        /\ pc[p] # "raise" /\ Tun(p) \in inner => Tun(p) \in net
        /\ pc[p] \in {"lookup", "listen"} /\ Tun(p) \in hop => Tun(p) \in net

SetInv ==
    /\ net \subseteq inner /\ inner \subseteq outer /\ sock \subseteq inner
    /\ hop \subseteq outer /\ told \subseteq outer /\ listen \subseteq outer

CoverInv ==
    \A t \in outer : t = live \/ t = cur \/ (t \in Probes /\ Busy(t) /\ pc[t] # "open")

LiveInv == liveMu = None /\ live # None =>
    live \in listen /\ (live \in inner => live \in net)

\* A hop tunnel that accepts connections has its inner stack, or its last
\* swap failed, or a swap is under way.
ExitInv == \A t \in hop : t \in listen => t \in net \/ t \in told \/ SwapHolds(t)

IInv == TypeOK /\ LockInv /\ PhaseInv /\ SemInv /\ WorkInv /\ SetInv /\ CoverInv /\
   LiveInv /\ ExitInv


\* No tunnel is open at the start.
LEMMA InitIInv == Init => IInv
<1> SUFFICES ASSUME Init PROVE IInv
  OBVIOUS
<1> USE AwgAssumption DEF Init, Tunnels, Procs, Busy, Tun
<1>1. TypeOK
  BY DEF TypeOK
<1>2. LockInv /\ PhaseInv /\ SemInv /\ WorkInv
  BY DEF LockInv, PhaseInv, SemInv, WorkInv
<1>3. SetInv /\ CoverInv /\ LiveInv /\ ExitInv
  BY DEF SetInv, CoverInv, LiveInv, ExitInv
<1> QED BY <1>1, <1>2, <1>3 DEF IInv


\* Types: the tunnel a process works on is a tunnel, and startHop counts down.
LEMMA NextTypeOK == IInv /\ [Next]_vars => TypeOK'
<1> SUFFICES ASSUME TypeOK, PhaseInv, LockInv, [Next]_vars PROVE TypeOK'
  BY DEF IInv
<1> USE AwgAssumption DEF TypeOK, PhaseInv, LockInv, Busy, Tunnels, Procs, Goto, Return,
   Stay, control, socks, hopVars
<1>1. ASSUME NEW c \in Calls, Call(c) PROVE TypeOK'
  BY <1>1 DEF Call, Tun
<1>2. ASSUME NEW c \in Calls, LockClose(c) PROVE TypeOK'
  BY <1>2 DEF LockClose, Tun
<1>3. ASSUME NEW c \in Calls, LockOpen(c) PROVE TypeOK'
  BY <1>3 DEF LockOpen, Tun
<1>4. ASSUME NEW c \in Calls, LockSwap(c) PROVE TypeOK'
  BY <1>4 DEF LockSwap, Tun
<1>5. ASSUME NEW c \in Calls, LockReturn(c) PROVE TypeOK'
  BY <1>5 DEF LockReturn, Tun
<1>6. ASSUME NEW p \in Procs, OpenFails(p) PROVE TypeOK'
  BY <1>6 DEF OpenFails, Tun
<1>7. ASSUME NEW p \in Procs, Open(p) PROVE TypeOK'
  BY <1>7 DEF Open, Tun, Free
<1>8. ASSUME NEW p \in Procs, Up(p) PROVE TypeOK'
  BY <1>8 DEF Up, Tun
<1>9. ASSUME NEW p \in Procs, UpFails(p) PROVE TypeOK'
  BY <1>9 DEF UpFails, Tun
<1>10. ASSUME NEW p \in Procs, Listen(p) PROVE TypeOK'
  BY <1>10 DEF Listen, Tun
<1>11. ASSUME NEW p \in Procs, ListenFails(p) PROVE TypeOK'
  BY <1>11 DEF ListenFails, Tun
<1>12. ASSUME NEW p \in Procs, Create(p) PROVE TypeOK'
  BY <1>12 DEF Create, Tun
<1>13. ASSUME NEW p \in Procs, Raise(p) PROVE TypeOK'
  BY <1>13 DEF Raise, Tun
<1>14. ASSUME NEW p \in Procs, CreateFails(p) PROVE TypeOK'
  BY <1>14 DEF CreateFails, HostFails, Tun
<1>15. ASSUME NEW p \in Procs, RaiseFails(p) PROVE TypeOK'
  BY <1>15 DEF RaiseFails, HostFails, Tun
<1>16. ASSUME NEW p \in Procs, Lookup(p) PROVE TypeOK'
  BY <1>16 DEF Lookup, Tun
<1>17. ASSUME NEW p \in Procs, CloseListener(p) PROVE TypeOK'
  BY <1>17 DEF CloseListener, Tun
<1>18. ASSUME NEW p \in Procs, Unbind(p) PROVE TypeOK'
  BY <1>18 DEF Unbind, Tun, AfterInner
<1>19. ASSUME NEW p \in Procs, CloseInner(p) PROVE TypeOK'
  BY <1>19 DEF CloseInner, Tun, AfterInner
<1>20. ASSUME NEW p \in Procs, CloseOuter(p) PROVE TypeOK'
  BY <1>20 DEF CloseOuter, Tun
<1>21. ASSUME NEW p \in Procs, Measure(p) PROVE TypeOK'
  BY <1>21 DEF Measure, Tun
<1>22. ASSUME NEW t \in Tunnels, ReceiveTop(t) \/ ReceivePacket(t) \/ ReceiveClosed(t)
              \/ Accept(t) \/ PickTarget(t)
       PROVE  TypeOK'
  BY <1>22 DEF ReceiveTop, ReceivePacket, ReceiveClosed, Accept, PickTarget, Tun
<1>23. CASE Ping
  BY <1>23 DEF Ping, Tun
<1>24. CASE PingReturns
  BY <1>24 DEF PingReturns, Tun
<1>25. ASSUME NEW p \in Probes, Acquire(p) PROVE TypeOK'
  BY <1>25 DEF Acquire, Tun
<1>26. CASE UNCHANGED vars
  BY <1>26 DEF vars
<1> QED
  BY <1>1, <1>2, <1>3, <1>4, <1>5, <1>6, <1>7, <1>8, <1>9, <1>10, <1>11, <1>12,
     <1>13, <1>14, <1>15, <1>16, <1>17, <1>18, <1>19, <1>20, <1>21, <1>22, <1>23,
     <1>24, <1>25, <1>26
  DEF Next, Lock, Work, Receive

\* A call works between taking liveMu and giving it back.
LEMMA NextLockInv == IInv /\ [Next]_vars => LockInv'
<1> SUFFICES ASSUME LockInv, TypeOK, PhaseInv, [Next]_vars PROVE LockInv'
  BY DEF IInv
<1> USE AwgAssumption DEF LockInv, TypeOK, PhaseInv, Busy, Tunnels, Procs, Goto, Return,
   Stay, control, socks, hopVars
<1>1. ASSUME NEW c \in Calls, Call(c) PROVE LockInv'
  BY <1>1 DEF Call, Tun
<1>2. ASSUME NEW c \in Calls, LockClose(c) PROVE LockInv'
  BY <1>2 DEF LockClose, Tun
<1>3. ASSUME NEW c \in Calls, LockOpen(c) PROVE LockInv'
  BY <1>3 DEF LockOpen, Tun
<1>4. ASSUME NEW c \in Calls, LockSwap(c) PROVE LockInv'
  BY <1>4 DEF LockSwap, Tun
<1>5. ASSUME NEW c \in Calls, LockReturn(c) PROVE LockInv'
  BY <1>5 DEF LockReturn, Tun
<1>6. ASSUME NEW p \in Procs, OpenFails(p) PROVE LockInv'
  BY <1>6 DEF OpenFails, Tun
<1>7. ASSUME NEW p \in Procs, Open(p) PROVE LockInv'
  BY <1>7 DEF Open, Tun, Free
<1>8. ASSUME NEW p \in Procs, Up(p) PROVE LockInv'
  BY <1>8 DEF Up, Tun
<1>9. ASSUME NEW p \in Procs, UpFails(p) PROVE LockInv'
  BY <1>9 DEF UpFails, Tun
<1>10. ASSUME NEW p \in Procs, Listen(p) PROVE LockInv'
  BY <1>10 DEF Listen, Tun
<1>11. ASSUME NEW p \in Procs, ListenFails(p) PROVE LockInv'
  BY <1>11 DEF ListenFails, Tun
<1>12. ASSUME NEW p \in Procs, Create(p) PROVE LockInv'
  BY <1>12 DEF Create, Tun
<1>13. ASSUME NEW p \in Procs, Raise(p) PROVE LockInv'
  BY <1>13 DEF Raise, Tun
<1>14. ASSUME NEW p \in Procs, CreateFails(p) PROVE LockInv'
  BY <1>14 DEF CreateFails, HostFails, Tun
<1>15. ASSUME NEW p \in Procs, RaiseFails(p) PROVE LockInv'
  BY <1>15 DEF RaiseFails, HostFails, Tun
<1>16. ASSUME NEW p \in Procs, Lookup(p) PROVE LockInv'
  BY <1>16 DEF Lookup, Tun
<1>17. ASSUME NEW p \in Procs, CloseListener(p) PROVE LockInv'
  BY <1>17 DEF CloseListener, Tun
<1>18. ASSUME NEW p \in Procs, Unbind(p) PROVE LockInv'
  BY <1>18 DEF Unbind, Tun, AfterInner
<1>19. ASSUME NEW p \in Procs, CloseInner(p) PROVE LockInv'
  BY <1>19 DEF CloseInner, Tun, AfterInner
<1>20. ASSUME NEW p \in Procs, CloseOuter(p) PROVE LockInv'
  BY <1>20 DEF CloseOuter, Tun
<1>21. ASSUME NEW p \in Procs, Measure(p) PROVE LockInv'
  BY <1>21 DEF Measure, Tun
<1>22. ASSUME NEW t \in Tunnels, ReceiveTop(t) \/ ReceivePacket(t) \/ ReceiveClosed(t)
              \/ Accept(t) \/ PickTarget(t)
       PROVE  LockInv'
  BY <1>22 DEF ReceiveTop, ReceivePacket, ReceiveClosed, Accept, PickTarget, Tun
<1>23. CASE Ping
  BY <1>23 DEF Ping, Tun
<1>24. CASE PingReturns
  BY <1>24 DEF PingReturns, Tun
<1>25. ASSUME NEW p \in Probes, Acquire(p) PROVE LockInv'
  BY <1>25 DEF Acquire, Tun
<1>26. CASE UNCHANGED vars
  BY <1>26 DEF vars
<1> QED
  BY <1>1, <1>2, <1>3, <1>4, <1>5, <1>6, <1>7, <1>8, <1>9, <1>10, <1>11, <1>12,
     <1>13, <1>14, <1>15, <1>16, <1>17, <1>18, <1>19, <1>20, <1>21, <1>22, <1>23,
     <1>24, <1>25, <1>26
  DEF Next, Lock, Work, Receive

\* The places of a call or probe and what it closes for.
LEMMA NextPhaseInv == IInv /\ [Next]_vars => PhaseInv'
<1> SUFFICES ASSUME PhaseInv, TypeOK, [Next]_vars PROVE PhaseInv'
  BY DEF IInv
<1> USE AwgAssumption DEF PhaseInv, TypeOK, Tunnels, Procs, Goto, Return, Stay, control,
   socks, hopVars
<1>1. ASSUME NEW c \in Calls, Call(c) PROVE PhaseInv'
  BY <1>1 DEF Call, Tun
<1>2. ASSUME NEW c \in Calls, LockClose(c) PROVE PhaseInv'
  BY <1>2 DEF LockClose, Tun
<1>3. ASSUME NEW c \in Calls, LockOpen(c) PROVE PhaseInv'
  BY <1>3 DEF LockOpen, Tun
<1>4. ASSUME NEW c \in Calls, LockSwap(c) PROVE PhaseInv'
  BY <1>4 DEF LockSwap, Tun
<1>5. ASSUME NEW c \in Calls, LockReturn(c) PROVE PhaseInv'
  BY <1>5 DEF LockReturn, Tun
<1>6. ASSUME NEW p \in Procs, OpenFails(p) PROVE PhaseInv'
  BY <1>6 DEF OpenFails, Tun
<1>7. ASSUME NEW p \in Procs, Open(p) PROVE PhaseInv'
  BY <1>7 DEF Open, Tun, Free
<1>8. ASSUME NEW p \in Procs, Up(p) PROVE PhaseInv'
  BY <1>8 DEF Up, Tun
<1>9. ASSUME NEW p \in Procs, UpFails(p) PROVE PhaseInv'
  BY <1>9 DEF UpFails, Tun
<1>10. ASSUME NEW p \in Procs, Listen(p) PROVE PhaseInv'
  BY <1>10 DEF Listen, Tun
<1>11. ASSUME NEW p \in Procs, ListenFails(p) PROVE PhaseInv'
  BY <1>11 DEF ListenFails, Tun
<1>12. ASSUME NEW p \in Procs, Create(p) PROVE PhaseInv'
  BY <1>12 DEF Create, Tun
<1>13. ASSUME NEW p \in Procs, Raise(p) PROVE PhaseInv'
  BY <1>13 DEF Raise, Tun
<1>14. ASSUME NEW p \in Procs, CreateFails(p) PROVE PhaseInv'
  BY <1>14 DEF CreateFails, HostFails, Tun
<1>15. ASSUME NEW p \in Procs, RaiseFails(p) PROVE PhaseInv'
  BY <1>15 DEF RaiseFails, HostFails, Tun
<1>16. ASSUME NEW p \in Procs, Lookup(p) PROVE PhaseInv'
  BY <1>16 DEF Lookup, Tun
<1>17. ASSUME NEW p \in Procs, CloseListener(p) PROVE PhaseInv'
  BY <1>17 DEF CloseListener, Tun
<1>18. ASSUME NEW p \in Procs, Unbind(p) PROVE PhaseInv'
  BY <1>18 DEF Unbind, Tun, AfterInner
<1>19. ASSUME NEW p \in Procs, CloseInner(p) PROVE PhaseInv'
  BY <1>19 DEF CloseInner, Tun, AfterInner
<1>20. ASSUME NEW p \in Procs, CloseOuter(p) PROVE PhaseInv'
  BY <1>20 DEF CloseOuter, Tun
<1>21. ASSUME NEW p \in Procs, Measure(p) PROVE PhaseInv'
  BY <1>21 DEF Measure, Tun
<1>22. ASSUME NEW t \in Tunnels, ReceiveTop(t) \/ ReceivePacket(t) \/ ReceiveClosed(t)
              \/ Accept(t) \/ PickTarget(t)
       PROVE  PhaseInv'
  BY <1>22 DEF ReceiveTop, ReceivePacket, ReceiveClosed, Accept, PickTarget, Tun
<1>23. CASE Ping
  BY <1>23 DEF Ping, Tun
<1>24. CASE PingReturns
  BY <1>24 DEF PingReturns, Tun
<1>25. ASSUME NEW p \in Probes, Acquire(p) PROVE PhaseInv'
  BY <1>25 DEF Acquire, Tun
<1>26. CASE UNCHANGED vars
  BY <1>26 DEF vars
<1> QED
  BY <1>1, <1>2, <1>3, <1>4, <1>5, <1>6, <1>7, <1>8, <1>9, <1>10, <1>11, <1>12,
     <1>13, <1>14, <1>15, <1>16, <1>17, <1>18, <1>19, <1>20, <1>21, <1>22, <1>23,
     <1>24, <1>25, <1>26
  DEF Next, Lock, Work, Receive

\* A probe works between taking its slot and giving it back.
LEMMA NextSemInv == IInv /\ [Next]_vars => SemInv'
<1> SUFFICES ASSUME SemInv, TypeOK, PhaseInv, [Next]_vars PROVE SemInv'
  BY DEF IInv
<1> USE AwgAssumption DEF SemInv, TypeOK, PhaseInv, Busy, Tunnels, Procs, Goto, Return,
   Stay, control, socks, hopVars
<1>1. ASSUME NEW c \in Calls, Call(c) PROVE SemInv'
  BY <1>1 DEF Call, Tun
<1>2. ASSUME NEW c \in Calls, LockClose(c) PROVE SemInv'
  BY <1>2 DEF LockClose, Tun
<1>3. ASSUME NEW c \in Calls, LockOpen(c) PROVE SemInv'
  BY <1>3 DEF LockOpen, Tun
<1>4. ASSUME NEW c \in Calls, LockSwap(c) PROVE SemInv'
  BY <1>4 DEF LockSwap, Tun
<1>5. ASSUME NEW c \in Calls, LockReturn(c) PROVE SemInv'
  BY <1>5 DEF LockReturn, Tun
<1>6. ASSUME NEW p \in Procs, OpenFails(p) PROVE SemInv'
  BY <1>6 DEF OpenFails, Tun
<1>7. ASSUME NEW p \in Procs, Open(p) PROVE SemInv'
  BY <1>7 DEF Open, Tun, Free
<1>8. ASSUME NEW p \in Procs, Up(p) PROVE SemInv'
  BY <1>8 DEF Up, Tun
<1>9. ASSUME NEW p \in Procs, UpFails(p) PROVE SemInv'
  BY <1>9 DEF UpFails, Tun
<1>10. ASSUME NEW p \in Procs, Listen(p) PROVE SemInv'
  BY <1>10 DEF Listen, Tun
<1>11. ASSUME NEW p \in Procs, ListenFails(p) PROVE SemInv'
  BY <1>11 DEF ListenFails, Tun
<1>12. ASSUME NEW p \in Procs, Create(p) PROVE SemInv'
  BY <1>12 DEF Create, Tun
<1>13. ASSUME NEW p \in Procs, Raise(p) PROVE SemInv'
  BY <1>13 DEF Raise, Tun
<1>14. ASSUME NEW p \in Procs, CreateFails(p) PROVE SemInv'
  BY <1>14 DEF CreateFails, HostFails, Tun
<1>15. ASSUME NEW p \in Procs, RaiseFails(p) PROVE SemInv'
  BY <1>15 DEF RaiseFails, HostFails, Tun
<1>16. ASSUME NEW p \in Procs, Lookup(p) PROVE SemInv'
  BY <1>16 DEF Lookup, Tun
<1>17. ASSUME NEW p \in Procs, CloseListener(p) PROVE SemInv'
  BY <1>17 DEF CloseListener, Tun
<1>18. ASSUME NEW p \in Procs, Unbind(p) PROVE SemInv'
  BY <1>18 DEF Unbind, Tun, AfterInner
<1>19. ASSUME NEW p \in Procs, CloseInner(p) PROVE SemInv'
  BY <1>19 DEF CloseInner, Tun, AfterInner
<1>20. ASSUME NEW p \in Procs, CloseOuter(p) PROVE SemInv'
  BY <1>20 DEF CloseOuter, Tun
<1>21. ASSUME NEW p \in Procs, Measure(p) PROVE SemInv'
  BY <1>21 DEF Measure, Tun
<1>22. ASSUME NEW t \in Tunnels, ReceiveTop(t) \/ ReceivePacket(t) \/ ReceiveClosed(t)
              \/ Accept(t) \/ PickTarget(t)
       PROVE  SemInv'
  BY <1>22 DEF ReceiveTop, ReceivePacket, ReceiveClosed, Accept, PickTarget, Tun
<1>23. CASE Ping
  BY <1>23 DEF Ping, Tun
<1>24. CASE PingReturns
  BY <1>24 DEF PingReturns, Tun
<1>25. ASSUME NEW p \in Probes, Acquire(p) PROVE SemInv'
  BY <1>25 DEF Acquire, Tun
<1>26. CASE UNCHANGED vars
  BY <1>26 DEF vars
<1> QED
  BY <1>1, <1>2, <1>3, <1>4, <1>5, <1>6, <1>7, <1>8, <1>9, <1>10, <1>11, <1>12,
     <1>13, <1>14, <1>15, <1>16, <1>17, <1>18, <1>19, <1>20, <1>21, <1>22, <1>23,
     <1>24, <1>25, <1>26
  DEF Next, Lock, Work, Receive

\* Each step keeps what it says of its own tunnel; no two processes work
\* on the same one.
LEMMA NextWorkInv == IInv /\ [Next]_vars => WorkInv'
<1> SUFFICES ASSUME WorkInv, TypeOK, LockInv, PhaseInv, SetInv, LiveInv, [Next]_vars
    PROVE  WorkInv'
  BY DEF IInv
<1> USE AwgAssumption DEF WorkInv, TypeOK, LockInv, PhaseInv, SetInv, LiveInv, Busy,
   Tun, Tunnels, Procs, Goto, Return, Stay, control, socks, hopVars
<1>1. ASSUME NEW c \in Calls, Call(c) PROVE WorkInv'
  BY <1>1 DEF Call
<1>2. ASSUME NEW c \in Calls, LockClose(c) PROVE WorkInv'
  BY <1>2 DEF LockClose
<1>3. ASSUME NEW c \in Calls, LockOpen(c) PROVE WorkInv'
  BY <1>3 DEF LockOpen
<1>4. ASSUME NEW c \in Calls, LockSwap(c) PROVE WorkInv'
  BY <1>4 DEF LockSwap
<1>5. ASSUME NEW c \in Calls, LockReturn(c) PROVE WorkInv'
  BY <1>5 DEF LockReturn
<1>6. ASSUME NEW p \in Procs, OpenFails(p) PROVE WorkInv'
  BY <1>6 DEF OpenFails
<1>7. ASSUME NEW p \in Procs, Open(p) PROVE WorkInv'
  BY <1>7 DEF Open, Free
<1>8. ASSUME NEW p \in Procs, Up(p) PROVE WorkInv'
  BY <1>8 DEF Up
<1>9. ASSUME NEW p \in Procs, UpFails(p) PROVE WorkInv'
  BY <1>9 DEF UpFails
<1>10. ASSUME NEW p \in Procs, Listen(p) PROVE WorkInv'
  BY <1>10 DEF Listen
<1>11. ASSUME NEW p \in Procs, ListenFails(p) PROVE WorkInv'
  BY <1>11 DEF ListenFails
<1>12. ASSUME NEW p \in Procs, Create(p) PROVE WorkInv'
  BY <1>12 DEF Create
<1>13. ASSUME NEW p \in Procs, Raise(p) PROVE WorkInv'
  BY <1>13 DEF Raise
<1>14. ASSUME NEW p \in Procs, CreateFails(p) PROVE WorkInv'
  BY <1>14 DEF CreateFails, HostFails
<1>15. ASSUME NEW p \in Procs, RaiseFails(p) PROVE WorkInv'
  BY <1>15 DEF RaiseFails, HostFails
<1>16. ASSUME NEW p \in Procs, Lookup(p) PROVE WorkInv'
  BY <1>16 DEF Lookup
<1>17. ASSUME NEW p \in Procs, CloseListener(p) PROVE WorkInv'
  BY <1>17 DEF CloseListener
<1>18. ASSUME NEW p \in Procs, Unbind(p) PROVE WorkInv'
  BY <1>18 DEF Unbind, AfterInner
<1>19. ASSUME NEW p \in Procs, CloseInner(p) PROVE WorkInv'
  BY <1>19 DEF CloseInner, AfterInner
<1>20. ASSUME NEW p \in Procs, CloseOuter(p) PROVE WorkInv'
  BY <1>20 DEF CloseOuter
<1>21. ASSUME NEW p \in Procs, Measure(p) PROVE WorkInv'
  BY <1>21 DEF Measure
<1>22. ASSUME NEW t \in Tunnels, ReceiveTop(t) \/ ReceivePacket(t) \/ ReceiveClosed(t)
              \/ Accept(t) \/ PickTarget(t)
       PROVE  WorkInv'
  BY <1>22 DEF ReceiveTop, ReceivePacket, ReceiveClosed, Accept, PickTarget
<1>23. CASE Ping
  BY <1>23 DEF Ping
<1>24. CASE PingReturns
  BY <1>24 DEF PingReturns
<1>25. ASSUME NEW p \in Probes, Acquire(p) PROVE WorkInv'
  BY <1>25 DEF Acquire
<1>26. CASE UNCHANGED vars
  BY <1>26 DEF vars
<1> QED
  BY <1>1, <1>2, <1>3, <1>4, <1>5, <1>6, <1>7, <1>8, <1>9, <1>10, <1>11, <1>12,
     <1>13, <1>14, <1>15, <1>16, <1>17, <1>18, <1>19, <1>20, <1>21, <1>22, <1>23,
     <1>24, <1>25, <1>26
  DEF Next, Lock, Work, Receive

\* Inner devices, sockets and listeners go before their outer device.
LEMMA NextSetInv == IInv /\ [Next]_vars => SetInv'
<1> SUFFICES ASSUME SetInv, TypeOK, PhaseInv, WorkInv, LockInv, [Next]_vars
    PROVE  SetInv'
  BY DEF IInv
<1> USE AwgAssumption DEF SetInv, TypeOK, PhaseInv, WorkInv, LockInv, Busy, Tun,
   Tunnels, Procs, Goto, Return, Stay, control, socks, hopVars
<1>1. ASSUME NEW c \in Calls, Call(c) PROVE SetInv'
  BY <1>1 DEF Call
<1>2. ASSUME NEW c \in Calls, LockClose(c) PROVE SetInv'
  BY <1>2 DEF LockClose
<1>3. ASSUME NEW c \in Calls, LockOpen(c) PROVE SetInv'
  BY <1>3 DEF LockOpen
<1>4. ASSUME NEW c \in Calls, LockSwap(c) PROVE SetInv'
  BY <1>4 DEF LockSwap
<1>5. ASSUME NEW c \in Calls, LockReturn(c) PROVE SetInv'
  BY <1>5 DEF LockReturn
<1>6. ASSUME NEW p \in Procs, OpenFails(p) PROVE SetInv'
  BY <1>6 DEF OpenFails
<1>7. ASSUME NEW p \in Procs, Open(p) PROVE SetInv'
  BY <1>7 DEF Open, Free
<1>8. ASSUME NEW p \in Procs, Up(p) PROVE SetInv'
  BY <1>8 DEF Up
<1>9. ASSUME NEW p \in Procs, UpFails(p) PROVE SetInv'
  BY <1>9 DEF UpFails
<1>10. ASSUME NEW p \in Procs, Listen(p) PROVE SetInv'
  BY <1>10 DEF Listen
<1>11. ASSUME NEW p \in Procs, ListenFails(p) PROVE SetInv'
  BY <1>11 DEF ListenFails
<1>12. ASSUME NEW p \in Procs, Create(p) PROVE SetInv'
  BY <1>12 DEF Create
<1>13. ASSUME NEW p \in Procs, Raise(p) PROVE SetInv'
  BY <1>13 DEF Raise
<1>14. ASSUME NEW p \in Procs, CreateFails(p) PROVE SetInv'
  BY <1>14 DEF CreateFails, HostFails
<1>15. ASSUME NEW p \in Procs, RaiseFails(p) PROVE SetInv'
  BY <1>15 DEF RaiseFails, HostFails
<1>16. ASSUME NEW p \in Procs, Lookup(p) PROVE SetInv'
  BY <1>16 DEF Lookup
<1>17. ASSUME NEW p \in Procs, CloseListener(p) PROVE SetInv'
  BY <1>17 DEF CloseListener
<1>18. ASSUME NEW p \in Procs, Unbind(p) PROVE SetInv'
  BY <1>18 DEF Unbind, AfterInner
<1>19. ASSUME NEW p \in Procs, CloseInner(p) PROVE SetInv'
  BY <1>19 DEF CloseInner, AfterInner
<1>20. ASSUME NEW p \in Procs, CloseOuter(p) PROVE SetInv'
  BY <1>20 DEF CloseOuter
<1>21. ASSUME NEW p \in Procs, Measure(p) PROVE SetInv'
  BY <1>21 DEF Measure
<1>22. ASSUME NEW t \in Tunnels, ReceiveTop(t) \/ ReceivePacket(t) \/ ReceiveClosed(t)
              \/ Accept(t) \/ PickTarget(t)
       PROVE  SetInv'
  BY <1>22 DEF ReceiveTop, ReceivePacket, ReceiveClosed, Accept, PickTarget
<1>23. CASE Ping
  BY <1>23 DEF Ping
<1>24. CASE PingReturns
  BY <1>24 DEF PingReturns
<1>25. ASSUME NEW p \in Probes, Acquire(p) PROVE SetInv'
  BY <1>25 DEF Acquire
<1>26. CASE UNCHANGED vars
  BY <1>26 DEF vars
<1> QED
  BY <1>1, <1>2, <1>3, <1>4, <1>5, <1>6, <1>7, <1>8, <1>9, <1>10, <1>11, <1>12,
     <1>13, <1>14, <1>15, <1>16, <1>17, <1>18, <1>19, <1>20, <1>21, <1>22, <1>23,
     <1>24, <1>25, <1>26
  DEF Next, Lock, Work, Receive

\* Every outer device is the published one's, the holder's or a probe's.
LEMMA NextCoverInv == IInv /\ [Next]_vars => CoverInv'
<1> SUFFICES ASSUME CoverInv, TypeOK, LockInv, PhaseInv, WorkInv, [Next]_vars
    PROVE  CoverInv'
  BY DEF IInv
<1> USE AwgAssumption DEF CoverInv, TypeOK, LockInv, PhaseInv, WorkInv, Busy, Tun,
   Tunnels, Procs, Goto, Return, Stay, control, socks, hopVars
<1>1. ASSUME NEW c \in Calls, Call(c) PROVE CoverInv'
  BY <1>1 DEF Call
<1>2. ASSUME NEW c \in Calls, LockClose(c) PROVE CoverInv'
  BY <1>2 DEF LockClose
<1>3. ASSUME NEW c \in Calls, LockOpen(c) PROVE CoverInv'
  BY <1>3 DEF LockOpen
<1>4. ASSUME NEW c \in Calls, LockSwap(c) PROVE CoverInv'
  BY <1>4 DEF LockSwap
<1>5. ASSUME NEW c \in Calls, LockReturn(c) PROVE CoverInv'
  BY <1>5 DEF LockReturn
<1>6. ASSUME NEW p \in Procs, OpenFails(p) PROVE CoverInv'
  BY <1>6 DEF OpenFails
<1>7. ASSUME NEW p \in Procs, Open(p) PROVE CoverInv'
  BY <1>7 DEF Open, Free
<1>8. ASSUME NEW p \in Procs, Up(p) PROVE CoverInv'
  BY <1>8 DEF Up
<1>9. ASSUME NEW p \in Procs, UpFails(p) PROVE CoverInv'
  BY <1>9 DEF UpFails
<1>10. ASSUME NEW p \in Procs, Listen(p) PROVE CoverInv'
  BY <1>10 DEF Listen
<1>11. ASSUME NEW p \in Procs, ListenFails(p) PROVE CoverInv'
  BY <1>11 DEF ListenFails
<1>12. ASSUME NEW p \in Procs, Create(p) PROVE CoverInv'
  BY <1>12 DEF Create
<1>13. ASSUME NEW p \in Procs, Raise(p) PROVE CoverInv'
  BY <1>13 DEF Raise
<1>14. ASSUME NEW p \in Procs, CreateFails(p) PROVE CoverInv'
  BY <1>14 DEF CreateFails, HostFails
<1>15. ASSUME NEW p \in Procs, RaiseFails(p) PROVE CoverInv'
  BY <1>15 DEF RaiseFails, HostFails
<1>16. ASSUME NEW p \in Procs, Lookup(p) PROVE CoverInv'
  BY <1>16 DEF Lookup
<1>17. ASSUME NEW p \in Procs, CloseListener(p) PROVE CoverInv'
  BY <1>17 DEF CloseListener
<1>18. ASSUME NEW p \in Procs, Unbind(p) PROVE CoverInv'
  BY <1>18 DEF Unbind, AfterInner
<1>19. ASSUME NEW p \in Procs, CloseInner(p) PROVE CoverInv'
  BY <1>19 DEF CloseInner, AfterInner
<1>20. ASSUME NEW p \in Procs, CloseOuter(p) PROVE CoverInv'
  BY <1>20 DEF CloseOuter
<1>21. ASSUME NEW p \in Procs, Measure(p) PROVE CoverInv'
  BY <1>21 DEF Measure
<1>22. ASSUME NEW t \in Tunnels, ReceiveTop(t) \/ ReceivePacket(t) \/ ReceiveClosed(t)
              \/ Accept(t) \/ PickTarget(t)
       PROVE  CoverInv'
  BY <1>22 DEF ReceiveTop, ReceivePacket, ReceiveClosed, Accept, PickTarget
<1>23. CASE Ping
  BY <1>23 DEF Ping
<1>24. CASE PingReturns
  BY <1>24 DEF PingReturns
<1>25. ASSUME NEW p \in Probes, Acquire(p) PROVE CoverInv'
  BY <1>25 DEF Acquire
<1>26. CASE UNCHANGED vars
  BY <1>26 DEF vars
<1> QED
  BY <1>1, <1>2, <1>3, <1>4, <1>5, <1>6, <1>7, <1>8, <1>9, <1>10, <1>11, <1>12,
     <1>13, <1>14, <1>15, <1>16, <1>17, <1>18, <1>19, <1>20, <1>21, <1>22, <1>23,
     <1>24, <1>25, <1>26
  DEF Next, Lock, Work, Receive

\* A tunnel is published with its listener open.
LEMMA NextLiveInv == IInv /\ [Next]_vars => LiveInv'
<1> SUFFICES ASSUME LiveInv, TypeOK, LockInv, PhaseInv, WorkInv, [Next]_vars
    PROVE  LiveInv'
  BY DEF IInv
<1> USE AwgAssumption DEF LiveInv, TypeOK, LockInv, PhaseInv, WorkInv, Busy, Tun,
   Tunnels, Procs, Goto, Return, Stay, control, socks, hopVars
<1>1. ASSUME NEW c \in Calls, Call(c) PROVE LiveInv'
  BY <1>1 DEF Call
<1>2. ASSUME NEW c \in Calls, LockClose(c) PROVE LiveInv'
  BY <1>2 DEF LockClose
<1>3. ASSUME NEW c \in Calls, LockOpen(c) PROVE LiveInv'
  BY <1>3 DEF LockOpen
<1>4. ASSUME NEW c \in Calls, LockSwap(c) PROVE LiveInv'
  BY <1>4 DEF LockSwap
<1>5. ASSUME NEW c \in Calls, LockReturn(c) PROVE LiveInv'
  BY <1>5 DEF LockReturn
<1>6. ASSUME NEW p \in Procs, OpenFails(p) PROVE LiveInv'
  BY <1>6 DEF OpenFails
<1>7. ASSUME NEW p \in Procs, Open(p) PROVE LiveInv'
  BY <1>7 DEF Open, Free
<1>8. ASSUME NEW p \in Procs, Up(p) PROVE LiveInv'
  BY <1>8 DEF Up
<1>9. ASSUME NEW p \in Procs, UpFails(p) PROVE LiveInv'
  BY <1>9 DEF UpFails
<1>10. ASSUME NEW p \in Procs, Listen(p) PROVE LiveInv'
  BY <1>10 DEF Listen
<1>11. ASSUME NEW p \in Procs, ListenFails(p) PROVE LiveInv'
  BY <1>11 DEF ListenFails
<1>12. ASSUME NEW p \in Procs, Create(p) PROVE LiveInv'
  BY <1>12 DEF Create
<1>13. ASSUME NEW p \in Procs, Raise(p) PROVE LiveInv'
  BY <1>13 DEF Raise
<1>14. ASSUME NEW p \in Procs, CreateFails(p) PROVE LiveInv'
  BY <1>14 DEF CreateFails, HostFails
<1>15. ASSUME NEW p \in Procs, RaiseFails(p) PROVE LiveInv'
  BY <1>15 DEF RaiseFails, HostFails
<1>16. ASSUME NEW p \in Procs, Lookup(p) PROVE LiveInv'
  BY <1>16 DEF Lookup
<1>17. ASSUME NEW p \in Procs, CloseListener(p) PROVE LiveInv'
  BY <1>17 DEF CloseListener
<1>18. ASSUME NEW p \in Procs, Unbind(p) PROVE LiveInv'
  BY <1>18 DEF Unbind, AfterInner
<1>19. ASSUME NEW p \in Procs, CloseInner(p) PROVE LiveInv'
  BY <1>19 DEF CloseInner, AfterInner
<1>20. ASSUME NEW p \in Procs, CloseOuter(p) PROVE LiveInv'
  BY <1>20 DEF CloseOuter
<1>21. ASSUME NEW p \in Procs, Measure(p) PROVE LiveInv'
  BY <1>21 DEF Measure
<1>22. ASSUME NEW t \in Tunnels, ReceiveTop(t) \/ ReceivePacket(t) \/ ReceiveClosed(t)
              \/ Accept(t) \/ PickTarget(t)
       PROVE  LiveInv'
  BY <1>22 DEF ReceiveTop, ReceivePacket, ReceiveClosed, Accept, PickTarget
<1>23. CASE Ping
  BY <1>23 DEF Ping
<1>24. CASE PingReturns
  BY <1>24 DEF PingReturns
<1>25. ASSUME NEW p \in Probes, Acquire(p) PROVE LiveInv'
  BY <1>25 DEF Acquire
<1>26. CASE UNCHANGED vars
  BY <1>26 DEF vars
<1> QED
  BY <1>1, <1>2, <1>3, <1>4, <1>5, <1>6, <1>7, <1>8, <1>9, <1>10, <1>11, <1>12,
     <1>13, <1>14, <1>15, <1>16, <1>17, <1>18, <1>19, <1>20, <1>21, <1>22, <1>23,
     <1>24, <1>25, <1>26
  DEF Next, Lock, Work, Receive

\* An inner stack goes only with the listener closed or under a swap.
LEMMA NextExitInv == IInv /\ [Next]_vars => ExitInv'
<1> SUFFICES ASSUME ExitInv, TypeOK, LockInv, PhaseInv, WorkInv, SetInv, [Next]_vars
    PROVE  ExitInv'
  BY DEF IInv
<1> USE AwgAssumption DEF ExitInv, TypeOK, LockInv, PhaseInv, WorkInv, SetInv, Busy,
   Tun, SwapHolds, Tunnels, Procs, Goto, Return, Stay, control, socks, hopVars
<1>1. ASSUME NEW c \in Calls, Call(c) PROVE ExitInv'
  BY <1>1 DEF Call
<1>2. ASSUME NEW c \in Calls, LockClose(c) PROVE ExitInv'
  BY <1>2 DEF LockClose
<1>3. ASSUME NEW c \in Calls, LockOpen(c) PROVE ExitInv'
  BY <1>3 DEF LockOpen
<1>4. ASSUME NEW c \in Calls, LockSwap(c) PROVE ExitInv'
  BY <1>4 DEF LockSwap
<1>5. ASSUME NEW c \in Calls, LockReturn(c) PROVE ExitInv'
  BY <1>5 DEF LockReturn
<1>6. ASSUME NEW p \in Procs, OpenFails(p) PROVE ExitInv'
  BY <1>6 DEF OpenFails
<1>7. ASSUME NEW p \in Procs, Open(p) PROVE ExitInv'
  BY <1>7 DEF Open, Free
<1>8. ASSUME NEW p \in Procs, Up(p) PROVE ExitInv'
  BY <1>8 DEF Up
<1>9. ASSUME NEW p \in Procs, UpFails(p) PROVE ExitInv'
  BY <1>9 DEF UpFails
<1>10. ASSUME NEW p \in Procs, Listen(p) PROVE ExitInv'
  BY <1>10 DEF Listen
<1>11. ASSUME NEW p \in Procs, ListenFails(p) PROVE ExitInv'
  BY <1>11 DEF ListenFails
<1>12. ASSUME NEW p \in Procs, Create(p) PROVE ExitInv'
  BY <1>12 DEF Create
<1>13. ASSUME NEW p \in Procs, Raise(p) PROVE ExitInv'
  BY <1>13 DEF Raise
<1>14. ASSUME NEW p \in Procs, CreateFails(p) PROVE ExitInv'
  BY <1>14 DEF CreateFails, HostFails
<1>15. ASSUME NEW p \in Procs, RaiseFails(p) PROVE ExitInv'
  BY <1>15 DEF RaiseFails, HostFails
<1>16. ASSUME NEW p \in Procs, Lookup(p) PROVE ExitInv'
  BY <1>16 DEF Lookup
<1>17. ASSUME NEW p \in Procs, CloseListener(p) PROVE ExitInv'
  BY <1>17 DEF CloseListener
<1>18. ASSUME NEW p \in Procs, Unbind(p) PROVE ExitInv'
  BY <1>18 DEF Unbind, AfterInner
<1>19. ASSUME NEW p \in Procs, CloseInner(p) PROVE ExitInv'
  BY <1>19 DEF CloseInner, AfterInner
<1>20. ASSUME NEW p \in Procs, CloseOuter(p) PROVE ExitInv'
  BY <1>20 DEF CloseOuter
<1>21. ASSUME NEW p \in Procs, Measure(p) PROVE ExitInv'
  BY <1>21 DEF Measure
<1>22. ASSUME NEW t \in Tunnels, ReceiveTop(t) \/ ReceivePacket(t) \/ ReceiveClosed(t)
              \/ Accept(t) \/ PickTarget(t)
       PROVE  ExitInv'
  BY <1>22 DEF ReceiveTop, ReceivePacket, ReceiveClosed, Accept, PickTarget
<1>23. CASE Ping
  BY <1>23 DEF Ping
<1>24. CASE PingReturns
  BY <1>24 DEF PingReturns
<1>25. ASSUME NEW p \in Probes, Acquire(p) PROVE ExitInv'
  BY <1>25 DEF Acquire
<1>26. CASE UNCHANGED vars
  BY <1>26 DEF vars
<1> QED
  BY <1>1, <1>2, <1>3, <1>4, <1>5, <1>6, <1>7, <1>8, <1>9, <1>10, <1>11, <1>12,
     <1>13, <1>14, <1>15, <1>16, <1>17, <1>18, <1>19, <1>20, <1>21, <1>22, <1>23,
     <1>24, <1>25, <1>26
  DEF Next, Lock, Work, Receive

\* IInv is inductive.
LEMMA Inductive == Spec => []IInv
<1>1. IInv /\ [Next]_vars => IInv'
  BY NextTypeOK, NextLockInv, NextPhaseInv, NextSemInv, NextWorkInv, NextSetInv,
     NextCoverInv, NextLiveInv, NextExitInv DEF IInv
<1> QED BY <1>1, InitIInv, PTL DEF Spec

-----------------------------------------------------------------------------
(* Theorems.                                                               *)

\* Type correctness of the AmneziaWG engine.
THEOREM TypeCorrect == Spec => []TypeOK
<1>1. IInv => TypeOK
  BY DEF IInv
<1> QED BY <1>1, Inductive, PTL

\* Whatever fails in openTunnel, startHop, the swap or a probe, every device,
\* hop socket and listener that is open has an owner that will close it.
THEOREM NothingLeaks == Spec => []NoLeak
<1>1. ASSUME IInv PROVE NoLeak
  <2> USE <1>1, AwgAssumption DEF IInv, TypeOK, Tunnels, Procs
  <2>1. outer \subseteq InUse
    BY DEF CoverInv, InUse
  <2>2. listen \subseteq InUse
    BY <2>1 DEF SetInv
  <2>3. inner \subseteq outer /\ sock \subseteq inner
    BY DEF SetInv
  <2>4. outer \cap Probes \subseteq sem
    BY DEF CoverInv, SemInv
  <2>5. ASSUME liveMu = None, live # None
        PROVE  /\ live \in outer \cap listen
               /\ live \in hop \ told => live \in inner
               /\ live \in inner => live \in net
    <3>1. ~SwapHolds(live)
      BY <2>5 DEF LockInv, SwapHolds
    <3>2. live \in outer \cap listen
      BY <2>5 DEF LiveInv, SetInv
    <3> QED
      BY <2>5, <3>1, <3>2 DEF ExitInv, SetInv, LiveInv
  <2> QED
    BY <2>1, <2>2, <2>3, <2>4, <2>5 DEF NoLeak
<1> QED BY <1>1, Inductive, PTL

\* A connection through a hop tunnel is given the outer stack only after a
\* swap its caller was told has failed, or when the tunnel is being closed.
THEOREM HopExitsByInner == Spec => ExitsByInner
<1>1. ASSUME IInv, [Next]_vars
      PROVE  [\A t \in hop : t \in got \ got' /\ served' = "outer"
                             => t \in told \/ t \notin listen]_vars
  <2>1. ASSUME NEW t \in Tunnels, PickTarget(t)
        PROVE  \A u \in hop : u \in got \ got' /\ served' = "outer"
                              => u \in told \/ u \notin listen
    BY <1>1, <2>1 DEF PickTarget, IInv, ExitInv
  <2>2. CASE ~\E t \in Tunnels : PickTarget(t)
    <3>1. got \subseteq got'
      <4> USE DEF socks, control, hopVars
      <4>1. ASSUME NEW c \in Calls, Call(c) \/ Lock(c) PROVE got' = got
        BY <4>1 DEF Call, Lock, LockClose, LockOpen, LockSwap, LockReturn
      <4>2. ASSUME NEW p \in Procs, Work(p) PROVE got' = got
        BY <4>2 DEF Work, OpenFails, Open, Up, UpFails, Listen, ListenFails, Create,
           CreateFails, Raise, RaiseFails, Lookup, CloseListener, Unbind, CloseInner,
           CloseOuter, Measure
      <4>3. ASSUME NEW t \in Tunnels, Receive(t) \/ Accept(t) PROVE got \subseteq got'
        BY <4>3 DEF Receive, ReceiveTop, ReceivePacket, ReceiveClosed, Accept
      <4>4. CASE Ping \/ PingReturns \/ \E p \in Probes : Acquire(p)
        BY <4>4 DEF Ping, PingReturns, Acquire
      <4>5. CASE UNCHANGED vars
        BY <4>5 DEF vars
      <4> QED
        BY <1>1, <2>2, <4>1, <4>2, <4>3, <4>4, <4>5 DEF Next
    <3> QED
      BY <3>1
  <2> QED
    BY <2>1, <2>2
<1>2. Spec => [][Next]_vars
  BY PTL DEF Spec
<1> QED BY <1>1, <1>2, Inductive, PTL DEF ExitsByInner

\* device.Close waits for the receive routine of an inner device (hopbind.go)
\* with liveMu held. The connection is closed by then, so that the routine
\* takes no further packet: all it can do is end.
WaitEnds ==
    [][\A p \in Procs : pc[p] = "wait" =>
         /\ Tun(p) \notin sock
         /\ reader'[Tun(p)] \in {reader[Tun(p)], "none"}]_vars

\* A close never waits for a receive routine that goes on, whatever other
\* calls and probes open meanwhile: what keeps startLive and stopLive, which
\* hold liveMu through it, from waiting for ever.
THEOREM CloseWaitsForTheEnd == Spec => WaitEnds
<1>1. ASSUME IInv, [Next]_vars, NEW p \in Procs, pc[p] = "wait"
      PROVE  Tun(p) \notin sock /\ reader'[Tun(p)] \in {reader[Tun(p)], "none"}
  <2> USE AwgAssumption DEF Procs, Tunnels
  <2>0. TypeOK /\ LockInv /\ PhaseInv /\ WorkInv
    BY <1>1 DEF IInv
  <2>1. Tun(p) \in Tunnels /\ Tun(p) \notin sock
    BY <1>1, <2>0 DEF WorkInv, Busy, LockInv, Tun
  <2>2. CASE UNCHANGED reader
    BY <2>1, <2>2
  <2>3. ASSUME NEW q \in Procs, Raise(q) PROVE Tun(p) # Tun(q)
    BY <1>1, <2>0, <2>3 DEF Raise, LockInv, Busy, Tun, TypeOK
  <2>4. ASSUME NEW q \in Procs, Raise(q) PROVE reader'[Tun(p)] \in {reader[Tun(p)], "none"}
    BY <2>0, <2>1, <2>3, <2>4 DEF Raise, TypeOK
  <2>5. ASSUME NEW t \in Tunnels, Receive(t) PROVE reader'[Tun(p)] \in {reader[Tun(p)], "none"}
    BY <2>0, <2>1, <2>5 DEF Receive, ReceiveTop, ReceivePacket, ReceiveClosed, TypeOK
  <2>6. ASSUME NEW q \in Procs, Work(q), ~Raise(q) PROVE UNCHANGED reader
    BY <2>6 DEF Work, OpenFails, Open, Up, UpFails, Listen, ListenFails, Create, CreateFails,
       RaiseFails, Lookup, CloseListener, Unbind, CloseInner, CloseOuter, Measure, hopVars
  <2>7. CASE \/ \E c \in Calls : Call(c) \/ Lock(c)
             \/ \E t \in Tunnels : Accept(t) \/ PickTarget(t)
             \/ Ping \/ PingReturns \/ (\E r \in Probes : Acquire(r)) \/ UNCHANGED vars
    <3>1. UNCHANGED reader
      BY <2>7 DEF Call, Lock, LockClose, LockOpen, LockSwap, LockReturn, Accept, PickTarget,
         Ping, PingReturns, Acquire, vars, hopVars
    <3> QED BY <2>2, <3>1
  <2> QED BY <1>1, <2>1, <2>2, <2>4, <2>5, <2>6, <2>7 DEF Next
<1>2. IInv /\ [Next]_vars =>
        [\A p \in Procs : pc[p] = "wait" =>
           /\ Tun(p) \notin sock
           /\ reader'[Tun(p)] \in {reader[Tun(p)], "none"}]_vars
  BY <1>1
<1> QED BY <1>2, Inductive, PTL DEF Spec, WaitEnds

-----------------------------------------------------------------------------
(* The tunnels, one by one, as EngineLife describes them.                 *)

\* What a process closes its tunnel for.
Closers == {"drop", "fail", "quit"}

\* How far a tunnel is, by its own process alone: the call that holds liveMu
\* for a live tunnel, itself for a probe's.
Stage(t) ==
    IF t \notin outer THEN "free"
    ELSE IF t \in Probes THEN IF ctx[t] \in Closers THEN "closing" ELSE "opening"
    ELSE IF liveMu # None /\ cur = t /\ ctx[liveMu] \in Closers THEN "closing"
    ELSE IF live = t THEN "running"
    ELSE "opening"

\* No second process has a tunnel in hand.
LEMMA LifeIsStage == IInv => \A t \in Tunnels : LifeOf(t) = Stage(t)
<1> SUFFICES ASSUME IInv, NEW t \in Tunnels, t \in outer PROVE LifeOf(t) = Stage(t)
  BY DEF LifeOf, Stage
<1> USE AwgAssumption DEF IInv, TypeOK, Procs, Tunnels, Closers
<1>1. CASE t \in Probes
  <2>1. Busy(t) /\ t # live /\ t # cur
    BY <1>1 DEF CoverInv
  <2>2. BeingClosed(t) <=> ctx[t] \in Closers
    BY <1>1, <2>1 DEF BeingClosed, Tun
  <2> QED BY <1>1, <2>1, <2>2 DEF LifeOf, Stage
<1>2. CASE t \in Ids
  <2>1. BeingClosed(t) <=> liveMu # None /\ cur = t /\ ctx[liveMu] \in Closers
    BY <1>2 DEF BeingClosed, Tun, LockInv
  <2> QED BY <1>2, <2>1 DEF LifeOf, Stage
<1> QED BY <1>1, <1>2

\* A step that moves one tunnel, or none.
Keeps(e) == \A t \in Tunnels \ {e} : Stage(t)' = Stage(t)

\* A step that moves none stutters.
LEMMA LifeStays ==
  ASSUME IInv, IInv', \A t \in Tunnels : Stage(t)' = Stage(t)
  PROVE  UNCHANGED [t \in Tunnels |-> LifeOf(t)]
<1>1. \A t \in Tunnels : LifeOf(t) = Stage(t)
  BY LifeIsStage
<1>2. (\A t \in Tunnels : LifeOf(t) = Stage(t))'
  BY LifeIsStage, PTL
<1> QED BY <1>1, <1>2

\* What a move of one tunnel is to EngineLife.
LEMMA LifeMoves ==
  ASSUME IInv, IInv', NEW e \in Tunnels, Keeps(e),
         \/ Stage(e) = "free" /\ Stage(e)' = "opening"
         \/ /\ Stage(e) = "opening" /\ Stage(e)' = "running"
            /\ \A t \in Tunnels : Stage(t) # "running"
         \/ Stage(e) \in {"opening", "running"} /\ Stage(e)' = "closing"
         \/ Stage(e) # "free" /\ Stage(e)' = "free"
  PROVE  Life!LifeNext
<1> DEFINE f == [t \in Tunnels |-> LifeOf(t)]
<1>1. \A t \in Tunnels : LifeOf(t) = Stage(t)
  BY LifeIsStage
<1>2. (\A t \in Tunnels : LifeOf(t) = Stage(t))'
  BY LifeIsStage, PTL
<1>3. ASSUME NEW v, Stage(e)' = v PROVE f' = [f EXCEPT ![e] = v]
  BY <1>1, <1>2, <1>3 DEF Keeps
<1>4. \A t \in Tunnels : f[t] = Stage(t)
  BY <1>1
<1> HIDE DEF f
<1> USE <1>3, <1>4 DEF Life!Move, Life!Open, Life!Publish, Life!Abandon, Life!Withdraw,
   Life!Close, f
<1> QED BY DEF Life!LifeNext

\* Every step moves one tunnel at most, as EngineLife allows.
LEMMA LifeStep ==
  IInv /\ IInv' /\ [Next]_vars => [Life!LifeNext]_([t \in Tunnels |-> LifeOf(t)])
<1> SUFFICES ASSUME IInv, IInv', [Next]_vars
             PROVE  Life!LifeNext \/ UNCHANGED [t \in Tunnels |-> LifeOf(t)]
  OBVIOUS
<1> DEFINE Goal == Life!LifeNext \/ UNCHANGED [t \in Tunnels |-> LifeOf(t)]
<1>0. TypeOK /\ LockInv /\ PhaseInv /\ WorkInv /\ CoverInv
  BY DEF IInv
<1> USE <1>0, AwgAssumption DEF TypeOK, Procs, Tunnels, Closers, Busy, Goto, Return, Stay,
   control
<1>1. ASSUME NEW c \in Calls, Call(c) \/ LockOpen(c) \/ LockSwap(c) \/ LockReturn(c)
      PROVE  Goal
  <2>1. CASE Call(c)
    BY <2>1, LifeStays DEF Call, Stage, LockInv
  <2>2. CASE LockOpen(c)
    BY <2>2, LifeStays DEF LockOpen, Stage, LockInv
  <2>3. CASE LockSwap(c)
    BY <2>3, LifeStays DEF LockSwap, Stage, LockInv
  <2>4. CASE LockReturn(c)
    BY <2>4, LifeStays DEF LockReturn, Stage, LockInv
  <2> QED BY <1>1, <2>1, <2>2, <2>3, <2>4
<1>2. ASSUME NEW c \in Calls, LockClose(c) PROVE Goal
  <2>1. live \in Ids /\ liveMu = None /\ live' = live /\ outer' = outer /\ cur' = live
    BY <1>2 DEF LockClose
  <2>2. live \in outer
    BY <1>2, <2>1 DEF IInv, LiveInv, SetInv
  <2>3. \A t \in Tunnels : t = live => Stage(t) = "running"
    BY <2>1, <2>2 DEF Stage
  <2>4. \A t \in Tunnels : t = live => Stage(t)' = "closing"
    BY <1>2, <2>1, <2>2 DEF LockClose, Stage
  <2>5. ASSUME NEW t \in Tunnels, t # live PROVE Stage(t)' = Stage(t)
    BY <1>2, <2>5 DEF LockClose, Stage
  <2> QED BY <2>1, <2>3, <2>4, <2>5, LifeMoves DEF Keeps
<1>3. ASSUME NEW p \in Procs, OpenFails(p) PROVE Goal
  <2>1. CASE p \in Calls
    <3>1. cur = None /\ cur' = None /\ UNCHANGED <<outer, live>>
      BY <1>3, <2>1 DEF OpenFails, LockInv
    <3>2. \A t \in Probes : ctx'[t] = ctx[t]
      BY <1>3, <2>1 DEF OpenFails
    <3> QED BY <3>1, <3>2, LifeStays DEF Stage
  <2>2. CASE p \in Probes
    <3>1. p \notin outer
      BY <1>3, <2>2 DEF OpenFails, CoverInv
    <3> QED BY <1>3, <2>2, <3>1, LifeStays DEF OpenFails, Stage
  <2> QED BY <2>1, <2>2
<1>4. ASSUME NEW p \in Procs, Open(p) PROVE Goal
  <2>1. PICK t \in Tunnels : /\ Free(t) /\ outer' = outer \cup {t}
                             /\ t = p \/ (p \in Calls /\ t \in Ids)
                             /\ cur' = IF p \in Calls THEN t ELSE cur
    BY <1>4 DEF Open
  <2>2. t \notin outer
    BY <2>1 DEF Free
  <2>3. ctx' = [ctx EXCEPT ![p] = "hop"] /\ UNCHANGED <<liveMu, live>>
    BY <1>4 DEF Open
  <2>4. Stage(t) = "free"
    BY <2>2 DEF Stage
  <2>5. CASE p \in Calls
    <3>1. liveMu = p /\ live = None /\ cur = None /\ t \in Ids
      BY <1>4, <2>1, <2>5 DEF Open, LockInv
    <3>2. Stage(t)' = "opening"
      BY <2>1, <2>3, <2>5, <3>1 DEF Stage
    <3>3. ASSUME NEW r \in Tunnels, r # t PROVE Stage(r)' = Stage(r)
      BY <2>1, <2>3, <2>5, <3>1, <3>3 DEF Stage
    <3> QED BY <2>4, <3>2, <3>3, LifeMoves DEF Keeps
  <2>6. CASE p \in Probes
    <3>1. t = p /\ cur' = cur /\ liveMu # p
      BY <2>1, <2>6
    <3>2. Stage(t)' = "opening"
      BY <2>1, <2>3, <2>6, <3>1 DEF Stage
    <3>3. ASSUME NEW r \in Tunnels, r # t PROVE Stage(r)' = Stage(r)
      BY <2>1, <2>3, <2>6, <3>1, <3>3 DEF Stage
    <3> QED BY <2>4, <3>2, <3>3, LifeMoves DEF Keeps
  <2> QED BY <2>5, <2>6
<1>5. ASSUME NEW p \in Procs, Listen(p) PROVE Goal
  <2>1. CASE p \in Probes
    BY <1>5, <2>1, LifeStays DEF Listen, Stage
  <2>2. CASE p \in Calls
    <3>1. liveMu = p /\ live = None /\ cur \in Ids /\ ctx[p] = "hop" /\ cur \in outer
      BY <1>5, <2>2 DEF Listen, LockInv, PhaseInv, WorkInv, Tun
    <3>2. liveMu' = None /\ live' = cur /\ outer' = outer /\ \A t \in Probes : ctx'[t] = ctx[t]
      BY <1>5, <2>2 DEF Listen
    <3>3. \A t \in Tunnels : Stage(t) # "running"
      BY <3>1 DEF Stage
    <3>4. \A t \in Tunnels : t = cur => Stage(t) = "opening" /\ Stage(t)' = "running"
      BY <3>1, <3>2 DEF Stage
    <3>5. ASSUME NEW t \in Tunnels, t # cur PROVE Stage(t)' = Stage(t)
      BY <3>1, <3>2, <3>5 DEF Stage
    <3> QED BY <3>1, <3>3, <3>4, <3>5, LifeMoves DEF Keeps
  <2> QED BY <2>1, <2>2
\* The tunnel of p starts to be closed by its own process.
<1>6. ASSUME NEW p \in Procs, Busy(p), pc[p] # "open", ctx[p] = "hop",
             NEW v \in Closers, ctx' = [ctx EXCEPT ![p] = v],
             UNCHANGED <<liveMu, cur, live, outer>>
      PROVE  Goal
  <2>1. Tun(p) \in outer /\ Tun(p) \in Tunnels
    BY <1>6 DEF WorkInv
  <2>2. \A t \in Tunnels : t = Tun(p) =>
          Stage(t) \in {"opening", "running"} /\ Stage(t)' = "closing"
    BY <1>6, <2>1 DEF Stage, Tun, LockInv
  <2>3. ASSUME NEW t \in Tunnels, t # Tun(p) PROVE Stage(t)' = Stage(t)
    BY <1>6, <2>3 DEF Stage, Tun, LockInv
  <2> QED BY <2>1, <2>2, <2>3, LifeMoves DEF Keeps
<1>7. ASSUME NEW p \in Procs, ListenFails(p) PROVE Goal
  BY <1>6, <1>7 DEF ListenFails, PhaseInv
<1>8. ASSUME NEW p \in Procs, Measure(p) PROVE Goal
  BY <1>6, <1>8 DEF Measure, PhaseInv
\* A swap ends: the tunnel stays published.
<1>9. ASSUME NEW p \in Procs, pc[p] \in {"create", "raise"}, ctx[p] = "swap", Return(p),
             UNCHANGED <<live, outer>>
      PROVE  Goal
  <2>1. p \in Calls /\ liveMu = p /\ liveMu' = None /\ \A t \in Probes : ctx'[t] = ctx[t]
    BY <1>9 DEF PhaseInv, LockInv
  <2> QED BY <1>9, <2>1, LifeStays DEF Stage
<1>10. ASSUME NEW p \in Procs, Raise(p) PROVE Goal
  <2>1. CASE ctx[p] = "swap"
    BY <1>9, <1>10, <2>1 DEF Raise
  <2>2. CASE ctx[p] # "swap"
    BY <1>10, <2>2, LifeStays DEF Raise, Stage
  <2> QED BY <2>1, <2>2
<1>11. ASSUME NEW p \in Procs, CreateFails(p) \/ RaiseFails(p) PROVE Goal
  <2>0. pc[p] \in {"create", "raise"} /\ HostFails(p) /\ UNCHANGED <<live, outer>>
    BY <1>11 DEF CreateFails, RaiseFails
  <2>1. CASE ctx[p] = "swap"
    BY <1>9, <2>0, <2>1 DEF HostFails
  <2>2. CASE ctx[p] = "hop" /\ left[p] = 1
    BY <1>6, <2>0, <2>2 DEF HostFails
  <2>3. CASE ctx[p] = "hop" /\ left[p] # 1
    <3>1. UNCHANGED <<ctx, liveMu, cur, live, outer>>
      BY <2>0, <2>3 DEF HostFails
    <3> QED BY <3>1, LifeStays DEF Stage
  <2> QED BY <2>0, <2>1, <2>2, <2>3 DEF HostFails
<1>12. ASSUME NEW p \in Procs, \/ Up(p) \/ Create(p) \/ Lookup(p) \/ CloseListener(p)
                               \/ Unbind(p) \/ CloseInner(p)
       PROVE  Goal
  <2>1. UNCHANGED <<ctx, liveMu, cur, live, outer>>
    BY <1>12 DEF Up, Create, Lookup, CloseListener, Unbind, CloseInner
  <2> QED BY <2>1, LifeStays DEF Stage
<1>13. ASSUME NEW p \in Procs, CloseOuter(p) PROVE Goal
  <2>1. Tun(p) \in outer /\ Tun(p) \in Tunnels
    BY <1>13 DEF CloseOuter, WorkInv
  <2>2. outer' = outer \ {Tun(p)}
    BY <1>13 DEF CloseOuter
  <2>3. \A t \in Tunnels : t = Tun(p) => Stage(t) # "free" /\ Stage(t)' = "free"
    BY <2>1, <2>2 DEF Stage
  <2>4. CASE p \in Probes
    <3>1. /\ UNCHANGED <<liveMu, cur, live>> /\ Tun(p) = p
          /\ \A q \in Procs \ {p} : ctx'[q] = ctx[q]
      BY <1>13, <2>4 DEF CloseOuter, PhaseInv, Tun
    <3>2. ASSUME NEW t \in Tunnels, t # p PROVE Stage(t)' = Stage(t)
      BY <2>2, <2>4, <3>1, <3>2 DEF Stage
    <3> QED BY <2>1, <2>3, <3>1, <3>2, LifeMoves DEF Keeps
  <2>5. CASE p \in Calls
    <3>1. /\ Tun(p) = cur /\ cur \in Ids /\ live \in {cur, None} /\ live' = None
          /\ cur' = None /\ \A q \in Probes : ctx'[q] = ctx[q]
      BY <1>13, <2>5 DEF CloseOuter, LockInv, PhaseInv, Tun
    <3>2. ASSUME NEW t \in Tunnels, t # cur PROVE Stage(t)' = Stage(t)
      BY <2>2, <3>1, <3>2 DEF Stage
    <3> QED BY <2>1, <2>3, <3>1, <3>2, LifeMoves DEF Keeps
  <2> QED BY <2>4, <2>5
<1>14. ASSUME NEW t \in Tunnels, Receive(t) \/ Accept(t) \/ PickTarget(t) PROVE Goal
  <2>1. UNCHANGED <<ctx, liveMu, cur, live, outer>>
    BY <1>14 DEF Receive, ReceiveTop, ReceivePacket, ReceiveClosed, Accept, PickTarget
  <2> QED BY <2>1, LifeStays DEF Stage
<1>15. CASE Ping \/ PingReturns \/ (\E p \in Probes : Acquire(p)) \/ UNCHANGED vars
  <2>1. UNCHANGED <<ctx, liveMu, cur, live, outer>>
    BY <1>15 DEF Ping, PingReturns, Acquire, vars
  <2> QED BY <2>1, LifeStays DEF Stage
<1>16. ASSUME NEW p \in Procs, UpFails(p) PROVE Goal
  <2>1. Tun(p) \in outer /\ Tun(p) \in Tunnels /\ outer' = outer \ {Tun(p)}
    BY <1>16 DEF UpFails, WorkInv
  <2>2. \A t \in Tunnels : t = Tun(p) => Stage(t) # "free" /\ Stage(t)' = "free"
    BY <2>1 DEF Stage
  <2>3. CASE p \in Probes
    <3>1. /\ UNCHANGED <<liveMu, cur, live>> /\ Tun(p) = p
          /\ \A q \in Procs \ {p} : ctx'[q] = ctx[q]
      BY <1>16, <2>3 DEF UpFails, Tun
    <3>2. ASSUME NEW t \in Tunnels, t # p PROVE Stage(t)' = Stage(t)
      BY <2>1, <2>3, <3>1, <3>2 DEF Stage
    <3> QED BY <2>1, <2>2, <3>1, <3>2, LifeMoves DEF Keeps
  <2>4. CASE p \in Calls
    <3>1. /\ Tun(p) = cur /\ cur \in Ids /\ live = None /\ live' = None
          /\ cur' = None /\ \A q \in Probes : ctx'[q] = ctx[q]
      BY <1>16, <2>4 DEF UpFails, LockInv, PhaseInv, Tun
    <3>2. ASSUME NEW t \in Tunnels, t # cur PROVE Stage(t)' = Stage(t)
      BY <2>1, <3>1, <3>2 DEF Stage
    <3> QED BY <2>1, <2>2, <3>1, <3>2, LifeMoves DEF Keeps
  <2> QED BY <2>3, <2>4
<1> QED
  BY <1>1, <1>2, <1>3, <1>4, <1>5, <1>7, <1>8, <1>10, <1>11, <1>12, <1>13, <1>14, <1>15,
     <1>16
  DEF Next, Lock, Work

\* AwgStart and AwgStop, under liveMu, keep the promise of EngineLife: a start
\* over a running tunnel closes that one before it opens its own, a tunnel
\* that failed in openTunnel or startHop is never published, nor is a probe's.
THEOREM EngineImplementsLife == Spec => ImplementsLife
<1>1. Init => Life!LifeInit
  BY DEF Init, Life!LifeInit, LifeOf
<1> QED BY <1>1, LifeStep, Inductive, PTL DEF Spec, ImplementsLife, Life!LifeSpec
=============================================================================
