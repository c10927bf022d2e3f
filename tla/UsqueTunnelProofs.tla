------------------------- MODULE UsqueTunnelProofs -------------------------
(***************************************************************************)
(* Proofs about UsqueTunnel for any set of slots, any number of packets,   *)
(* both transports and both reconnect modes.                               *)
(***************************************************************************)
EXTENDS UsqueTunnel, TLAPS

\* What is inductive. None of the safety properties is inductive alone: that
\* a lingering pump cannot forward needs the phases of CycleInv (its slot was
\* torn down before it was given up), and CycleInv needs OneConnection and
\* ErrorsFit when a slot is used again. The flags play no part in it.
IInv ==
    /\ StateOK
    /\ CycleInv
    /\ OneConnection
    /\ StaleCannotForward
    /\ ErrorsFit
    /\ ReadyOnlyWhileConnected

\* A fresh session satisfies the invariant.
LEMMA InitIInv == Init => IInv
<1> SUFFICES ASSUME Init PROVE IInv
  OBVIOUS
<1>1. StateOK
  BY PacketsAssumption DEF Init, StateOK, SupStates, ErrChanCap
<1>2. CycleInv
  BY SlotsAssumption DEF Init, CycleInv, Holding
<1>3. OneConnection
  BY DEF Init, OneConnection
<1>4. StaleCannotForward
  BY DEF Init, StaleCannotForward, Free
<1>5. ErrorsFit
  BY DEF Init, ErrorsFit, Running, ErrChanCap
<1>6. ReadyOnlyWhileConnected
  BY DEF Init, ReadyOnlyWhileConnected
<1> QED BY <1>1, <1>2, <1>3, <1>4, <1>5, <1>6 DEF IInv

\* Every step of supervisor, pumps, close and environment preserves it.
LEMMA NextIInv == IInv /\ [Next]_vars => IInv'
<1> SUFFICES ASSUME IInv, [Next]_vars PROVE IInv'
  OBVIOUS
<1> USE SlotsAssumption, PacketsAssumption
    DEF IInv, StateOK, CycleInv, OneConnection, StaleCannotForward, ErrorsFit,
        ReadyOnlyWhileConnected, Free, Running, Holding, SupStates,
        ErrChanCap, pumpVars, closeVars
<1>1. CASE Top
  BY <1>1 DEF Top
<1>2. CASE IdleRead
  BY <1>2 DEF IdleRead
<1>3. CASE IdleReadError
  BY <1>3 DEF IdleReadError
<1>4. CASE ConnectFail
  BY <1>4 DEF ConnectFail
<1>5. ASSUME NEW s \in Slots, ConnectOK(s) PROVE IInv'
  BY <1>5 DEF ConnectOK
<1>6. CASE ReadyAndPump
  BY <1>6 DEF ReadyAndPump
<1>7. CASE RecvErr
  BY <1>7 DEF RecvErr
<1>8. CASE Teardown
  BY <1>8 DEF Teardown
<1>9. CASE JoinDone
  BY <1>9 DEF JoinDone, ReleaseTransport
<1>10. CASE JoinGrace
  BY <1>10 DEF JoinGrace, ReleaseTransport
<1>11. CASE SleepDone
  BY <1>11 DEF SleepDone
<1>12. CASE SleepCancelled
  BY <1>12 DEF SleepCancelled
<1>13. ASSUME NEW s \in Slots, DevCheck(s) PROVE IInv'
  BY <1>13 DEF DevCheck
<1>14. ASSUME NEW s \in Slots, DevRead(s) PROVE IInv'
  BY <1>14 DEF DevRead
<1>15. ASSUME NEW s \in Slots, DevReadError(s) PROVE IInv'
  BY <1>15 DEF DevReadError, SendErr
<1>16. ASSUME NEW s \in Slots, DevRecheck(s) PROVE IInv'
  BY <1>16 DEF DevRecheck
<1>17. ASSUME NEW s \in Slots, DevWrite(s) PROVE IInv'
  BY <1>17 DEF DevWrite
<1>18. ASSUME NEW s \in Slots, DevWriteClosed(s) PROVE IInv'
  BY <1>18 DEF DevWriteClosed, SendErr
<1>19. ASSUME NEW s \in Slots, ConnReadError(s) PROVE IInv'
  BY <1>19 DEF ConnReadError, SendErr
<1>20. ASSUME NEW s \in Slots, DevRefuses(s) PROVE IInv'
  BY <1>20 DEF DevRefuses, SendErr
<1>21. ASSUME NEW s \in Slots, ConnLost(s) PROVE IInv'
  BY <1>21 DEF ConnLost
<1>22. ASSUME NEW s \in Slots, StreamAborted(s) PROVE IInv'
  BY <1>22 DEF StreamAborted, ConnLost
<1>23. CASE CloseFlag
  BY <1>23 DEF CloseFlag
<1>24. CASE CloseCancel
  BY <1>24 DEF CloseCancel
<1>25. CASE CloseDevice
  BY <1>25 DEF CloseDevice
<1>26. CASE ParentExpires
  BY <1>26 DEF ParentExpires
<1>27. CASE StackSends
  BY <1>27 DEF StackSends
<1>28. CASE UNCHANGED vars
  BY <1>28 DEF vars, stepVars
<1> QED
  BY <1>1, <1>2, <1>3, <1>4, <1>5, <1>6, <1>7, <1>8, <1>9, <1>10, <1>11, <1>12, <1>13,
     <1>14, <1>15, <1>16, <1>17, <1>18, <1>19, <1>20, <1>21, <1>22, <1>23, <1>24, <1>25, <1>26, <1>27, <1>28
  DEF Next, Step, Supervisor, DevicePump, Close

\* The flags keep their type: a fact of its own because the solvers handle
\* Boolean-valued variables apart from the arithmetic of the invariant.
LEMMA NextFlagsOK == FlagsOK /\ [Next]_vars => FlagsOK'
<1> SUFFICES ASSUME FlagsOK, [Next]_vars PROVE FlagsOK'
  OBVIOUS
<1> USE DEF FlagsOK, closeVars
<1>1. CASE Supervisor
  BY <1>1 DEF Supervisor, Top, IdleRead, IdleReadError, ConnectFail, ConnectOK,
      ReadyAndPump, RecvErr, Teardown, JoinDone, JoinGrace, ReleaseTransport,
      SleepDone, SleepCancelled
<1>2. ASSUME NEW s \in Slots, DevicePump(s) PROVE FlagsOK'
  BY <1>2 DEF DevicePump, DevCheck, DevRead, DevReadError, DevRecheck,
      DevWrite, DevWriteClosed
<1>3. ASSUME NEW s \in Slots,
             ConnReadError(s) \/ DevRefuses(s) \/ ConnLost(s) \/ StreamAborted(s)
      PROVE  FlagsOK'
  BY <1>3 DEF ConnReadError, DevRefuses, ConnLost, StreamAborted
<1>4. CASE Close \/ ParentExpires \/ StackSends
  BY <1>4 DEF Close, CloseFlag, CloseCancel, CloseDevice, ParentExpires, StackSends
<1>5. CASE UNCHANGED vars
  BY <1>5 DEF vars, stepVars
<1> QED BY <1>1, <1>2, <1>3, <1>4, <1>5 DEF Next, Step

LEMMA SpecIInv == Spec => [](IInv /\ FlagsOK)
<1>1. Init => FlagsOK
  BY DEF Init, FlagsOK
<1> QED BY <1>1, InitIInv, NextIInv, NextFlagsOK, PTL DEF Spec

\* The transport chosen at the start is the session's for good.
LEMMA SpecTransport == Spec => [](transport \in Transports)
<1>1. Init => transport \in Transports
  BY DEF Init
<1>2. transport \in Transports /\ [Next]_vars => (transport \in Transports)'
  BY DEF Next, vars
<1> QED BY <1>1, <1>2, PTL DEF Spec

\* The supervisor, its pumps and session.close keep every variable in its
\* type: errChan's capacity and the device's backlog included.
THEOREM TypeCorrect == Spec => []TypeOK
<1>1. IInv /\ FlagsOK /\ transport \in Transports => TypeOK
  BY DEF IInv, TypeOK
<1> QED BY <1>1, SpecIInv, SpecTransport, PTL

\* Every phase of a cycle finds what it relies on: a fresh errChan and no
\* pump after the dial, live context and connection until the teardown,
\* cancelled and closed from then on (tunnel.go:310-429).
THEOREM PhasesKeepTheirPromise == Spec => []CycleInv
<1>1. IInv => CycleInv
  BY DEF IInv
<1> QED BY <1>1, SpecIInv, PTL

\* At any number of lingering pump pairs the supervisor holds at most one
\* connection and transport (tunnel.go:310-430).
THEOREM HoldsOneConnection == Spec => []OneConnection
<1>1. IInv => OneConnection
  BY DEF IInv
<1> QED BY <1>1, SpecIInv, PTL

\* A pump the grace period left behind is cancelled and its connection closed.
THEOREM StalePumpsAreHarmless == Spec => []StaleCannotForward
<1>1. IInv => StaleCannotForward
  BY DEF IInv
<1> QED BY <1>1, SpecIInv, PTL

\* The session is ready only while its supervisor sits on a live connection.
THEOREM ReadyMeansConnected == Spec => []ReadyOnlyWhileConnected
<1>1. IInv => ReadyOnlyWhileConnected
  BY DEF IInv
<1> QED BY <1>1, SpecIInv, PTL

\* No pump ever waits to send its error.
THEOREM PumpsNeverBlockOnErrChan == Spec => []ErrorsFit
<1>1. IInv => ErrorsFit
  BY DEF IInv
<1> QED BY <1>1, SpecIInv, PTL

\* Refinement: MaintainTunnel together with session.close implements the
\* abstract link of SessionLink.
THEOREM TunnelImplementsLink == Spec => ImplementsLink
<1>1. Init => Link!LinkInit
  BY DEF Init, Link!LinkInit
<1>2. IInv /\ FlagsOK /\ [Next]_vars => [Link!LinkNext]_(Link!linkVars)
  <2> SUFFICES ASSUME IInv, FlagsOK, [Next]_vars
               PROVE  Link!LinkNext \/ UNCHANGED Link!linkVars
    OBVIOUS
  <2> USE DEF Link!linkVars, Link!LinkNext, Link!Handshake, Link!LinkLost,
          Link!StopRequested, Link!ContextEnds, Link!GiveUp, closeVars
  <2>0. sup # "wait" => ready = FALSE
    BY DEF IInv, FlagsOK, ReadyOnlyWhileConnected
  <2>1. CASE Top
    BY <2>1 DEF Top
  <2>2. CASE IdleRead
    BY <2>2 DEF IdleRead
  <2>3. CASE IdleReadError
    BY <2>3 DEF IdleReadError
  <2>4. CASE ConnectFail
    BY <2>4, <2>0 DEF ConnectFail
  <2>5. ASSUME NEW s \in Slots, ConnectOK(s)
        PROVE  Link!LinkNext \/ UNCHANGED Link!linkVars
    BY <2>5 DEF ConnectOK
  <2>6. CASE ReadyAndPump
    BY <2>6 DEF ReadyAndPump
  <2>7. CASE RecvErr
    BY <2>7 DEF RecvErr
  <2>8. CASE Teardown
    BY <2>8 DEF Teardown
  <2>9. CASE JoinDone
    BY <2>9 DEF JoinDone, ReleaseTransport
  <2>10. CASE JoinGrace
    BY <2>10 DEF JoinGrace, ReleaseTransport
  <2>11. CASE SleepDone
    BY <2>11 DEF SleepDone
  <2>12. CASE SleepCancelled
    BY <2>12 DEF SleepCancelled
  <2>13. ASSUME NEW s \in Slots, DevCheck(s)
        PROVE  Link!LinkNext \/ UNCHANGED Link!linkVars
    BY <2>13 DEF DevCheck
  <2>14. ASSUME NEW s \in Slots, DevRead(s)
        PROVE  Link!LinkNext \/ UNCHANGED Link!linkVars
    BY <2>14 DEF DevRead
  <2>15. ASSUME NEW s \in Slots, DevReadError(s)
        PROVE  Link!LinkNext \/ UNCHANGED Link!linkVars
    BY <2>15 DEF DevReadError
  <2>16. ASSUME NEW s \in Slots, DevRecheck(s)
        PROVE  Link!LinkNext \/ UNCHANGED Link!linkVars
    BY <2>16 DEF DevRecheck
  <2>17. ASSUME NEW s \in Slots, DevWrite(s)
        PROVE  Link!LinkNext \/ UNCHANGED Link!linkVars
    BY <2>17 DEF DevWrite
  <2>18. ASSUME NEW s \in Slots, DevWriteClosed(s)
        PROVE  Link!LinkNext \/ UNCHANGED Link!linkVars
    BY <2>18 DEF DevWriteClosed
  <2>19. ASSUME NEW s \in Slots, ConnReadError(s)
        PROVE  Link!LinkNext \/ UNCHANGED Link!linkVars
    BY <2>19 DEF ConnReadError
  <2>20. ASSUME NEW s \in Slots, DevRefuses(s)
        PROVE  Link!LinkNext \/ UNCHANGED Link!linkVars
    BY <2>20 DEF DevRefuses
  <2>21. ASSUME NEW s \in Slots, ConnLost(s)
        PROVE  Link!LinkNext \/ UNCHANGED Link!linkVars
    BY <2>21 DEF ConnLost
  <2>22. ASSUME NEW s \in Slots, StreamAborted(s)
        PROVE  Link!LinkNext \/ UNCHANGED Link!linkVars
    BY <2>22 DEF StreamAborted, ConnLost
  <2>23. CASE CloseFlag
    BY <2>23 DEF CloseFlag
  <2>24. CASE CloseCancel
    BY <2>24 DEF CloseCancel
  <2>25. CASE CloseDevice
    BY <2>25 DEF CloseDevice
  <2>26. CASE ParentExpires
    BY <2>26 DEF ParentExpires
  <2>27. CASE StackSends
    BY <2>27 DEF StackSends
  <2>28. CASE UNCHANGED vars
    BY <2>28 DEF vars, stepVars
  <2> QED
    BY <2>1, <2>2, <2>3, <2>4, <2>5, <2>6, <2>7, <2>8, <2>9, <2>10, <2>11, <2>12, <2>13,
       <2>14, <2>15, <2>16, <2>17, <2>18, <2>19, <2>20, <2>21, <2>22, <2>23, <2>24, <2>25, <2>26, <2>27, <2>28
    DEF Next, Step, Supervisor, DevicePump, Close
<1> QED BY <1>1, <1>2, SpecIInv, PTL DEF Spec, ImplementsLink, Link!LinkSpec
=============================================================================
