------------------------ MODULE UsqueSessionsProofs ------------------------
(***************************************************************************)
(* Proofs about UsqueSessions for any number of callers, sessions and      *)
(* relays.                                                                 *)
(***************************************************************************)
EXTENDS UsqueSessions, TLAPS

\* A registered session bears its ID and is not stopped.
RegInv ==
    \A i \in Ids, s \in Sess :
        registry[i] = s => name[s] = i /\ s \notin stopped

\* The session a call created has a name.
OwnInv == \A c \in Callers : own[c] # None => name[own[c]] \in Ids

\* A session about to be registered is known to the call that made it only.
InsertInv ==
    \A c \in Callers : pc[c] = "insert" =>
        /\ own[c] # None
        /\ own[c] \notin stopped
        /\ registry[name[own[c]]] # own[c]
        /\ \A d \in Callers : ~IsClosing(d, own[c])
        /\ \A d \in Callers \ {c} : pc[d] = "insert" => own[d] # own[c]

\* A session to close has one closer and is out of the registry; how far the
\* close of the session in hand has come.
CloseInv ==
    \A c \in Callers : pc[c] \in Closing =>
        /\ hold[c] \in batch[c]
        /\ \A s \in batch[c] :
             /\ name[s] \in Ids
             /\ registry[name[s]] # s
             /\ s \notin devClosed
             /\ \A d \in Callers \ {c} : ~IsClosing(d, s)
             /\ s \in stopped <=> s = hold[c] /\ pc[c] # "flag"
        /\ pc[c] \in {"takeRelay", "closeRelay", "closeDev"} => hold[c] \in cancelled
        /\ pc[c] \in {"closeRelay", "closeDev"} => relayOf[hold[c]] = None

StoppedInv == devClosed \subseteq stopped /\ \A s \in stopped : name[s] \in Ids

\* What setHopRelay has in hand.
HopInv ==
    \A c \in Callers :
        /\ pc[c] \in {"hopBind", "hopInstall"} => hold[c] # None
        /\ pc[c] = "hopInstall" => rl[c] # None

IInv ==
    /\ TypeOK /\ RegInv /\ OwnInv /\ InsertInv /\ CloseInv /\ StoppedInv
    /\ HopInv /\ NoOrphan /\ RelayOwned /\ ClosedMeansReleased

\* The empty registry satisfies the invariant.
LEMMA InitIInv == Init => IInv
<1> SUFFICES ASSUME Init PROVE IInv
  OBVIOUS
<1> USE NamesAssumption, RelaysAssumption DEF Init, IsClosing
<1>1. TypeOK
  BY DEF TypeOK, SharedOK, CallsOK, Ids, PCs, Closing
<1>2. RegInv /\ OwnInv /\ InsertInv /\ CloseInv /\ StoppedInv /\ HopInv
  BY DEF RegInv, OwnInv, InsertInv, CloseInv, StoppedInv, HopInv, Ids, Closing
<1>3. NoOrphan /\ RelayOwned /\ ClosedMeansReleased
  BY DEF NoOrphan, RelayOwned, ClosedMeansReleased
<1> QED BY <1>1, <1>2, <1>3 DEF IInv

-----------------------------------------------------------------------------
(* Types.                                                                  *)

LEMMA ReturnOK == ASSUME CallsOK, NEW c \in Callers, Return(c) PROVE CallsOK'
  BY DEF CallsOK, Return, Ops, PCs

LEMMA TakeOK ==
  ASSUME TypeOK, NEW c \in Callers, NEW ss \in SUBSET Sess, Take(c, ss)
  PROVE  /\ registry' \in [Ids -> Sess \cup {None}]
         /\ pc' \in [Callers -> PCs]
         /\ hold' \in [Callers -> Sess \cup {None}]
         /\ batch' \in [Callers -> SUBSET Sess]
  BY DEF TypeOK, SharedOK, CallsOK, Take, Goto, PCs, Closing

LEMMA HopErrorOK == ASSUME CallsOK, NEW c \in Callers, HopError(c) PROVE CallsOK'
<1>1. CASE Return(c)
  BY <1>1, ReturnOK
<1>2. CASE ~Return(c)
  BY <1>2 DEF CallsOK, HopError, Goto, PCs
<1> QED BY <1>1, <1>2

LEMMA NextOfBatchOK ==
  ASSUME CallsOK, NEW c \in Callers, NextOfBatch(c) PROVE CallsOK'
<1>1. CASE Return(c)
  BY <1>1, ReturnOK
<1>2. CASE ~Return(c)
  BY <1>2 DEF CallsOK, NextOfBatch, Goto, PCs, Closing
<1> QED BY <1>1, <1>2

LEMMA TypeStep == IInv /\ [Next]_vars => TypeOK'
<1> SUFFICES ASSUME IInv, [Next]_vars PROVE TypeOK'
  OBVIOUS
<1>0. /\ TypeOK /\ SharedOK /\ CallsOK
      /\ OwnInv /\ InsertInv /\ HopInv /\ CloseInv
  BY DEF IInv, TypeOK
<1> USE NamesAssumption, RelaysAssumption DEF At, Target, sessVars, callVars
<1>1. ASSUME NEW c \in Callers, NEW o \in Starting, NEW s \in Sess, Create(c, o, s) PROVE TypeOK'
  BY <1>0, <1>1
  DEF Create, TypeOK, SharedOK, CallsOK, OwnInv, InsertInv, HopInv, CloseInv,
      Ids, PCs, Closing, Ops, Starting, Waiting, Goto
<1>2. ASSUME NEW c \in Callers, InsertExists(c) PROVE TypeOK'
  BY <1>0, <1>2
  DEF InsertExists, TypeOK, SharedOK, CallsOK, OwnInv, InsertInv, HopInv,
      CloseInv, Ids, PCs, Closing, Ops, Starting, Waiting, Goto
<1>3. ASSUME NEW c \in Callers, InsertReturns(c) PROVE TypeOK'
  <2>1. CallsOK'
    BY <1>0, <1>3, ReturnOK DEF InsertReturns
  <2>2. SharedOK'
    BY <1>0, <1>3 DEF InsertReturns, Register, OwnInv, InsertInv, Ids, SharedOK, CallsOK
  <2> QED BY <2>1, <2>2 DEF TypeOK
<1>4. ASSUME NEW c \in Callers, InsertWaits(c) PROVE TypeOK'
  BY <1>0, <1>4
  DEF InsertWaits, Register, TypeOK, SharedOK, CallsOK, OwnInv, InsertInv,
      HopInv, CloseInv, Ids, PCs, Closing, Ops, Starting, Waiting, Goto
<1>5. ASSUME NEW c \in Callers, WaitReady(c) PROVE TypeOK'
  BY <1>0, <1>5
  DEF WaitReady, TypeOK, SharedOK, CallsOK, OwnInv, InsertInv, HopInv,
      CloseInv, Ids, PCs, Closing, Ops, Starting, Waiting, Goto
<1>6. ASSUME NEW c \in Callers, WaitFails(c) PROVE TypeOK'
  BY <1>0, <1>6
  DEF WaitFails, TypeOK, SharedOK, CallsOK, OwnInv, InsertInv, HopInv,
      CloseInv, Ids, PCs, Closing, Ops, Starting, Waiting, Goto
<1>7. ASSUME NEW c \in Callers, ProbeDeadline(c) PROVE TypeOK'
  BY <1>0, <1>7
  DEF ProbeDeadline, TypeOK, SharedOK, CallsOK, OwnInv, InsertInv, HopInv,
      CloseInv, Ids, PCs, Closing, Ops, Starting, Waiting, Goto
<1>8. ASSUME NEW c \in Callers, LookReturns(c) PROVE TypeOK'
  <2>1. CallsOK'
    BY <1>0, <1>8, ReturnOK DEF LookReturns
  <2>2. SharedOK'
    BY <1>0, <1>8 DEF LookReturns, SharedOK, CallsOK
  <2> QED BY <2>1, <2>2 DEF TypeOK
<1>9. ASSUME NEW c \in Callers, LookGoesOn(c) PROVE TypeOK'
  BY <1>0, <1>9
  DEF LookGoesOn, TypeOK, SharedOK, CallsOK, OwnInv, InsertInv, HopInv,
      CloseInv, Ids, PCs, Closing, Ops, Starting, Waiting, Goto
<1>10. ASSUME NEW c \in Callers, ProbeDone(c) PROVE TypeOK'
  BY <1>0, <1>10
  DEF ProbeDone, TypeOK, SharedOK, CallsOK, OwnInv, InsertInv, HopInv,
      CloseInv, Ids, PCs, Closing, Ops, Starting, Waiting, Goto
<1>11. ASSUME NEW c \in Callers, StatusReturns(c) PROVE TypeOK'
  <2>1. CallsOK'
    BY <1>0, <1>11, ReturnOK DEF StatusReturns
  <2>2. SharedOK'
    BY <1>0, <1>11 DEF StatusReturns, SharedOK, CallsOK
  <2> QED BY <2>1, <2>2 DEF TypeOK
<1>12. ASSUME NEW c \in Callers, BeginSetHopRelay(c) PROVE TypeOK'
  BY <1>0, <1>12
  DEF BeginSetHopRelay, TypeOK, SharedOK, CallsOK, OwnInv, InsertInv, HopInv,
      CloseInv, Ids, PCs, Closing, Ops, Starting, Waiting, Goto
<1>13. ASSUME NEW c \in Callers, HopLookFails(c) PROVE TypeOK'
  <2>1. CallsOK'
    BY <1>0, <1>13, HopErrorOK DEF HopLookFails
  <2>2. SharedOK'
    BY <1>0, <1>13 DEF HopLookFails, SharedOK, CallsOK
  <2> QED BY <2>1, <2>2 DEF TypeOK
<1>14. ASSUME NEW c \in Callers, HopLook(c) PROVE TypeOK'
  BY <1>0, <1>14
  DEF HopLook, TypeOK, SharedOK, CallsOK, OwnInv, InsertInv, HopInv, CloseInv,
      Ids, PCs, Closing, Ops, Starting, Waiting, Goto
<1>15. ASSUME NEW c \in Callers, HopBindFails(c) PROVE TypeOK'
  <2>1. CallsOK'
    BY <1>0, <1>15, HopErrorOK DEF HopBindFails
  <2>2. SharedOK'
    BY <1>0, <1>15 DEF HopBindFails, SharedOK, CallsOK
  <2> QED BY <2>1, <2>2 DEF TypeOK
<1>16. ASSUME NEW c \in Callers, NEW r \in Relays, HopBind(c, r) PROVE TypeOK'
  BY <1>0, <1>16
  DEF HopBind, TypeOK, SharedOK, CallsOK, OwnInv, InsertInv, HopInv, CloseInv,
      Ids, PCs, Closing, Ops, Starting, Waiting, Goto
<1>17. ASSUME NEW c \in Callers, HopInstallStopped(c) PROVE TypeOK'
  <2>1. CallsOK'
    BY <1>0, <1>17, HopErrorOK DEF HopInstallStopped
  <2>2. SharedOK'
    BY <1>0, <1>17 DEF HopInstallStopped, SharedOK, CallsOK
  <2> QED BY <2>1, <2>2 DEF TypeOK
<1>18. ASSUME NEW c \in Callers, HopInstall(c) PROVE TypeOK'
  BY <1>0, <1>18
  DEF HopInstall, TypeOK, SharedOK, CallsOK, OwnInv, InsertInv, HopInv,
      CloseInv, Ids, PCs, Closing, Ops, Starting, Waiting, Goto
<1>19. ASSUME NEW c \in Callers, HopOld(c) PROVE TypeOK'
  <2>1. SharedOK'
    BY <1>0, <1>19 DEF HopOld, SharedOK
  <2>2. CASE Return(c)
    BY <1>0, <2>1, <2>2, ReturnOK DEF TypeOK
  <2>3. CASE ~Return(c)
    BY <1>0, <1>19, <2>1, <2>3 DEF HopOld, TypeOK, CallsOK, Goto, PCs
  <2> QED BY <2>2, <2>3
<1>20. ASSUME NEW c \in Callers, BeginInvokeStop(c) PROVE TypeOK'
  BY <1>0, <1>20
  DEF BeginInvokeStop, TypeOK, SharedOK, CallsOK, OwnInv, InsertInv, HopInv,
      CloseInv, Ids, PCs, Closing, Ops, Starting, Waiting, Goto
<1>21. ASSUME NEW c \in Callers, ExistsNot(c) PROVE TypeOK'
  <2>1. CallsOK'
    BY <1>0, <1>21, ReturnOK DEF ExistsNot
  <2>2. SharedOK'
    BY <1>0, <1>21 DEF ExistsNot, SharedOK, CallsOK
  <2> QED BY <2>1, <2>2 DEF TypeOK
<1>22. ASSUME NEW c \in Callers, ExistsYes(c) PROVE TypeOK'
  BY <1>0, <1>22
  DEF ExistsYes, TypeOK, SharedOK, CallsOK, OwnInv, InsertInv, HopInv,
      CloseInv, Ids, PCs, Closing, Ops, Starting, Waiting, Goto
<1>23. ASSUME NEW c \in Callers, StopUnknown(c) PROVE TypeOK'
  <2>1. CallsOK'
    BY <1>0, <1>23, ReturnOK DEF StopUnknown
  <2>2. SharedOK'
    BY <1>0, <1>23 DEF StopUnknown, SharedOK, CallsOK
  <2> QED BY <2>1, <2>2 DEF TypeOK
<1>24. ASSUME NEW c \in Callers, StopKnown(c) PROVE TypeOK'
  <2> DEFINE ss == {registry[Target(c)]}
  <2>1. ss \in SUBSET Sess /\ Take(c, ss)
    BY <1>0, <1>24 DEF StopKnown, TypeOK, SharedOK, CallsOK, OwnInv, Ids
  <2>2. /\ registry' \in [Ids -> Sess \cup {None}]
        /\ pc' \in [Callers -> PCs]
        /\ hold' \in [Callers -> Sess \cup {None}]
        /\ batch' \in [Callers -> SUBSET Sess]
    <3> HIDE DEF ss
    <3> QED BY <1>0, <2>1, TakeOK
  <2>3. asked' \in SUBSET Sess
    BY <1>0, <1>24, <2>1 DEF StopKnown, TypeOK, SharedOK
  <2> QED BY <1>0, <1>24, <2>2, <2>3 DEF StopKnown, TypeOK, SharedOK, CallsOK, Ops, Starting
<1>25. ASSUME NEW c \in Callers, NEW id \in Ids, PRUsqueStop(c, id) PROVE TypeOK'
  <2> DEFINE ss == {registry[id]}
  <2>1. ss \in SUBSET Sess /\ Take(c, ss)
    BY <1>0, <1>25 DEF PRUsqueStop, TypeOK, SharedOK, CallsOK, OwnInv, Ids
  <2>2. /\ registry' \in [Ids -> Sess \cup {None}]
        /\ pc' \in [Callers -> PCs]
        /\ hold' \in [Callers -> Sess \cup {None}]
        /\ batch' \in [Callers -> SUBSET Sess]
    <3> HIDE DEF ss
    <3> QED BY <1>0, <2>1, TakeOK
  <2> QED BY <1>0, <1>25, <2>2 DEF PRUsqueStop, TypeOK, SharedOK, CallsOK, Ops, Starting
<1>26. ASSUME NEW c \in Callers, PRUsqueStopAll(c) PROVE TypeOK'
  <2> DEFINE ss == ({registry[i] : i \in Ids} \ {None})
  <2>1. ss \in SUBSET Sess /\ Take(c, ss)
    BY <1>0, <1>26 DEF PRUsqueStopAll, TypeOK, SharedOK, CallsOK, OwnInv, Ids
  <2>2. /\ registry' \in [Ids -> Sess \cup {None}]
        /\ pc' \in [Callers -> PCs]
        /\ hold' \in [Callers -> Sess \cup {None}]
        /\ batch' \in [Callers -> SUBSET Sess]
    <3> HIDE DEF ss
    <3> QED BY <1>0, <2>1, TakeOK
  <2>3. asked' \in SUBSET Sess
    BY <1>0, <1>26, <2>1 DEF PRUsqueStopAll, TypeOK, SharedOK
  <2> QED BY <1>0, <1>26, <2>2, <2>3 DEF PRUsqueStopAll, TypeOK, SharedOK, CallsOK, Ops, Starting
<1>27. ASSUME NEW c \in Callers, AbortProbes(c) PROVE TypeOK'
  <2> DEFINE ss == ({registry[i] : i \in Ids} \cap probes)
  <2>1. ss \in SUBSET Sess /\ Take(c, ss)
    BY <1>0, <1>27 DEF AbortProbes, TypeOK, SharedOK, CallsOK, OwnInv, Ids
  <2>2. /\ registry' \in [Ids -> Sess \cup {None}]
        /\ pc' \in [Callers -> PCs]
        /\ hold' \in [Callers -> Sess \cup {None}]
        /\ batch' \in [Callers -> SUBSET Sess]
    <3> HIDE DEF ss
    <3> QED BY <1>0, <2>1, TakeOK
  <2> QED BY <1>0, <1>27, <2>2 DEF AbortProbes, TypeOK, SharedOK, CallsOK, Ops, Starting
<1>28. ASSUME NEW c \in Callers, CloseFlag(c) PROVE TypeOK'
  <2>1. CASE hold[c] \in stopped
    BY <1>0, <1>28, <2>1, NextOfBatchOK DEF CloseFlag, TypeOK, SharedOK
  <2>2. CASE hold[c] \notin stopped
    BY <1>0, <1>28, <2>2
    DEF CloseFlag, CloseInv, TypeOK, SharedOK, CallsOK, PCs, Closing, Goto
  <2> QED BY <2>1, <2>2
<1>29. ASSUME NEW c \in Callers, CloseCancel(c) PROVE TypeOK'
  BY <1>0, <1>29
  DEF CloseCancel, TypeOK, SharedOK, CallsOK, OwnInv, InsertInv, HopInv,
      CloseInv, Ids, PCs, Closing, Ops, Starting, Waiting, Goto
<1>30. ASSUME NEW c \in Callers, CloseTakeRelay(c) PROVE TypeOK'
  BY <1>0, <1>30
  DEF CloseTakeRelay, TypeOK, SharedOK, CallsOK, OwnInv, InsertInv, HopInv,
      CloseInv, Ids, PCs, Closing, Ops, Starting, Waiting, Goto
<1>31. ASSUME NEW c \in Callers, CloseRelay(c) PROVE TypeOK'
  BY <1>0, <1>31
  DEF CloseRelay, TypeOK, SharedOK, CallsOK, OwnInv, InsertInv, HopInv,
      CloseInv, Ids, PCs, Closing, Ops, Starting, Waiting, Goto
<1>32. ASSUME NEW c \in Callers, CloseDev(c) PROVE TypeOK'
  <2>1. CallsOK'
    BY <1>0, <1>32, NextOfBatchOK DEF CloseDev
  <2>2. SharedOK'
    BY <1>0, <1>32 DEF CloseDev, CloseInv, Closing, SharedOK, CallsOK
  <2> QED BY <2>1, <2>2 DEF TypeOK
<1>33. ASSUME NEW s \in Sess, LinkUp(s) PROVE TypeOK'
  BY <1>0, <1>33
  DEF LinkUp, TypeOK, SharedOK, CallsOK, OwnInv, InsertInv, HopInv, CloseInv,
      Ids, PCs, Closing, Ops, Starting, Waiting, Goto
<1>34. ASSUME NEW s \in Sess, LinkLost(s) PROVE TypeOK'
  BY <1>0, <1>34
  DEF LinkLost, TypeOK, SharedOK, CallsOK, OwnInv, InsertInv, HopInv,
      CloseInv, Ids, PCs, Closing, Ops, Starting, Waiting, Goto
<1>35. ASSUME NEW s \in Sess, LinkGivesUp(s) PROVE TypeOK'
  BY <1>0, <1>35
  DEF LinkGivesUp, TypeOK, SharedOK, CallsOK, OwnInv, InsertInv, HopInv,
      CloseInv, Ids, PCs, Closing, Ops, Starting, Waiting, Goto
<1>36. CASE UNCHANGED vars
  BY <1>0, <1>36 DEF vars, TypeOK, SharedOK, CallsOK
<1> QED
  BY <1>1, <1>2, <1>3, <1>4, <1>5, <1>6, <1>7, <1>8, <1>9, <1>10, <1>11,
     <1>12, <1>13, <1>14, <1>15, <1>16, <1>17, <1>18, <1>19, <1>20, <1>21,
     <1>22, <1>23, <1>24, <1>25, <1>26, <1>27, <1>28, <1>29, <1>30, <1>31,
     <1>32, <1>33, <1>34, <1>35, <1>36
  DEF Next, Begin, Continue, Tunnel

-----------------------------------------------------------------------------
(* Steps. Those of one frame share a lemma.                                *)

\* Only the locals of c change.
OthersKeep(c) ==
    \A d \in Callers \ {c} :
        /\ pc'[d] = pc[d] /\ own'[d] = own[d] /\ hold'[d] = hold[d]
        /\ batch'[d] = batch[d] /\ rl'[d] = rl[d]

\* Positions at which a call has nothing in hand that others depend on.
Quiet == PCs \ (Closing \cup {"insert", "hopInstall", "hopOld"})

\* A call moves between quiet positions and changes no session.
LEMMA LocalStep ==
  ASSUME IInv, TypeOK', NEW c \in Callers, OthersKeep(c),
         UNCHANGED <<registry, name, probes, sessVars>>,
         pc[c] \in Quiet, pc'[c] \in Quiet, own'[c] \in {own[c], None},
         pc'[c] = "hopBind" => hold'[c] # None
  PROVE  IInv'
<1>0. /\ TypeOK /\ RegInv /\ OwnInv /\ InsertInv /\ CloseInv /\ StoppedInv
      /\ HopInv /\ NoOrphan /\ RelayOwned /\ ClosedMeansReleased
  BY DEF IInv
<1> USE <1>0, NamesAssumption, RelaysAssumption
    DEF TypeOK, SharedOK, CallsOK, Ids, PCs, Closing, IsClosing, OthersKeep,
        Quiet, sessVars
<1>1. RegInv'
  BY DEF RegInv, OwnInv, InsertInv, CloseInv
<1>2. OwnInv'
  BY DEF OwnInv
<1>3. InsertInv'
  BY DEF RegInv, OwnInv, InsertInv, CloseInv
<1>4. CloseInv'
  BY DEF RegInv, OwnInv, InsertInv, CloseInv, StoppedInv
<1>5. StoppedInv'
  BY DEF StoppedInv, CloseInv
<1>6. HopInv'
  BY DEF HopInv
<1>7. NoOrphan'
  BY DEF NoOrphan, RegInv, OwnInv, InsertInv, CloseInv
<1>8. RelayOwned'
  BY DEF RelayOwned, HopInv, CloseInv
<1>9. ClosedMeansReleased'
  BY DEF ClosedMeansReleased, CloseInv, StoppedInv
<1> QED
  BY <1>1, <1>2, <1>3, <1>4, <1>5, <1>6, <1>7, <1>8, <1>9 DEF IInv

\* Registered sessions leave the registry for c to close.
LEMMA TakeStep ==
  ASSUME IInv, TypeOK', NEW c \in Callers, OthersKeep(c), NEW ss \in SUBSET Sess,
         \A s \in ss : \E i \in Ids : registry[i] = s,
         registry' = [i \in Ids |-> IF registry[i] \in ss THEN None ELSE registry[i]],
         UNCHANGED <<name, probes, sessVars>>,
         pc[c] \in Quiet, pc'[c] = "flag", own'[c] = own[c],
         batch'[c] = ss, hold'[c] \in ss
  PROVE  IInv'
<1>0. /\ TypeOK /\ RegInv /\ OwnInv /\ InsertInv /\ CloseInv /\ StoppedInv
      /\ HopInv /\ NoOrphan /\ RelayOwned /\ ClosedMeansReleased
  BY DEF IInv
<1> USE <1>0, NamesAssumption, RelaysAssumption
    DEF TypeOK, SharedOK, CallsOK, Ids, PCs, Closing, IsClosing, OthersKeep,
        Quiet, sessVars
<1>1. RegInv'
  BY DEF RegInv, OwnInv, InsertInv, CloseInv
<1>2. OwnInv'
  BY DEF OwnInv
<1>3. InsertInv'
  BY DEF RegInv, OwnInv, InsertInv, CloseInv
<1>4. CloseInv'
  <2>1. \A s \in ss : /\ name[s] \in Ids /\ registry[name[s]] = s
                      /\ s \notin stopped /\ s \notin devClosed
                      /\ \A d \in Callers : ~IsClosing(d, s)
    BY DEF RegInv, CloseInv, StoppedInv
  <2>2. \A d \in Callers \ {c} : pc'[d] = pc[d] /\ hold'[d] = hold[d] /\ batch'[d] = batch[d]
    OBVIOUS
  <2>3. CloseInv!(c)'
    BY <2>1, <2>2 DEF CloseInv
  <2>4. ASSUME NEW d \in Callers \ {c} PROVE CloseInv!(d)'
    BY <2>1, <2>2 DEF CloseInv
  <2> QED BY <2>3, <2>4 DEF CloseInv
<1>5. StoppedInv'
  BY DEF StoppedInv, CloseInv
<1>6. HopInv'
  BY DEF HopInv
<1>7. NoOrphan'
  BY DEF NoOrphan, RegInv, OwnInv, InsertInv, CloseInv
<1>8. RelayOwned'
  <2> SUFFICES ASSUME NEW r \in relays PROVE RelayOwned!(r)'
    BY DEF RelayOwned
  <2> QED BY SMTT(30) DEF RelayOwned
<1>9. ClosedMeansReleased'
  BY DEF ClosedMeansReleased, CloseInv, StoppedInv
<1> QED
  BY <1>1, <1>2, <1>3, <1>4, <1>5, <1>6, <1>7, <1>8, <1>9 DEF IInv

\* The tunnel, and the deadline of a probe, touch neither the registry nor
\* what calls have in hand.
LEMMA FlagStep ==
  ASSUME IInv, TypeOK', cancelled \subseteq cancelled',
         UNCHANGED <<registry, name, probes, stopped, devClosed, relayOf, relays, callVars>>
  PROVE  IInv'
<1>0. /\ TypeOK /\ RegInv /\ OwnInv /\ InsertInv /\ CloseInv /\ StoppedInv
      /\ HopInv /\ NoOrphan /\ RelayOwned /\ ClosedMeansReleased
  BY DEF IInv
<1> USE <1>0, NamesAssumption, RelaysAssumption
    DEF TypeOK, SharedOK, CallsOK, Ids, PCs, Closing, IsClosing, callVars
<1>1. RegInv'
  BY DEF RegInv, OwnInv, InsertInv, CloseInv
<1>2. OwnInv'
  BY DEF OwnInv
<1>3. InsertInv'
  BY DEF RegInv, OwnInv, InsertInv, CloseInv
<1>4. CloseInv'
  BY DEF RegInv, OwnInv, InsertInv, CloseInv, StoppedInv
<1>5. StoppedInv'
  BY DEF StoppedInv, CloseInv
<1>6. HopInv'
  BY DEF HopInv
<1>7. NoOrphan'
  BY DEF NoOrphan, RegInv, OwnInv, InsertInv, CloseInv
<1>8. RelayOwned'
  BY DEF RelayOwned, HopInv, CloseInv
<1>9. ClosedMeansReleased'
  BY DEF ClosedMeansReleased, CloseInv, StoppedInv
<1> QED
  BY <1>1, <1>2, <1>3, <1>4, <1>5, <1>6, <1>7, <1>8, <1>9 DEF IInv

LEMMA StepCreate ==
  ASSUME IInv, TypeOK', NEW c \in Callers, NEW o \in Starting, NEW s \in Sess, Create(c, o, s)
  PROVE  IInv'
<1>0. /\ TypeOK /\ RegInv /\ OwnInv /\ InsertInv /\ CloseInv /\ StoppedInv
      /\ HopInv /\ NoOrphan /\ RelayOwned /\ ClosedMeansReleased
  BY DEF IInv
<1> USE <1>0, NamesAssumption, RelaysAssumption
    DEF TypeOK, SharedOK, CallsOK, Ids, PCs, Closing, IsClosing, At, Goto,
        Starting, Waiting, Create, sessVars, callVars
<1>1. RegInv'
  BY DEF RegInv, OwnInv, InsertInv, CloseInv
<1>2. OwnInv'
  BY DEF OwnInv
<1>3. InsertInv'
  BY DEF RegInv, OwnInv, InsertInv, CloseInv, StoppedInv
<1>4. CloseInv'
  BY DEF RegInv, OwnInv, InsertInv, CloseInv, StoppedInv
<1>5. StoppedInv'
  BY DEF StoppedInv, CloseInv
<1>6. HopInv'
  BY DEF HopInv
<1>7. NoOrphan'
  BY DEF NoOrphan, RegInv, OwnInv, InsertInv, CloseInv
<1>8. RelayOwned'
  BY DEF RelayOwned, HopInv, CloseInv
<1>9. ClosedMeansReleased'
  BY DEF ClosedMeansReleased, CloseInv, StoppedInv
<1> QED
  BY <1>1, <1>2, <1>3, <1>4, <1>5, <1>6, <1>7, <1>8, <1>9 DEF IInv

LEMMA StepInsertExists ==
  ASSUME IInv, TypeOK', NEW c \in Callers, InsertExists(c)
  PROVE  IInv'
<1>0. /\ TypeOK /\ RegInv /\ OwnInv /\ InsertInv /\ CloseInv /\ StoppedInv
      /\ HopInv /\ NoOrphan /\ RelayOwned /\ ClosedMeansReleased
  BY DEF IInv
<1> USE <1>0, NamesAssumption, RelaysAssumption
    DEF TypeOK, SharedOK, CallsOK, Ids, PCs, Closing, IsClosing, At, Goto,
        Starting, Waiting, InsertExists, sessVars, callVars
<1>1. RegInv'
  BY DEF RegInv, OwnInv, InsertInv, CloseInv
<1>2. OwnInv'
  BY DEF OwnInv
<1>3. InsertInv'
  BY DEF RegInv, OwnInv, InsertInv, CloseInv
<1>4. CloseInv'
  BY DEF RegInv, OwnInv, InsertInv, CloseInv, StoppedInv
<1>5. StoppedInv'
  BY DEF StoppedInv, CloseInv
<1>6. HopInv'
  BY DEF HopInv
<1>7. NoOrphan'
  BY DEF NoOrphan, RegInv, OwnInv, InsertInv, CloseInv
<1>8. RelayOwned'
  BY DEF RelayOwned, HopInv, CloseInv
<1>9. ClosedMeansReleased'
  BY DEF ClosedMeansReleased, CloseInv, StoppedInv
<1> QED
  BY <1>1, <1>2, <1>3, <1>4, <1>5, <1>6, <1>7, <1>8, <1>9 DEF IInv

LEMMA StepInsertReturns ==
  ASSUME IInv, TypeOK', NEW c \in Callers, InsertReturns(c)
  PROVE  IInv'
<1>0. /\ TypeOK /\ RegInv /\ OwnInv /\ InsertInv /\ CloseInv /\ StoppedInv
      /\ HopInv /\ NoOrphan /\ RelayOwned /\ ClosedMeansReleased
  BY DEF IInv
<1> USE <1>0, NamesAssumption, RelaysAssumption
    DEF TypeOK, SharedOK, CallsOK, Ids, PCs, Closing, IsClosing, At, Goto,
        Starting, Waiting, InsertReturns, Register, Return, sessVars, callVars
<1>1. RegInv'
  BY DEF RegInv, OwnInv, InsertInv, CloseInv
<1>2. OwnInv'
  BY DEF OwnInv
<1>3. InsertInv'
  BY DEF RegInv, OwnInv, InsertInv, CloseInv
<1>4. CloseInv'
  BY DEF RegInv, OwnInv, InsertInv, CloseInv, StoppedInv
<1>5. StoppedInv'
  BY DEF StoppedInv, CloseInv
<1>6. HopInv'
  BY DEF HopInv
<1>7. NoOrphan'
  BY DEF NoOrphan, RegInv, OwnInv, InsertInv, CloseInv
<1>8. RelayOwned'
  BY DEF RelayOwned, HopInv, CloseInv
<1>9. ClosedMeansReleased'
  BY DEF ClosedMeansReleased, CloseInv, StoppedInv
<1> QED
  BY <1>1, <1>2, <1>3, <1>4, <1>5, <1>6, <1>7, <1>8, <1>9 DEF IInv

LEMMA StepInsertWaits ==
  ASSUME IInv, TypeOK', NEW c \in Callers, InsertWaits(c)
  PROVE  IInv'
<1>0. /\ TypeOK /\ RegInv /\ OwnInv /\ InsertInv /\ CloseInv /\ StoppedInv
      /\ HopInv /\ NoOrphan /\ RelayOwned /\ ClosedMeansReleased
  BY DEF IInv
<1> USE <1>0, NamesAssumption, RelaysAssumption
    DEF TypeOK, SharedOK, CallsOK, Ids, PCs, Closing, IsClosing, At, Goto,
        Starting, Waiting, InsertWaits, Register, sessVars, callVars
<1>1. RegInv'
  BY DEF RegInv, OwnInv, InsertInv, CloseInv
<1>2. OwnInv'
  BY DEF OwnInv
<1>3. InsertInv'
  BY DEF RegInv, OwnInv, InsertInv, CloseInv
<1>4. CloseInv'
  BY DEF RegInv, OwnInv, InsertInv, CloseInv, StoppedInv
<1>5. StoppedInv'
  BY DEF StoppedInv, CloseInv
<1>6. HopInv'
  BY DEF HopInv
<1>7. NoOrphan'
  BY DEF NoOrphan, RegInv, OwnInv, InsertInv, CloseInv
<1>8. RelayOwned'
  BY DEF RelayOwned, HopInv, CloseInv
<1>9. ClosedMeansReleased'
  BY DEF ClosedMeansReleased, CloseInv, StoppedInv
<1> QED
  BY <1>1, <1>2, <1>3, <1>4, <1>5, <1>6, <1>7, <1>8, <1>9 DEF IInv

LEMMA StepHopBind ==
  ASSUME IInv, TypeOK', NEW c \in Callers, NEW r \in Relays, HopBind(c, r)
  PROVE  IInv'
<1>0. /\ TypeOK /\ RegInv /\ OwnInv /\ InsertInv /\ CloseInv /\ StoppedInv
      /\ HopInv /\ NoOrphan /\ RelayOwned /\ ClosedMeansReleased
  BY DEF IInv
<1> USE <1>0, NamesAssumption, RelaysAssumption
    DEF TypeOK, SharedOK, CallsOK, Ids, PCs, Closing, IsClosing, At, Goto,
        Starting, Waiting, HopBind, sessVars, callVars
<1>1. RegInv'
  BY DEF RegInv, OwnInv, InsertInv, CloseInv
<1>2. OwnInv'
  BY DEF OwnInv
<1>3. InsertInv'
  BY DEF RegInv, OwnInv, InsertInv, CloseInv
<1>4. CloseInv'
  BY DEF RegInv, OwnInv, InsertInv, CloseInv, StoppedInv
<1>5. StoppedInv'
  BY DEF StoppedInv, CloseInv
<1>6. HopInv'
  BY DEF HopInv
<1>7. NoOrphan'
  BY DEF NoOrphan, RegInv, OwnInv, InsertInv, CloseInv
<1>8. RelayOwned'
  BY DEF RelayOwned, HopInv, CloseInv
<1>9. ClosedMeansReleased'
  BY DEF ClosedMeansReleased, CloseInv, StoppedInv
<1> QED
  BY <1>1, <1>2, <1>3, <1>4, <1>5, <1>6, <1>7, <1>8, <1>9 DEF IInv

LEMMA StepHopInstallStopped ==
  ASSUME IInv, TypeOK', NEW c \in Callers, HopInstallStopped(c)
  PROVE  IInv'
<1>0. /\ TypeOK /\ RegInv /\ OwnInv /\ InsertInv /\ CloseInv /\ StoppedInv
      /\ HopInv /\ NoOrphan /\ RelayOwned /\ ClosedMeansReleased
  BY DEF IInv
<1> USE <1>0, NamesAssumption, RelaysAssumption
    DEF TypeOK, SharedOK, CallsOK, Ids, PCs, Closing, IsClosing, At, Goto,
        Starting, Waiting, HopInstallStopped, HopError, Return, sessVars,
        callVars
<1>1. RegInv'
  BY DEF RegInv, OwnInv, InsertInv, CloseInv
<1>2. OwnInv'
  BY DEF OwnInv
<1>3. InsertInv'
  BY DEF RegInv, OwnInv, InsertInv, CloseInv
<1>4. CloseInv'
  BY DEF RegInv, OwnInv, InsertInv, CloseInv, StoppedInv
<1>5. StoppedInv'
  BY DEF StoppedInv, CloseInv
<1>6. HopInv'
  BY DEF HopInv
<1>7. NoOrphan'
  BY DEF NoOrphan, RegInv, OwnInv, InsertInv, CloseInv
<1>8. RelayOwned'
  BY DEF RelayOwned, HopInv, CloseInv
<1>9. ClosedMeansReleased'
  BY DEF ClosedMeansReleased, CloseInv, StoppedInv
<1> QED
  BY <1>1, <1>2, <1>3, <1>4, <1>5, <1>6, <1>7, <1>8, <1>9 DEF IInv

LEMMA StepHopInstall ==
  ASSUME IInv, TypeOK', NEW c \in Callers, HopInstall(c)
  PROVE  IInv'
<1>0. /\ TypeOK /\ RegInv /\ OwnInv /\ InsertInv /\ CloseInv /\ StoppedInv
      /\ HopInv /\ NoOrphan /\ RelayOwned /\ ClosedMeansReleased
  BY DEF IInv
<1> USE <1>0, NamesAssumption, RelaysAssumption
    DEF TypeOK, SharedOK, CallsOK, Ids, PCs, Closing, IsClosing, At, Goto,
        Starting, Waiting, HopInstall, sessVars, callVars
<1>1. RegInv'
  BY DEF RegInv, OwnInv, InsertInv, CloseInv
<1>2. OwnInv'
  BY DEF OwnInv
<1>3. InsertInv'
  BY DEF RegInv, OwnInv, InsertInv, CloseInv
<1>4. CloseInv'
  BY DEF RegInv, OwnInv, InsertInv, CloseInv, StoppedInv
<1>5. StoppedInv'
  BY DEF StoppedInv, CloseInv
<1>6. HopInv'
  BY DEF HopInv
<1>7. NoOrphan'
  BY DEF NoOrphan, RegInv, OwnInv, InsertInv, CloseInv
<1>8. RelayOwned'
  BY DEF RelayOwned, HopInv, CloseInv
<1>9. ClosedMeansReleased'
  BY DEF ClosedMeansReleased, CloseInv, StoppedInv
<1> QED
  BY <1>1, <1>2, <1>3, <1>4, <1>5, <1>6, <1>7, <1>8, <1>9 DEF IInv

LEMMA StepHopOld ==
  ASSUME IInv, TypeOK', NEW c \in Callers, HopOld(c)
  PROVE  IInv'
<1>0. /\ TypeOK /\ RegInv /\ OwnInv /\ InsertInv /\ CloseInv /\ StoppedInv
      /\ HopInv /\ NoOrphan /\ RelayOwned /\ ClosedMeansReleased
  BY DEF IInv
<1> USE <1>0, NamesAssumption, RelaysAssumption
    DEF TypeOK, SharedOK, CallsOK, Ids, PCs, Closing, IsClosing, At, Goto,
        Starting, Waiting, HopOld, Return, sessVars, callVars
<1>1. RegInv'
  BY DEF RegInv, OwnInv, InsertInv, CloseInv
<1>2. OwnInv'
  BY DEF OwnInv
<1>3. InsertInv'
  BY SMTT(30) DEF InsertInv
<1>4. CloseInv'
  BY DEF RegInv, OwnInv, InsertInv, CloseInv, StoppedInv
<1>5. StoppedInv'
  BY DEF StoppedInv, CloseInv
<1>6. HopInv'
  BY DEF HopInv
<1>7. NoOrphan'
  BY DEF NoOrphan, RegInv, OwnInv, InsertInv, CloseInv
<1>8. RelayOwned'
  BY DEF RelayOwned, HopInv, CloseInv
<1>9. ClosedMeansReleased'
  BY DEF ClosedMeansReleased, CloseInv, StoppedInv
<1> QED
  BY <1>1, <1>2, <1>3, <1>4, <1>5, <1>6, <1>7, <1>8, <1>9 DEF IInv

LEMMA StepCloseFlag ==
  ASSUME IInv, TypeOK', NEW c \in Callers, CloseFlag(c)
  PROVE  IInv'
<1>0. /\ TypeOK /\ RegInv /\ OwnInv /\ InsertInv /\ CloseInv /\ StoppedInv
      /\ HopInv /\ NoOrphan /\ RelayOwned /\ ClosedMeansReleased
  BY DEF IInv
<1> USE <1>0, NamesAssumption, RelaysAssumption
    DEF TypeOK, SharedOK, CallsOK, Ids, PCs, Closing, IsClosing, At, Goto,
        Starting, Waiting, CloseFlag, NextOfBatch, Return, sessVars, callVars
<1>1. RegInv'
  BY DEF RegInv, OwnInv, InsertInv, CloseInv
<1>2. OwnInv'
  BY DEF OwnInv
<1>3. InsertInv'
  BY DEF RegInv, OwnInv, InsertInv, CloseInv
<1>4. CloseInv'
  BY DEF RegInv, OwnInv, InsertInv, CloseInv, StoppedInv
<1>5. StoppedInv'
  BY DEF StoppedInv, CloseInv
<1>6. HopInv'
  BY DEF HopInv
<1>7. NoOrphan'
  BY DEF NoOrphan, RegInv, OwnInv, InsertInv, CloseInv
<1>8. RelayOwned'
  BY DEF RelayOwned, HopInv, CloseInv
<1>9. ClosedMeansReleased'
  BY DEF ClosedMeansReleased, CloseInv, StoppedInv
<1> QED
  BY <1>1, <1>2, <1>3, <1>4, <1>5, <1>6, <1>7, <1>8, <1>9 DEF IInv

LEMMA StepCloseCancel ==
  ASSUME IInv, TypeOK', NEW c \in Callers, CloseCancel(c)
  PROVE  IInv'
<1>0. /\ TypeOK /\ RegInv /\ OwnInv /\ InsertInv /\ CloseInv /\ StoppedInv
      /\ HopInv /\ NoOrphan /\ RelayOwned /\ ClosedMeansReleased
  BY DEF IInv
<1> USE <1>0, NamesAssumption, RelaysAssumption
    DEF TypeOK, SharedOK, CallsOK, Ids, PCs, Closing, IsClosing, At, Goto,
        Starting, Waiting, CloseCancel, sessVars, callVars
<1>1. RegInv'
  BY DEF RegInv, OwnInv, InsertInv, CloseInv
<1>2. OwnInv'
  BY DEF OwnInv
<1>3. InsertInv'
  BY DEF RegInv, OwnInv, InsertInv, CloseInv
<1>4. CloseInv'
  BY DEF RegInv, OwnInv, InsertInv, CloseInv, StoppedInv
<1>5. StoppedInv'
  BY DEF StoppedInv, CloseInv
<1>6. HopInv'
  BY DEF HopInv
<1>7. NoOrphan'
  BY DEF NoOrphan, RegInv, OwnInv, InsertInv, CloseInv
<1>8. RelayOwned'
  BY DEF RelayOwned, HopInv, CloseInv
<1>9. ClosedMeansReleased'
  BY DEF ClosedMeansReleased, CloseInv, StoppedInv
<1> QED
  BY <1>1, <1>2, <1>3, <1>4, <1>5, <1>6, <1>7, <1>8, <1>9 DEF IInv

LEMMA StepCloseTakeRelay ==
  ASSUME IInv, TypeOK', NEW c \in Callers, CloseTakeRelay(c)
  PROVE  IInv'
<1>0. /\ TypeOK /\ RegInv /\ OwnInv /\ InsertInv /\ CloseInv /\ StoppedInv
      /\ HopInv /\ NoOrphan /\ RelayOwned /\ ClosedMeansReleased
  BY DEF IInv
<1> USE <1>0, NamesAssumption, RelaysAssumption
    DEF TypeOK, SharedOK, CallsOK, Ids, PCs, Closing, IsClosing, At, Goto,
        Starting, Waiting, CloseTakeRelay, sessVars, callVars
<1>1. RegInv'
  BY DEF RegInv, OwnInv, InsertInv, CloseInv
<1>2. OwnInv'
  BY DEF OwnInv
<1>3. InsertInv'
  BY DEF RegInv, OwnInv, InsertInv, CloseInv
<1>4. CloseInv'
  BY DEF RegInv, OwnInv, InsertInv, CloseInv, StoppedInv
<1>5. StoppedInv'
  BY DEF StoppedInv, CloseInv
<1>6. HopInv'
  BY DEF HopInv
<1>7. NoOrphan'
  BY DEF NoOrphan, RegInv, OwnInv, InsertInv, CloseInv
<1>8. RelayOwned'
  BY DEF RelayOwned, HopInv, CloseInv
<1>9. ClosedMeansReleased'
  BY DEF ClosedMeansReleased, CloseInv, StoppedInv
<1> QED
  BY <1>1, <1>2, <1>3, <1>4, <1>5, <1>6, <1>7, <1>8, <1>9 DEF IInv

LEMMA StepCloseRelay ==
  ASSUME IInv, TypeOK', NEW c \in Callers, CloseRelay(c)
  PROVE  IInv'
<1>0. /\ TypeOK /\ RegInv /\ OwnInv /\ InsertInv /\ CloseInv /\ StoppedInv
      /\ HopInv /\ NoOrphan /\ RelayOwned /\ ClosedMeansReleased
  BY DEF IInv
<1> USE <1>0, NamesAssumption, RelaysAssumption
    DEF TypeOK, SharedOK, CallsOK, Ids, PCs, Closing, IsClosing, At, Goto,
        Starting, Waiting, CloseRelay, sessVars, callVars
<1>1. RegInv'
  BY DEF RegInv, OwnInv, InsertInv, CloseInv
<1>2. OwnInv'
  BY DEF OwnInv
<1>3. InsertInv'
  BY DEF RegInv, OwnInv, InsertInv, CloseInv
<1>4. CloseInv'
  BY DEF RegInv, OwnInv, InsertInv, CloseInv, StoppedInv
<1>5. StoppedInv'
  BY DEF StoppedInv, CloseInv
<1>6. HopInv'
  BY DEF HopInv
<1>7. NoOrphan'
  BY DEF NoOrphan, RegInv, OwnInv, InsertInv, CloseInv
<1>8. RelayOwned'
  BY DEF RelayOwned, HopInv, CloseInv
<1>9. ClosedMeansReleased'
  BY DEF ClosedMeansReleased, CloseInv, StoppedInv
<1> QED
  BY <1>1, <1>2, <1>3, <1>4, <1>5, <1>6, <1>7, <1>8, <1>9 DEF IInv

LEMMA StepCloseDev ==
  ASSUME IInv, TypeOK', NEW c \in Callers, CloseDev(c)
  PROVE  IInv'
<1>0. /\ TypeOK /\ RegInv /\ OwnInv /\ InsertInv /\ CloseInv /\ StoppedInv
      /\ HopInv /\ NoOrphan /\ RelayOwned /\ ClosedMeansReleased
  BY DEF IInv
<1> USE <1>0, NamesAssumption, RelaysAssumption
    DEF TypeOK, SharedOK, CallsOK, Ids, PCs, Closing, IsClosing, At, Goto,
        Starting, Waiting, CloseDev, NextOfBatch, Return, sessVars, callVars
<1>1. RegInv'
  BY DEF RegInv, OwnInv, InsertInv, CloseInv
<1>2. OwnInv'
  BY DEF OwnInv
<1>3. InsertInv'
  BY SMTT(30) DEF InsertInv
<1>4. CloseInv'
  BY DEF RegInv, OwnInv, InsertInv, CloseInv, StoppedInv
<1>5. StoppedInv'
  BY DEF StoppedInv, CloseInv
<1>6. HopInv'
  BY DEF HopInv
<1>7. NoOrphan'
  BY DEF NoOrphan, RegInv, OwnInv, InsertInv, CloseInv
<1>8. RelayOwned'
  <2> SUFFICES ASSUME NEW r \in relays PROVE RelayOwned!(r)'
    BY DEF RelayOwned
  <2> QED BY SMTT(30) DEF RelayOwned, CloseInv
<1>9. ClosedMeansReleased'
  BY DEF ClosedMeansReleased, CloseInv, StoppedInv
<1> QED
  BY <1>1, <1>2, <1>3, <1>4, <1>5, <1>6, <1>7, <1>8, <1>9 DEF IInv

\* Every step preserves the invariant.
LEMMA NextIInv == IInv /\ [Next]_vars => IInv'
<1> SUFFICES ASSUME IInv, [Next]_vars PROVE IInv'
  OBVIOUS
<1>0. TypeOK /\ TypeOK' /\ OwnInv
  BY TypeStep DEF IInv
<1>1. ASSUME NEW c \in Callers, NEW o \in Starting, NEW s \in Sess, Create(c, o, s) PROVE IInv'
  BY <1>0, <1>1, StepCreate
<1>2. ASSUME NEW c \in Callers, InsertExists(c) PROVE IInv'
  BY <1>0, <1>2, StepInsertExists
<1>3. ASSUME NEW c \in Callers, InsertReturns(c) PROVE IInv'
  BY <1>0, <1>3, StepInsertReturns
<1>4. ASSUME NEW c \in Callers, InsertWaits(c) PROVE IInv'
  BY <1>0, <1>4, StepInsertWaits
<1>5. ASSUME NEW c \in Callers, WaitReady(c) PROVE IInv'
  <2>1. /\ OthersKeep(c) /\ pc[c] \in Quiet /\ pc'[c] \in Quiet
        /\ own'[c] \in {own[c], None}
        /\ pc'[c] = "hopBind" => hold'[c] # None
        /\ UNCHANGED <<registry, name, probes, sessVars>>
    BY <1>0, <1>5
    DEF WaitReady, At, Goto, OthersKeep, Quiet, TypeOK, CallsOK, PCs, Closing
  <2> QED BY <1>0, <2>1, LocalStep
<1>6. ASSUME NEW c \in Callers, WaitFails(c) PROVE IInv'
  <2>1. /\ OthersKeep(c) /\ pc[c] \in Quiet /\ pc'[c] \in Quiet
        /\ own'[c] \in {own[c], None}
        /\ pc'[c] = "hopBind" => hold'[c] # None
        /\ UNCHANGED <<registry, name, probes, sessVars>>
    BY <1>0, <1>6
    DEF WaitFails, At, Goto, OthersKeep, Quiet, TypeOK, CallsOK, PCs, Closing
  <2> QED BY <1>0, <2>1, LocalStep
<1>7. ASSUME NEW c \in Callers, ProbeDeadline(c) PROVE IInv'
  BY <1>0, <1>7, FlagStep DEF ProbeDeadline
<1>8. ASSUME NEW c \in Callers, LookReturns(c) PROVE IInv'
  <2>1. /\ OthersKeep(c) /\ pc[c] \in Quiet /\ pc'[c] \in Quiet
        /\ own'[c] \in {own[c], None}
        /\ pc'[c] = "hopBind" => hold'[c] # None
        /\ UNCHANGED <<registry, name, probes, sessVars>>
    BY <1>0, <1>8
    DEF LookReturns, Return, At, Goto, OthersKeep, Quiet, TypeOK, CallsOK,
        PCs, Closing
  <2> QED BY <1>0, <2>1, LocalStep
<1>9. ASSUME NEW c \in Callers, LookGoesOn(c) PROVE IInv'
  <2>1. /\ OthersKeep(c) /\ pc[c] \in Quiet /\ pc'[c] \in Quiet
        /\ own'[c] \in {own[c], None}
        /\ pc'[c] = "hopBind" => hold'[c] # None
        /\ UNCHANGED <<registry, name, probes, sessVars>>
    BY <1>0, <1>9
    DEF LookGoesOn, At, Goto, OthersKeep, Quiet, TypeOK, CallsOK, PCs, Closing
  <2> QED BY <1>0, <2>1, LocalStep
<1>10. ASSUME NEW c \in Callers, ProbeDone(c) PROVE IInv'
  <2>1. /\ OthersKeep(c) /\ pc[c] \in Quiet /\ pc'[c] \in Quiet
        /\ own'[c] \in {own[c], None}
        /\ pc'[c] = "hopBind" => hold'[c] # None
        /\ UNCHANGED <<registry, name, probes, sessVars>>
    BY <1>0, <1>10
    DEF ProbeDone, At, Goto, OthersKeep, Quiet, TypeOK, CallsOK, PCs, Closing
  <2> QED BY <1>0, <2>1, LocalStep
<1>11. ASSUME NEW c \in Callers, StatusReturns(c) PROVE IInv'
  <2>1. /\ OthersKeep(c) /\ pc[c] \in Quiet /\ pc'[c] \in Quiet
        /\ own'[c] \in {own[c], None}
        /\ pc'[c] = "hopBind" => hold'[c] # None
        /\ UNCHANGED <<registry, name, probes, sessVars>>
    BY <1>0, <1>11
    DEF StatusReturns, Return, At, Goto, OthersKeep, Quiet, TypeOK, CallsOK,
        PCs, Closing
  <2> QED BY <1>0, <2>1, LocalStep
<1>12. ASSUME NEW c \in Callers, BeginSetHopRelay(c) PROVE IInv'
  <2>1. /\ OthersKeep(c) /\ pc[c] \in Quiet /\ pc'[c] \in Quiet
        /\ own'[c] \in {own[c], None}
        /\ pc'[c] = "hopBind" => hold'[c] # None
        /\ UNCHANGED <<registry, name, probes, sessVars>>
    BY <1>0, <1>12
    DEF BeginSetHopRelay, At, Goto, OthersKeep, Quiet, TypeOK, CallsOK, PCs,
        Closing
  <2> QED BY <1>0, <2>1, LocalStep
<1>13. ASSUME NEW c \in Callers, HopLookFails(c) PROVE IInv'
  <2>1. /\ OthersKeep(c) /\ pc[c] \in Quiet /\ pc'[c] \in Quiet
        /\ own'[c] \in {own[c], None}
        /\ pc'[c] = "hopBind" => hold'[c] # None
        /\ UNCHANGED <<registry, name, probes, sessVars>>
    BY <1>0, <1>13
    DEF HopLookFails, HopError, Return, At, Goto, OthersKeep, Quiet, TypeOK,
        CallsOK, PCs, Closing
  <2> QED BY <1>0, <2>1, LocalStep
<1>14. ASSUME NEW c \in Callers, HopLook(c) PROVE IInv'
  <2>1. /\ OthersKeep(c) /\ pc[c] \in Quiet /\ pc'[c] \in Quiet
        /\ own'[c] \in {own[c], None}
        /\ pc'[c] = "hopBind" => hold'[c] # None
        /\ UNCHANGED <<registry, name, probes, sessVars>>
    BY <1>0, <1>14
    DEF HopLook, At, Goto, OthersKeep, Quiet, TypeOK, CallsOK, PCs, Closing
  <2> QED BY <1>0, <2>1, LocalStep
<1>15. ASSUME NEW c \in Callers, HopBindFails(c) PROVE IInv'
  <2>1. /\ OthersKeep(c) /\ pc[c] \in Quiet /\ pc'[c] \in Quiet
        /\ own'[c] \in {own[c], None}
        /\ pc'[c] = "hopBind" => hold'[c] # None
        /\ UNCHANGED <<registry, name, probes, sessVars>>
    BY <1>0, <1>15
    DEF HopBindFails, HopError, Return, At, Goto, OthersKeep, Quiet, TypeOK,
        CallsOK, PCs, Closing
  <2> QED BY <1>0, <2>1, LocalStep
<1>16. ASSUME NEW c \in Callers, NEW r \in Relays, HopBind(c, r) PROVE IInv'
  BY <1>0, <1>16, StepHopBind
<1>17. ASSUME NEW c \in Callers, HopInstallStopped(c) PROVE IInv'
  BY <1>0, <1>17, StepHopInstallStopped
<1>18. ASSUME NEW c \in Callers, HopInstall(c) PROVE IInv'
  BY <1>0, <1>18, StepHopInstall
<1>19. ASSUME NEW c \in Callers, HopOld(c) PROVE IInv'
  BY <1>0, <1>19, StepHopOld
<1>20. ASSUME NEW c \in Callers, BeginInvokeStop(c) PROVE IInv'
  <2>1. /\ OthersKeep(c) /\ pc[c] \in Quiet /\ pc'[c] \in Quiet
        /\ own'[c] \in {own[c], None}
        /\ pc'[c] = "hopBind" => hold'[c] # None
        /\ UNCHANGED <<registry, name, probes, sessVars>>
    BY <1>0, <1>20
    DEF BeginInvokeStop, At, Goto, OthersKeep, Quiet, TypeOK, CallsOK, PCs,
        Closing
  <2> QED BY <1>0, <2>1, LocalStep
<1>21. ASSUME NEW c \in Callers, ExistsNot(c) PROVE IInv'
  <2>1. /\ OthersKeep(c) /\ pc[c] \in Quiet /\ pc'[c] \in Quiet
        /\ own'[c] \in {own[c], None}
        /\ pc'[c] = "hopBind" => hold'[c] # None
        /\ UNCHANGED <<registry, name, probes, sessVars>>
    BY <1>0, <1>21
    DEF ExistsNot, Return, At, Goto, OthersKeep, Quiet, TypeOK, CallsOK, PCs,
        Closing
  <2> QED BY <1>0, <2>1, LocalStep
<1>22. ASSUME NEW c \in Callers, ExistsYes(c) PROVE IInv'
  <2>1. /\ OthersKeep(c) /\ pc[c] \in Quiet /\ pc'[c] \in Quiet
        /\ own'[c] \in {own[c], None}
        /\ pc'[c] = "hopBind" => hold'[c] # None
        /\ UNCHANGED <<registry, name, probes, sessVars>>
    BY <1>0, <1>22
    DEF ExistsYes, At, Goto, OthersKeep, Quiet, TypeOK, CallsOK, PCs, Closing
  <2> QED BY <1>0, <2>1, LocalStep
<1>23. ASSUME NEW c \in Callers, StopUnknown(c) PROVE IInv'
  <2>1. /\ OthersKeep(c) /\ pc[c] \in Quiet /\ pc'[c] \in Quiet
        /\ own'[c] \in {own[c], None}
        /\ pc'[c] = "hopBind" => hold'[c] # None
        /\ UNCHANGED <<registry, name, probes, sessVars>>
    BY <1>0, <1>23
    DEF StopUnknown, Return, At, Goto, OthersKeep, Quiet, TypeOK, CallsOK,
        PCs, Closing
  <2> QED BY <1>0, <2>1, LocalStep
<1>24. ASSUME NEW c \in Callers, StopKnown(c) PROVE IInv'
  <2> DEFINE ss == {registry[Target(c)]}
  <2>1. /\ ss \in SUBSET Sess /\ Take(c, ss)
        /\ \A s \in ss : \E i \in Ids : registry[i] = s
        /\ UNCHANGED <<name, probes, sessVars, own, rl>>
        /\ pc[c] \in Quiet
    BY <1>0, <1>24, NamesAssumption
    DEF StopKnown, TypeOK, SharedOK, OwnInv, Ids, Target, At, Quiet, PCs, Closing
  <2> HIDE DEF ss
  <2>2. /\ OthersKeep(c) /\ pc'[c] = "flag" /\ own'[c] = own[c]
        /\ batch'[c] = ss /\ hold'[c] \in ss
        /\ registry' = [i \in Ids |-> IF registry[i] \in ss THEN None ELSE registry[i]]
    BY <1>0, <2>1 DEF Take, Goto, OthersKeep, TypeOK, CallsOK
  <2> QED BY <1>0, <2>1, <2>2, TakeStep
<1>25. ASSUME NEW c \in Callers, NEW id \in Ids, PRUsqueStop(c, id) PROVE IInv'
  <2> DEFINE ss == {registry[id]}
  <2>1. /\ ss \in SUBSET Sess /\ Take(c, ss)
        /\ \A s \in ss : \E i \in Ids : registry[i] = s
        /\ UNCHANGED <<name, probes, sessVars, own, rl>>
        /\ pc[c] \in Quiet
    BY <1>0, <1>25, NamesAssumption
    DEF PRUsqueStop, TypeOK, SharedOK, OwnInv, Ids, Target, At, Quiet, PCs, Closing
  <2> HIDE DEF ss
  <2>2. /\ OthersKeep(c) /\ pc'[c] = "flag" /\ own'[c] = own[c]
        /\ batch'[c] = ss /\ hold'[c] \in ss
        /\ registry' = [i \in Ids |-> IF registry[i] \in ss THEN None ELSE registry[i]]
    BY <1>0, <2>1 DEF Take, Goto, OthersKeep, TypeOK, CallsOK
  <2> QED BY <1>0, <2>1, <2>2, TakeStep
<1>26. ASSUME NEW c \in Callers, PRUsqueStopAll(c) PROVE IInv'
  <2> DEFINE ss == ({registry[i] : i \in Ids} \ {None})
  <2>1. /\ ss \in SUBSET Sess /\ Take(c, ss)
        /\ \A s \in ss : \E i \in Ids : registry[i] = s
        /\ UNCHANGED <<name, probes, sessVars, own, rl>>
        /\ pc[c] \in Quiet
    BY <1>0, <1>26, NamesAssumption
    DEF PRUsqueStopAll, TypeOK, SharedOK, OwnInv, Ids, Target, At, Quiet, PCs, Closing
  <2> HIDE DEF ss
  <2>2. /\ OthersKeep(c) /\ pc'[c] = "flag" /\ own'[c] = own[c]
        /\ batch'[c] = ss /\ hold'[c] \in ss
        /\ registry' = [i \in Ids |-> IF registry[i] \in ss THEN None ELSE registry[i]]
    BY <1>0, <2>1 DEF Take, Goto, OthersKeep, TypeOK, CallsOK
  <2> QED BY <1>0, <2>1, <2>2, TakeStep
<1>27. ASSUME NEW c \in Callers, AbortProbes(c) PROVE IInv'
  <2> DEFINE ss == ({registry[i] : i \in Ids} \cap probes)
  <2>1. /\ ss \in SUBSET Sess /\ Take(c, ss)
        /\ \A s \in ss : \E i \in Ids : registry[i] = s
        /\ UNCHANGED <<name, probes, sessVars, own, rl>>
        /\ pc[c] \in Quiet
    BY <1>0, <1>27, NamesAssumption
    DEF AbortProbes, TypeOK, SharedOK, OwnInv, Ids, Target, At, Quiet, PCs, Closing
  <2> HIDE DEF ss
  <2>2. /\ OthersKeep(c) /\ pc'[c] = "flag" /\ own'[c] = own[c]
        /\ batch'[c] = ss /\ hold'[c] \in ss
        /\ registry' = [i \in Ids |-> IF registry[i] \in ss THEN None ELSE registry[i]]
    BY <1>0, <2>1 DEF Take, Goto, OthersKeep, TypeOK, CallsOK
  <2> QED BY <1>0, <2>1, <2>2, TakeStep
<1>28. ASSUME NEW c \in Callers, CloseFlag(c) PROVE IInv'
  BY <1>0, <1>28, StepCloseFlag
<1>29. ASSUME NEW c \in Callers, CloseCancel(c) PROVE IInv'
  BY <1>0, <1>29, StepCloseCancel
<1>30. ASSUME NEW c \in Callers, CloseTakeRelay(c) PROVE IInv'
  BY <1>0, <1>30, StepCloseTakeRelay
<1>31. ASSUME NEW c \in Callers, CloseRelay(c) PROVE IInv'
  BY <1>0, <1>31, StepCloseRelay
<1>32. ASSUME NEW c \in Callers, CloseDev(c) PROVE IInv'
  BY <1>0, <1>32, StepCloseDev
<1>33. ASSUME NEW s \in Sess, LinkUp(s) PROVE IInv'
  BY <1>0, <1>33, FlagStep DEF LinkUp
<1>34. ASSUME NEW s \in Sess, LinkLost(s) PROVE IInv'
  BY <1>0, <1>34, FlagStep DEF LinkLost
<1>35. ASSUME NEW s \in Sess, LinkGivesUp(s) PROVE IInv'
  BY <1>0, <1>35, FlagStep DEF LinkGivesUp
<1>36. CASE UNCHANGED vars
  BY <1>0, <1>36, FlagStep DEF vars, sessVars
<1> QED
  BY <1>1, <1>2, <1>3, <1>4, <1>5, <1>6, <1>7, <1>8, <1>9, <1>10, <1>11,
     <1>12, <1>13, <1>14, <1>15, <1>16, <1>17, <1>18, <1>19, <1>20, <1>21,
     <1>22, <1>23, <1>24, <1>25, <1>26, <1>27, <1>28, <1>29, <1>30, <1>31,
     <1>32, <1>33, <1>34, <1>35, <1>36
  DEF Next, Begin, Continue, Tunnel

-----------------------------------------------------------------------------
(* Theorems.                                                               *)

LEMMA SpecIInv == Spec => []IInv
  BY InitIInv, NextIInv, PTL DEF Spec

\* Registry, sessions and calls keep their types: no call ever looks up, closes
\* or stores a nil session or relay.
THEOREM TypeCorrect == Spec => []TypeOK
<1>1. IInv => TypeOK
  BY DEF IInv
<1> QED BY <1>1, SpecIInv, PTL

\* However many threads start, stop and probe, no session with an open device is out of
\* reach of both the registry and every call (mobile.go:150-223).
THEOREM NoSessionIsOrphaned == Spec => []NoOrphan
<1>1. IInv => NoOrphan
  BY DEF IInv
<1> QED BY <1>1, SpecIInv, PTL

\* A session has at most one closer, and its device is closed at most once
\* (mobile.go:225-246, 367-380, 736-753).
THEOREM SessionsHaveOneCloser == Spec => []OneCloser
<1>1. IInv => OneCloser
  BY DEF IInv, CloseInv, OneCloser
<1> QED BY <1>1, SpecIInv, PTL

\* No hop relay is leaked by setHopRelay racing with close
\* (mobile.go:1239-1252 against 745-751).
THEOREM NoRelayIsLeaked == Spec => []RelayOwned
<1>1. IInv => RelayOwned
  BY DEF IInv
<1> QED BY <1>1, SpecIInv, PTL

\* A closed session has given up its context and its relay.
THEOREM ClosedSessionsHoldNothing == Spec => []ClosedMeansReleased
<1>1. IInv => ClosedMeansReleased
  BY DEF IInv
<1> QED BY <1>1, SpecIInv, PTL

-----------------------------------------------------------------------------
(* The sessions of an ID, as EngineLife describes them.                   *)

\* A step that moves one session, or none, of those with the ID i.
Keeps(i, e) == \A s \in Sess \ {e} : LifeOf(i, s)' = LifeOf(i, s)

\* A step that moves none stutters.
LEMMA LifeStays ==
  ASSUME NEW i \in Ids, \A s \in Sess : LifeOf(i, s)' = LifeOf(i, s)
  PROVE  UNCHANGED [s \in Sess |-> LifeOf(i, s)]
OBVIOUS

\* What a move of one session is to EngineLife.
LEMMA LifeMoves ==
  ASSUME NEW i \in Ids, NEW e \in Sess, Keeps(i, e),
         \/ LifeOf(i, e) = "free" /\ LifeOf(i, e)' = "opening"
         \/ /\ LifeOf(i, e) = "opening" /\ LifeOf(i, e)' = "running"
            /\ \A s \in Sess : LifeOf(i, s) # "running"
         \/ LifeOf(i, e) \in {"opening", "running"} /\ LifeOf(i, e)' = "closing"
         \/ LifeOf(i, e) # "free" /\ LifeOf(i, e)' = "free"
  PROVE  Life(i)!LifeNext
<1> DEFINE f == [s \in Sess |-> LifeOf(i, s)]
<1>1. ASSUME NEW v, LifeOf(i, e)' = v PROVE f' = [f EXCEPT ![e] = v]
  BY <1>1 DEF Keeps
<1>2. \A s \in Sess : f[s] = LifeOf(i, s)
  OBVIOUS
<1> HIDE DEF f
<1> USE <1>1, <1>2 DEF Life!Move, Life!Open, Life!Publish, Life!Abandon, Life!Withdraw,
   Life!Close, f
<1> QED BY DEF Life!LifeNext

\* A step of c that neither begins nor ends its insert.
Aside(c) ==
    /\ pc[c] # "insert" /\ pc'[c] # "insert"
    /\ \A d \in Callers \ {c} : pc'[d] = pc[d] /\ own'[d] = own[d]

\* It keeps its session, and stops closing only to return.
KeepsOwn(c) ==
    /\ own'[c] \in {own[c], None}
    /\ pc[c] \in Closing => pc'[c] \in Closing \/ own'[c] = None

\* The steps that neither the registry nor a device takes part in.
LEMMA AsideSteps ==
  ASSUME IInv, NEW c \in Callers,
            WaitReady(c) \/ WaitFails(c) \/ LookReturns(c) \/ LookGoesOn(c)
         \/ ProbeDone(c) \/ StatusReturns(c) \/ BeginSetHopRelay(c) \/ HopLookFails(c)
         \/ HopLook(c) \/ HopBindFails(c) \/ HopInstallStopped(c) \/ HopInstall(c)
         \/ HopOld(c) \/ BeginInvokeStop(c) \/ ExistsNot(c) \/ ExistsYes(c)
         \/ StopUnknown(c) \/ CloseFlag(c) \/ CloseCancel(c) \/ CloseTakeRelay(c)
         \/ CloseRelay(c) \/ (\E r \in Relays : HopBind(c, r))
  PROVE  Aside(c) /\ KeepsOwn(c) /\ UNCHANGED <<registry, name, asked, devClosed, link>>
<1> USE DEF IInv, TypeOK, SharedOK, CallsOK, Aside, KeepsOwn, Closing, At, Goto, Return, HopError, NextOfBatch,
   sessVars
<1>1. CASE WaitReady(c)
  BY <1>1 DEF WaitReady
<1>2. CASE WaitFails(c)
  BY <1>2 DEF WaitFails
<1>3. CASE LookReturns(c)
  BY <1>3 DEF LookReturns
<1>4. CASE LookGoesOn(c)
  BY <1>4 DEF LookGoesOn
<1>5. CASE ProbeDone(c)
  BY <1>5 DEF ProbeDone
<1>6. CASE StatusReturns(c)
  BY <1>6 DEF StatusReturns
<1>7. CASE BeginSetHopRelay(c)
  BY <1>7 DEF BeginSetHopRelay
<1>8. CASE HopLookFails(c)
  BY <1>8 DEF HopLookFails
<1>9. CASE HopLook(c)
  BY <1>9 DEF HopLook
<1>10. CASE HopBindFails(c)
  BY <1>10 DEF HopBindFails
<1>11. CASE HopInstallStopped(c)
  BY <1>11 DEF HopInstallStopped
<1>12. CASE HopInstall(c)
  BY <1>12 DEF HopInstall
<1>13. CASE HopOld(c)
  BY <1>13 DEF HopOld
<1>14. CASE BeginInvokeStop(c)
  BY <1>14 DEF BeginInvokeStop
<1>15. CASE ExistsNot(c)
  BY <1>15 DEF ExistsNot
<1>16. CASE ExistsYes(c)
  BY <1>16 DEF ExistsYes
<1>17. CASE StopUnknown(c)
  BY <1>17 DEF StopUnknown
<1>18. CASE CloseFlag(c)
  BY <1>18 DEF CloseFlag
<1>19. CASE CloseCancel(c)
  BY <1>19 DEF CloseCancel
<1>20. CASE CloseTakeRelay(c)
  BY <1>20 DEF CloseTakeRelay
<1>21. CASE CloseRelay(c)
  BY <1>21 DEF CloseRelay
<1>22. CASE \E r \in Relays : HopBind(c, r)
  BY <1>22 DEF HopBind
<1> QED
  BY <1>1, <1>2, <1>3, <1>4, <1>5, <1>6, <1>7, <1>8, <1>9, <1>10, <1>11, <1>12, <1>13,
     <1>14, <1>15, <1>16, <1>17, <1>18, <1>19, <1>20, <1>21, <1>22

\* They move no session.
LEMMA AsideStays ==
  ASSUME NEW i \in Ids, NEW c \in Callers, Aside(c), UNCHANGED <<registry, name, devClosed>>
  PROVE  UNCHANGED [s \in Sess |-> LifeOf(i, s)]
<1>1. ASSUME NEW s \in Sess PROVE LifeOf(i, s)' = LifeOf(i, s)
  BY DEF LifeOf, Aside
<1> QED BY <1>1, LifeStays

\* Of the sessions a stop takes out of the registry, one at most has the ID i.
LEMMA TakeMoves ==
  ASSUME IInv, NEW i \in Ids, NEW c \in Callers, NEW ss, None \notin ss, Take(c, ss),
         pc[c] # "insert", UNCHANGED <<name, devClosed, own>>
  PROVE  Life(i)!LifeNext \/ UNCHANGED [s \in Sess |-> LifeOf(i, s)]
<1> USE NamesAssumption DEF IInv, TypeOK, SharedOK, CallsOK
<1>1. Aside(c) /\ registry' = [j \in Ids |-> IF registry[j] \in ss THEN None ELSE registry[j]]
  BY DEF Take, Goto, Aside
<1>2. CASE registry[i] \notin ss
  <2>1. ASSUME NEW s \in Sess PROVE LifeOf(i, s)' = LifeOf(i, s)
    BY <1>1, <1>2 DEF LifeOf, Aside
  <2> QED BY <2>1, LifeStays
<1>3. CASE registry[i] \in ss
  <2>1. PICK e \in Sess : e = registry[i]
    BY <1>3
  <2>2. name[e] = i /\ e \notin devClosed
    BY <2>1 DEF RegInv, StoppedInv
  <2>3. \A d \in Callers : ~(own[d] = e /\ pc[d] = "insert")
    BY <2>1, <2>2 DEF InsertInv
  <2>4. LifeOf(i, e) = "running"
    BY <2>1 DEF LifeOf
  <2>5. LifeOf(i, e)' = "closing"
    BY <1>1, <1>3, <2>1, <2>2, <2>3 DEF LifeOf, Aside
  <2>6. ASSUME NEW s \in Sess, s # e PROVE LifeOf(i, s)' = LifeOf(i, s)
    BY <1>1, <1>3, <2>1, <2>6 DEF LifeOf, Aside
  <2> QED BY <2>4, <2>5, <2>6, LifeMoves DEF Keeps
<1> QED BY <1>2, <1>3

\* The session is registered, whether or not the call then waits.
LEMMA RegisterMoves ==
  ASSUME IInv, NEW i \in Ids, NEW c \in Callers, Register(c), pc'[c] # "insert",
         \A d \in Callers \ {c} : pc'[d] = pc[d] /\ own'[d] = own[d]
  PROVE  Life(i)!LifeNext \/ UNCHANGED [s \in Sess |-> LifeOf(i, s)]
<1> USE NamesAssumption DEF IInv, TypeOK, SharedOK, CallsOK, At
<1>1. PICK e \in Sess : e = own[c] /\ name[e] \in Ids /\ pc[c] = "insert"
  BY DEF Register, InsertInv, OwnInv
<1>2. /\ registry[name[e]] = None /\ registry' = [registry EXCEPT ![name[e]] = e]
      /\ UNCHANGED <<name, devClosed>> /\ e \notin devClosed
  BY <1>1 DEF Register, InsertInv, StoppedInv
<1>3. ASSUME NEW s \in Sess, s # e PROVE LifeOf(i, s)' = LifeOf(i, s)
  BY <1>1, <1>2, <1>3 DEF LifeOf
<1>4. CASE name[e] = i
  <2>1. LifeOf(i, e) = "opening" /\ LifeOf(i, e)' = "running"
    BY <1>1, <1>2, <1>4 DEF LifeOf
  <2>2. \A s \in Sess : LifeOf(i, s) # "running"
    BY <1>2, <1>4 DEF LifeOf
  <2> QED BY <1>3, <2>1, <2>2, LifeMoves DEF Keeps
<1>5. CASE name[e] # i
  <2>1. LifeOf(i, e)' = LifeOf(i, e)
    BY <1>1, <1>2, <1>5 DEF LifeOf
  <2> QED BY <1>3, <2>1, LifeStays
<1> QED BY <1>4, <1>5

\* Every step moves one session of an ID at most, as EngineLife allows.
LEMMA LifeStep ==
  ASSUME NEW i \in Ids
  PROVE  IInv /\ [Next]_vars => [Life(i)!LifeNext]_([s \in Sess |-> LifeOf(i, s)])
<1> SUFFICES ASSUME IInv, [Next]_vars
             PROVE  Life(i)!LifeNext \/ UNCHANGED [s \in Sess |-> LifeOf(i, s)]
  OBVIOUS
<1> USE NamesAssumption DEF IInv, TypeOK, SharedOK, CallsOK, At, Goto
<1> DEFINE Goal == Life(i)!LifeNext \/ UNCHANGED [s \in Sess |-> LifeOf(i, s)]
<1>1. ASSUME NEW c \in Callers, NEW o \in Starting, NEW e \in Sess, Create(c, o, e)
      PROVE  Goal
  <2>1. name[e] = None /\ e \notin devClosed /\ \A j \in Ids : registry[j] # e
    BY <1>1 DEF Create, RegInv, StoppedInv, Ids
  <2>2. \E j \in Ids : name' = [name EXCEPT ![e] = j]
    BY <1>1 DEF Create, Ids
  <2>3. /\ pc[c] # "insert" /\ pc' = [pc EXCEPT ![c] = "insert"]
        /\ own' = [own EXCEPT ![c] = e] /\ UNCHANGED <<registry, devClosed>>
    BY <1>1 DEF Create, sessVars
  <2>4. ASSUME NEW s \in Sess, s # e PROVE LifeOf(i, s)' = LifeOf(i, s)
    BY <2>2, <2>3, <2>4 DEF LifeOf
  <2>5. LifeOf(i, e) = "free"
    BY <2>1 DEF LifeOf, Ids
  <2>6. LifeOf(i, e)' \in {"opening", "free"}
    BY <2>1, <2>2, <2>3 DEF LifeOf
  <2> QED BY <2>4, <2>5, <2>6, LifeMoves, LifeStays DEF Keeps
<1>2. ASSUME NEW c \in Callers, InsertExists(c) PROVE Goal
  <2>1. PICK e \in Sess : e = own[c] /\ name[e] \in Ids /\ pc[c] = "insert"
    BY <1>2 DEF InsertExists, InsertInv, OwnInv
  <2>2. /\ registry[name[e]] # e /\ e \notin devClosed
        /\ \A d \in Callers \ {c} : ~(own[d] = e /\ pc[d] = "insert")
    BY <2>1 DEF InsertInv, StoppedInv
  <2>3. /\ pc' = [pc EXCEPT ![c] = "flag"] /\ UNCHANGED <<registry, name, devClosed, own>>
    BY <1>2 DEF InsertExists, sessVars
  <2>4. ASSUME NEW s \in Sess, s # e PROVE LifeOf(i, s)' = LifeOf(i, s)
    BY <2>1, <2>3, <2>4 DEF LifeOf
  <2>5. CASE name[e] = i
    <3>1. LifeOf(i, e) = "opening"
      BY <2>1, <2>2, <2>5 DEF LifeOf
    <3>2. LifeOf(i, e)' = "closing"
      BY <2>1, <2>2, <2>3, <2>5 DEF LifeOf
    <3> QED BY <2>4, <3>1, <3>2, LifeMoves DEF Keeps
  <2>6. CASE name[e] # i
    <3>1. LifeOf(i, e)' = LifeOf(i, e)
      BY <2>3, <2>6 DEF LifeOf
    <3> QED BY <2>4, <3>1, LifeStays
  <2> QED BY <2>5, <2>6
<1>3. ASSUME NEW c \in Callers, InsertReturns(c) \/ InsertWaits(c) PROVE Goal
  <2>1. /\ Register(c) /\ pc'[c] # "insert"
        /\ \A d \in Callers \ {c} : pc'[d] = pc[d] /\ own'[d] = own[d]
    BY <1>3 DEF InsertReturns, InsertWaits, Return
  <2> QED BY <2>1, RegisterMoves
<1>4. ASSUME NEW c \in Callers, StopKnown(c) PROVE Goal
  BY <1>4, TakeMoves DEF StopKnown, sessVars
<1>5. ASSUME NEW c \in Callers, NEW j \in Ids, PRUsqueStop(c, j) PROVE Goal
  BY <1>5, TakeMoves DEF PRUsqueStop, sessVars
<1>6. ASSUME NEW c \in Callers, PRUsqueStopAll(c) PROVE Goal
  BY <1>6, TakeMoves DEF PRUsqueStopAll, sessVars
<1>7. ASSUME NEW c \in Callers, AbortProbes(c) PROVE Goal
  BY <1>7, TakeMoves DEF AbortProbes, sessVars
<1>8. ASSUME NEW c \in Callers, CloseDev(c) PROVE Goal
  <2>1. PICK e \in Sess : /\ e = hold[c] /\ name[e] \in Ids /\ registry[name[e]] # e
                          /\ e \notin devClosed /\ pc[c] = "closeDev"
    BY <1>8 DEF CloseDev, CloseInv, Closing
  <2>2. devClosed' = devClosed \cup {e} /\ UNCHANGED <<registry, name>> /\ Aside(c)
    BY <1>8, <2>1 DEF CloseDev, NextOfBatch, Return, Aside
  <2>3. ASSUME NEW s \in Sess, s # e PROVE LifeOf(i, s)' = LifeOf(i, s)
    BY <2>2, <2>3 DEF LifeOf, Aside
  <2>4. registry[i] # e
    BY <2>1 DEF RegInv
  <2>5. CASE name[e] = i
    <3>1. LifeOf(i, e) # "free" /\ LifeOf(i, e)' = "free"
      BY <2>1, <2>2, <2>4, <2>5 DEF LifeOf
    <3> QED BY <2>3, <3>1, LifeMoves DEF Keeps
  <2>6. CASE name[e] # i
    <3>1. LifeOf(i, e)' = LifeOf(i, e)
      BY <2>2, <2>4, <2>6 DEF LifeOf
    <3> QED BY <2>3, <3>1, LifeStays
  <2> QED BY <2>5, <2>6
<1>9. CASE \/ \E c \in Callers : ProbeDeadline(c)
           \/ \E s \in Sess : Tunnel(s)
           \/ UNCHANGED vars
  <2>1. UNCHANGED <<registry, name, devClosed, own, pc>>
    BY <1>9 DEF ProbeDeadline, Tunnel, LinkUp, LinkLost, LinkGivesUp, vars, sessVars, callVars
  <2> QED BY <2>1, LifeStays DEF LifeOf
<1> QED
  BY <1>1, <1>2, <1>3, <1>4, <1>5, <1>6, <1>7, <1>8, <1>9, AsideSteps, AsideStays
  DEF Next, Begin, Continue

\* Under every ID the registry keeps the promise of EngineLife: a start never
\* replaces the registered session, its own is closed if the ID is taken, and
\* a session that a stop took out is not registered again.
THEOREM RegistryImplementsLife == ASSUME NEW i \in Ids PROVE Spec => ImplementsLife(i)
<1>1. Init => Life(i)!LifeInit
  BY NamesAssumption DEF Init, Life!LifeInit, LifeOf, Ids
<1>2. IInv /\ [Next]_vars => [Life(i)!LifeNext]_([s \in Sess |-> LifeOf(i, s)])
  BY LifeStep
<1> QED BY <1>1, <1>2, SpecIInv, PTL DEF Spec, ImplementsLife, Life!LifeSpec

-----------------------------------------------------------------------------
(* What a start finds under its ID.                                        *)

\* A session has one call that created it, and the ID leads there.
OwnIdInv ==
    /\ \A c, d \in Callers : own[c] # None /\ own[c] = own[d] => c = d
    /\ IdLeadsToOwn

\* Sessions ss are taken: by the application, or by the call that made the one.
LEMMA TakeKeepsId ==
  ASSUME IInv, OwnIdInv, NEW c \in Callers, NEW ss, Take(c, ss), own' = own, name' = name,
         pc[c] \notin Closing, asked' = asked \cup ss \/ (asked' = asked /\ ss = {own[c]})
  PROVE  OwnIdInv'
<1> USE NamesAssumption DEF IInv, TypeOK, SharedOK, CallsOK, OwnIdInv
<1>1. /\ pc' = [pc EXCEPT ![c] = "flag"]
      /\ registry' = [i \in Ids |-> IF registry[i] \in ss THEN None ELSE registry[i]]
  BY DEF Take, Goto
<1>2. IdLeadsToOwn'
  <2> SUFFICES ASSUME NEW d \in Callers, own[d] # None, own[d] \notin asked',
                      pc'[d] \notin Closing \cup {"insert"}
               PROVE  registry'[name[own[d]]] = own[d]
    BY DEF IdLeadsToOwn
  <2>1. d # c /\ pc'[d] = pc[d]
    BY <1>1 DEF Closing
  <2>2. registry[name[own[d]]] = own[d] /\ name[own[d]] \in Ids
    BY <2>1 DEF IdLeadsToOwn, OwnInv
  <2>3. own[d] \notin ss
    BY <2>1
  <2> QED BY <1>1, <2>2, <2>3
<1> QED BY <1>2

LEMMA NextOwnId == IInv /\ OwnIdInv /\ [Next]_vars => OwnIdInv'
<1> SUFFICES ASSUME IInv, OwnIdInv, [Next]_vars PROVE OwnIdInv'
  OBVIOUS
<1> USE NamesAssumption DEF IInv, TypeOK, SharedOK, CallsOK, OwnIdInv, At, Goto
<1>1. ASSUME NEW c \in Callers, NEW o \in Starting, NEW s \in Sess, Create(c, o, s)
      PROVE  OwnIdInv'
  <2>1. /\ name[s] = None /\ UNCHANGED <<registry, asked>>
        /\ \A r \in Sess \ {s} : name'[r] = name[r]
        /\ pc' = [pc EXCEPT ![c] = "insert"] /\ own' = [own EXCEPT ![c] = s]
    BY <1>1 DEF Create
  <2>2. \A d \in Callers : own[d] # s
    BY <2>1 DEF OwnInv, Ids
  <2> QED BY <2>1, <2>2 DEF IdLeadsToOwn
<1>2. ASSUME NEW c \in Callers, InsertExists(c) PROVE OwnIdInv'
  BY <1>2 DEF InsertExists, IdLeadsToOwn, Closing
<1>3. ASSUME NEW c \in Callers, InsertReturns(c) \/ InsertWaits(c) PROVE OwnIdInv'
  <2>1. /\ pc[c] = "insert" /\ own[c] # None /\ name[own[c]] \in Ids
        /\ registry[name[own[c]]] = None
        /\ registry' = [registry EXCEPT ![name[own[c]]] = own[c]]
        /\ UNCHANGED <<name, asked>> /\ own'[c] \in {own[c], None}
        /\ \A d \in Callers \ {c} : pc'[d] = pc[d] /\ own'[d] = own[d]
    BY <1>3 DEF InsertReturns, InsertWaits, Register, Return, InsertInv, OwnInv
  <2> QED BY <2>1 DEF IdLeadsToOwn, OwnInv
<1>4. ASSUME NEW c \in Callers, StopKnown(c) PROVE OwnIdInv'
  <2> DEFINE r == registry[Target(c)]
  <2>1. /\ Take(c, {r}) /\ UNCHANGED <<own, name>> /\ pc[c] = "stop"
        /\ asked' = IF own[c] \in asked \cup {None} THEN asked \cup {r} ELSE asked
    BY <1>4 DEF StopKnown
  <2>2. own[c] \notin asked \cup {None} => r = own[c]
    BY <2>1 DEF Target, IdLeadsToOwn, Closing
  <2>3. asked' = asked \cup {r} \/ (asked' = asked /\ {r} = {own[c]})
    BY <2>1, <2>2
  <2> HIDE DEF r
  <2> QED BY <2>1, <2>3, TakeKeepsId DEF Closing
<1>5. ASSUME NEW c \in Callers, NEW i \in Ids, PRUsqueStop(c, i) PROVE OwnIdInv'
  BY <1>5, TakeKeepsId DEF PRUsqueStop, Closing
<1>6. ASSUME NEW c \in Callers, PRUsqueStopAll(c) PROVE OwnIdInv'
  BY <1>6, TakeKeepsId DEF PRUsqueStopAll, Closing
<1>7. ASSUME NEW c \in Callers, AbortProbes(c) PROVE OwnIdInv'
  BY <1>7, TakeKeepsId DEF AbortProbes, Closing
<1>8. ASSUME NEW c \in Callers, Aside(c), KeepsOwn(c), UNCHANGED <<registry, name, asked>>
      PROVE  OwnIdInv'
  BY <1>8 DEF Aside, KeepsOwn, IdLeadsToOwn
<1>9. ASSUME NEW c \in Callers, CloseDev(c) PROVE OwnIdInv'
  <2>1. Aside(c) /\ KeepsOwn(c) /\ UNCHANGED <<registry, name, asked>>
    BY <1>9 DEF CloseDev, NextOfBatch, Return, Aside, KeepsOwn, Closing
  <2> QED BY <1>8, <2>1
<1>10. CASE \/ \E c \in Callers : ProbeDeadline(c)
            \/ \E s \in Sess : Tunnel(s)
            \/ UNCHANGED vars
  <2>1. UNCHANGED <<registry, name, asked, own, pc>>
    BY <1>10 DEF ProbeDeadline, Tunnel, LinkUp, LinkLost, LinkGivesUp, vars, callVars
  <2> QED BY <2>1 DEF IdLeadsToOwn
<1> QED
  BY <1>1, <1>2, <1>3, <1>4, <1>5, <1>6, <1>7, <1>8, <1>9, <1>10, AsideSteps
  DEF Next, Begin, Continue

\* While the application stops none of them, a start finds its own session
\* under its ID in every lookup it makes, and stops no other if it fails.
THEOREM IdsLeadToOwnSession == Spec => []IdLeadsToOwn
<1>1. Init => OwnIdInv
  BY DEF Init, OwnIdInv, IdLeadsToOwn
<1>2. OwnIdInv => IdLeadsToOwn
  BY DEF OwnIdInv
<1> QED BY <1>1, <1>2, NextOwnId, SpecIInv, PTL DEF Spec

-----------------------------------------------------------------------------
(* The link of a session.                                                  *)

\* Nothing runs for a session that is not registered yet.
LinkInv ==
    /\ \A s \in Sess : name[s] = None => link[s] = "off"
    /\ \A c \in Callers : pc[c] = "insert" => link[own[c]] = "off"

\* What SessionLink sees of the sessions.
linkState == <<stopped, ready, cancelled, link>>

\* The steps that leave all links alone.
LEMMA NoLinkSteps ==
  ASSUME [Next]_vars
  PROVE  \/ UNCHANGED linkState
         \/ \E c \in Callers : InsertReturns(c) \/ InsertWaits(c)
         \/ \E c \in Callers : CloseFlag(c) \/ CloseCancel(c) \/ ProbeDeadline(c)
         \/ \E s \in Sess : Tunnel(s)
<1> USE DEF linkState, sessVars
<1>1. ASSUME NEW c \in Callers, Begin(c) PROVE UNCHANGED linkState
  BY <1>1 DEF Begin, Create, BeginSetHopRelay, BeginInvokeStop, PRUsqueStop,
     PRUsqueStopAll, AbortProbes
<1>2. ASSUME NEW c \in Callers, Continue(c),
             ~(InsertReturns(c) \/ InsertWaits(c) \/ CloseFlag(c) \/ CloseCancel(c))
      PROVE  UNCHANGED linkState
  BY <1>2 DEF Continue, InsertExists, WaitReady, WaitFails, LookReturns, LookGoesOn,
     ProbeDone, StatusReturns, HopLookFails, HopLook, HopBindFails, HopBind,
     HopInstallStopped, HopInstall, HopOld, ExistsNot, ExistsYes, StopUnknown, StopKnown,
     CloseTakeRelay, CloseRelay, CloseDev
<1>3. CASE UNCHANGED vars
  BY <1>3 DEF vars
<1> QED BY <1>1, <1>2, <1>3 DEF Next

\* A link starts with the registration, and that happens once.
LEMMA NextLinkInv == IInv /\ LinkInv /\ [Next]_vars => LinkInv'
<1> SUFFICES ASSUME IInv, LinkInv, [Next]_vars PROVE LinkInv'
  OBVIOUS
<1>0. ASSUME NEW c \in Callers, Continue(c)
      PROVE  \/ InsertExists(c) \/ InsertReturns(c) \/ InsertWaits(c) \/ StopKnown(c)
             \/ CloseDev(c) \/ (Aside(c) /\ UNCHANGED <<name, link>>)
  BY <1>0, AsideSteps DEF Continue
<1> USE NamesAssumption DEF IInv, TypeOK, SharedOK, CallsOK, At, Goto, Return
<1>1. ASSUME NEW c \in Callers, NEW o \in Starting, NEW s \in Sess, Create(c, o, s)
      PROVE  LinkInv'
  <2>1. /\ name[s] = None /\ UNCHANGED link /\ \A r \in Sess \ {s} : name'[r] = name[r]
        /\ pc' = [pc EXCEPT ![c] = "insert"] /\ own' = [own EXCEPT ![c] = s]
        /\ name'[s] # None
    BY <1>1 DEF Create, sessVars, Ids
  <2> QED BY <2>1 DEF LinkInv
<1>2. ASSUME NEW c \in Callers, InsertExists(c) PROVE LinkInv'
  BY <1>2 DEF InsertExists, LinkInv, sessVars
<1>3. ASSUME NEW c \in Callers, InsertReturns(c) \/ InsertWaits(c) PROVE LinkInv'
  <2>1. /\ pc[c] = "insert" /\ pc'[c] # "insert" /\ UNCHANGED name
        /\ \A d \in Callers \ {c} : pc'[d] = pc[d] /\ own'[d] = own[d]
        /\ link' = [link EXCEPT ![own[c]] = "down"]
    BY <1>3 DEF InsertReturns, InsertWaits, Register
  <2>2. own[c] \in Sess /\ name[own[c]] # None
    BY <2>1 DEF InsertInv, OwnInv, Ids
  <2>3. \A d \in Callers \ {c} : pc[d] = "insert" => own[d] # own[c]
    BY <2>1 DEF InsertInv
  <2> QED BY <2>1, <2>2, <2>3 DEF LinkInv
<1>4. ASSUME NEW c \in Callers, Aside(c), UNCHANGED <<name, link>> PROVE LinkInv'
  BY <1>4 DEF Aside, LinkInv
<1>5. ASSUME NEW c \in Callers, StopKnown(c) \/ (\E j \in Ids : PRUsqueStop(c, j))
                                \/ PRUsqueStopAll(c) \/ AbortProbes(c)
      PROVE  LinkInv'
  BY <1>4, <1>5 DEF StopKnown, PRUsqueStop, PRUsqueStopAll, AbortProbes, Take, Aside, sessVars
<1>6. ASSUME NEW c \in Callers, CloseDev(c) PROVE LinkInv'
  BY <1>4, <1>6 DEF CloseDev, NextOfBatch, Aside
<1>7. ASSUME NEW s \in Sess, Tunnel(s) PROVE LinkInv'
  <2>1. /\ UNCHANGED <<name, pc, own>>
        /\ \A r \in Sess : link[r] = "off" => link'[r] = "off"
    BY <1>7 DEF Tunnel, LinkUp, LinkLost, LinkGivesUp, callVars
  <2>2. \A c \in Callers : pc[c] = "insert" => own[c] \in Sess
    BY DEF InsertInv
  <2> QED BY <2>1, <2>2 DEF LinkInv
<1>8. ASSUME NEW c \in Callers, ProbeDeadline(c) PROVE LinkInv'
  BY <1>8 DEF ProbeDeadline, LinkInv, callVars
<1>9. CASE UNCHANGED vars
  BY <1>9 DEF vars, LinkInv, sessVars, callVars
<1>10. ASSUME NEW c \in Callers, BeginSetHopRelay(c) \/ BeginInvokeStop(c) PROVE LinkInv'
  BY <1>4, <1>10, AsideSteps
<1>11. ASSUME NEW c \in Callers, Continue(c) PROVE LinkInv'
  BY <1>0, <1>2, <1>3, <1>4, <1>5, <1>6, <1>11
<1> QED BY <1>1, <1>5, <1>7, <1>8, <1>9, <1>10, <1>11 DEF Next, Begin

\* The invariant of the links.
LEMMA SpecLinkInv == Spec => []LinkInv
<1>1. Init => LinkInv
  BY DEF Init, LinkInv
<1> QED BY <1>1, NextLinkInv, SpecIInv, PTL DEF Spec

\* One step, as the link of s sees it.
LEMMA LinkStep ==
  ASSUME NEW s \in Sess
  PROVE  IInv /\ LinkInv /\ [Next]_vars => [Link(s)!LinkNext]_(Link(s)!linkVars)
<1> SUFFICES ASSUME IInv, LinkInv, [Next]_vars
             PROVE  Link(s)!LinkNext \/ UNCHANGED Link(s)!linkVars
  OBVIOUS
<1> USE NamesAssumption DEF IInv, TypeOK, SharedOK, CallsOK, At, Goto, Link!linkVars
<1> DEFINE Goal == Link(s)!LinkNext \/ UNCHANGED Link(s)!linkVars
<1>1. CASE UNCHANGED linkState
  BY <1>1 DEF linkState
<1>2. ASSUME NEW c \in Callers, InsertReturns(c) \/ InsertWaits(c) PROVE Goal
  <2>1. /\ link[own[c]] = "off" /\ own[c] \in Sess
        /\ link' = [link EXCEPT ![own[c]] = "down"] /\ UNCHANGED <<stopped, ready, cancelled>>
    BY <1>2 DEF InsertReturns, InsertWaits, Register, LinkInv, InsertInv
  <2> QED BY <2>1
<1>3. ASSUME NEW c \in Callers, CloseFlag(c) PROVE Goal
  <2>1. CASE hold[c] \in stopped \/ hold[c] # s
    BY <1>3, <2>1 DEF CloseFlag
  <2>2. CASE s = hold[c] /\ s \notin stopped
    BY <1>3, <2>2 DEF CloseFlag, Link!LinkNext, Link!StopRequested
  <2> QED BY <2>1, <2>2
<1>4. ASSUME NEW c \in Callers, CloseCancel(c) PROVE Goal
  BY <1>4 DEF CloseCancel, Link!LinkNext, Link!ContextEnds
<1>5. ASSUME NEW c \in Callers, ProbeDeadline(c) PROVE Goal
  BY <1>5 DEF ProbeDeadline, Link!LinkNext, Link!ContextEnds
<1>6. ASSUME NEW r \in Sess, LinkUp(r) PROVE Goal
  BY <1>6 DEF LinkUp, Link!LinkNext, Link!Handshake
<1>7. ASSUME NEW r \in Sess, LinkLost(r) PROVE Goal
  BY <1>7 DEF LinkLost, Link!LinkNext, Link!LinkLost
<1>8. ASSUME NEW r \in Sess, LinkGivesUp(r) PROVE Goal
  BY <1>8 DEF LinkGivesUp, Link!LinkNext, Link!GiveUp
<1> QED BY <1>1, <1>2, <1>3, <1>4, <1>5, <1>6, <1>7, <1>8, NoLinkSteps DEF Tunnel

\* Whatever calls race on a session, its link behaves as SessionLink says, the
\* promise that UsqueTunnel is shown to keep: ready goes with a handshake and
\* with a stop, and a link that ended stays so.
THEOREM SessionsImplementLink == ASSUME NEW s \in Sess PROVE Spec => ImplementsLink(s)
<1>1. Init => Link(s)!LinkInit
  BY DEF Init, Link!LinkInit
<1>2. IInv /\ LinkInv /\ [Next]_vars => [Link(s)!LinkNext]_(Link(s)!linkVars)
  BY LinkStep
<1> QED BY <1>1, <1>2, SpecIInv, SpecLinkInv, PTL DEF Spec, ImplementsLink, Link!LinkSpec
=============================================================================
