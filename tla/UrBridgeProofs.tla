--------------------------- MODULE UrBridgeProofs ---------------------------
(***************************************************************************)
(* Proofs about UrBridge for any number of callers, sessions and proxies.  *)
(***************************************************************************)
EXTENDS UrBridge, TLAPS

\* urMu belongs to the call inside urStart, while which nothing is registered.
LockInv ==
    \A c \in Callers :
        /\ pc[c] \in Starting <=> mu = c
        /\ pc[c] \in Starting => cur = None

\* How far the session in a call's hands is open.
HandsInv ==
    \A c \in Callers :
        /\ pc[c] \in Opening \cup Closing => dev[mine[c]] = "open"
        /\ pc[c] \in Opening => ln[mine[c]] = "free"
        /\ pc[c] = "closeDevice" => ln[mine[c]] = "free"

\* A proxy in force has somebody who will clear it: the registered session,
\* a start that may still fail, or a stop that has not come to its end.
ClearInv ==
    upstream # Direct =>
        \/ cur # None
        \/ \E c \in Callers : pc[c] \in Starting \cup Closing \cup {"clear"}

\* An announcement tells the present status, and a start that looked at the
\* status has stored the flag before.
WatchInv ==
    /\ note \in {None, win}
    /\ \A c \in Callers : pc[c] \in {"check", "wait"} => accept = "yes"

\* A start that is about to open finds its own proxy, or a late clear.
ProxyInv == \A c \in Callers : pc[c] = "open" => upstream \in {want[c], Direct}

IInv == TypeOK /\ LockInv /\ HandsInv /\ NoOrphan /\ ClearInv /\ WatchInv /\ NoLostReady
        /\ ProxyInv /\ OwnProxyOrNone

LEMMA InitIInv == Init => IInv
<1> SUFFICES ASSUME Init PROVE IInv
  OBVIOUS
<1> USE NoneAssumption DEF Init, Upstreams, Window, Starting, Opening, Closing
<1>1. TypeOK
  BY DEF TypeOK
<1>2. LockInv /\ HandsInv /\ ProxyInv
  BY DEF LockInv, HandsInv, ProxyInv
<1>3. NoOrphan /\ OwnProxyOrNone
  BY DEF NoOrphan, OwnProxyOrNone
<1>4. ClearInv /\ WatchInv /\ NoLostReady
  BY DEF ClearInv, WatchInv, NoLostReady
<1> QED BY <1>1, <1>2, <1>3, <1>4 DEF IInv

LEMMA NextIInv == IInv /\ [Next]_vars => IInv'
<1> SUFFICES ASSUME IInv, [Next]_vars PROVE IInv'
  OBVIOUS
<1> USE NoneAssumption, DirectAssumption
    DEF Upstreams, Window, Starting, Opening, Closing, Goto, call, watch
<1>1. ASSUME NEW c \in Callers, NEW u \in Upstreams, Start(c, u) PROVE IInv'
  <2>1. TypeOK'
    BY <1>1 DEF IInv, TypeOK, Start
  <2>2. LockInv'
    BY <1>1 DEF IInv, TypeOK, LockInv, Start
  <2>3. HandsInv'
    BY <1>1 DEF IInv, TypeOK, LockInv, HandsInv, NoOrphan, Start
  <2>4. NoOrphan'
    BY <1>1 DEF IInv, TypeOK, LockInv, HandsInv, NoOrphan, Start
  <2>5. ClearInv'
    BY <1>1 DEF IInv, TypeOK, LockInv, ClearInv, Start
  <2>6. WatchInv'
    BY <1>1 DEF IInv, TypeOK, LockInv, WatchInv, Start
  <2>7. NoLostReady'
    BY <1>1 DEF IInv, TypeOK, LockInv, WatchInv, NoLostReady, Start
  <2>8. ProxyInv'
    BY <1>1 DEF IInv, TypeOK, LockInv, ProxyInv, Start
  <2>9. OwnProxyOrNone'
    BY <1>1 DEF IInv, TypeOK, LockInv, NoOrphan, ProxyInv, OwnProxyOrNone, Start
  <2> QED BY <2>1, <2>2, <2>3, <2>4, <2>5, <2>6, <2>7, <2>8, <2>9 DEF IInv
<1>2. ASSUME NEW c \in Callers, AlreadyRunning(c) PROVE IInv'
  <2>1. TypeOK'
    BY <1>2 DEF IInv, TypeOK, AlreadyRunning
  <2>2. LockInv'
    BY <1>2 DEF IInv, TypeOK, LockInv, AlreadyRunning
  <2>3. HandsInv'
    BY <1>2 DEF IInv, TypeOK, LockInv, HandsInv, NoOrphan, AlreadyRunning
  <2>4. NoOrphan'
    BY <1>2 DEF IInv, TypeOK, LockInv, HandsInv, NoOrphan, AlreadyRunning
  <2>5. ClearInv'
    BY <1>2 DEF IInv, TypeOK, LockInv, ClearInv, AlreadyRunning
  <2>6. WatchInv'
    BY <1>2 DEF IInv, TypeOK, LockInv, WatchInv, AlreadyRunning
  <2>7. NoLostReady'
    BY <1>2 DEF IInv, TypeOK, LockInv, WatchInv, NoLostReady, AlreadyRunning
  <2>8. ProxyInv'
    BY <1>2 DEF IInv, TypeOK, LockInv, ProxyInv, AlreadyRunning
  <2>9. OwnProxyOrNone'
    BY <1>2 DEF IInv, TypeOK, LockInv, NoOrphan, ProxyInv, OwnProxyOrNone, AlreadyRunning
  <2> QED BY <2>1, <2>2, <2>3, <2>4, <2>5, <2>6, <2>7, <2>8, <2>9 DEF IInv
<1>3. ASSUME NEW c \in Callers, StartLock(c) PROVE IInv'
  <2>1. TypeOK'
    BY <1>3 DEF IInv, TypeOK, StartLock
  <2>2. LockInv'
    BY <1>3 DEF IInv, TypeOK, LockInv, StartLock
  <2>3. HandsInv'
    BY <1>3 DEF IInv, TypeOK, LockInv, HandsInv, NoOrphan, StartLock
  <2>4. NoOrphan'
    BY <1>3 DEF IInv, TypeOK, LockInv, HandsInv, NoOrphan, StartLock
  <2>5. ClearInv'
    BY <1>3 DEF IInv, TypeOK, LockInv, ClearInv, StartLock
  <2>6. WatchInv'
    BY <1>3 DEF IInv, TypeOK, LockInv, WatchInv, StartLock
  <2>7. NoLostReady'
    BY <1>3 DEF IInv, TypeOK, LockInv, WatchInv, NoLostReady, StartLock
  <2>8. ProxyInv'
    BY <1>3 DEF IInv, TypeOK, LockInv, ProxyInv, StartLock
  <2>9. OwnProxyOrNone'
    BY <1>3 DEF IInv, TypeOK, LockInv, NoOrphan, ProxyInv, OwnProxyOrNone, StartLock
  <2> QED BY <2>1, <2>2, <2>3, <2>4, <2>5, <2>6, <2>7, <2>8, <2>9 DEF IInv
<1>4. ASSUME NEW c \in Callers, SetUpstream(c) PROVE IInv'
  <2>1. TypeOK'
    BY <1>4 DEF IInv, TypeOK, SetUpstream
  <2>2. LockInv'
    BY <1>4 DEF IInv, TypeOK, LockInv, SetUpstream
  <2>3. HandsInv'
    BY <1>4 DEF IInv, TypeOK, LockInv, HandsInv, NoOrphan, SetUpstream
  <2>4. NoOrphan'
    BY <1>4 DEF IInv, TypeOK, LockInv, HandsInv, NoOrphan, SetUpstream
  <2>5. ClearInv'
    BY <1>4 DEF IInv, TypeOK, LockInv, ClearInv, SetUpstream
  <2>6. WatchInv'
    BY <1>4 DEF IInv, TypeOK, LockInv, WatchInv, SetUpstream
  <2>7. NoLostReady'
    BY <1>4 DEF IInv, TypeOK, LockInv, WatchInv, NoLostReady, SetUpstream
  <2>8. ProxyInv'
    BY <1>4 DEF IInv, TypeOK, LockInv, ProxyInv, SetUpstream
  <2>9. OwnProxyOrNone'
    BY <1>4 DEF IInv, TypeOK, LockInv, NoOrphan, ProxyInv, OwnProxyOrNone, SetUpstream
  <2> QED BY <2>1, <2>2, <2>3, <2>4, <2>5, <2>6, <2>7, <2>8, <2>9 DEF IInv
<1>5. ASSUME NEW c \in Callers, OpenFails(c) PROVE IInv'
  <2>1. TypeOK'
    BY <1>5 DEF IInv, TypeOK, OpenFails
  <2>2. LockInv'
    BY <1>5 DEF IInv, TypeOK, LockInv, OpenFails
  <2>3. HandsInv'
    BY <1>5 DEF IInv, TypeOK, LockInv, HandsInv, NoOrphan, OpenFails
  <2>4. NoOrphan'
    BY <1>5 DEF IInv, TypeOK, LockInv, HandsInv, NoOrphan, OpenFails
  <2>5. ClearInv'
    BY <1>5 DEF IInv, TypeOK, LockInv, ClearInv, OpenFails
  <2>6. WatchInv'
    BY <1>5 DEF IInv, TypeOK, LockInv, WatchInv, OpenFails
  <2>7. NoLostReady'
    BY <1>5 DEF IInv, TypeOK, LockInv, WatchInv, NoLostReady, OpenFails
  <2>8. ProxyInv'
    BY <1>5 DEF IInv, TypeOK, LockInv, ProxyInv, OpenFails
  <2>9. OwnProxyOrNone'
    BY <1>5 DEF IInv, TypeOK, LockInv, NoOrphan, ProxyInv, OwnProxyOrNone, OpenFails
  <2> QED BY <2>1, <2>2, <2>3, <2>4, <2>5, <2>6, <2>7, <2>8, <2>9 DEF IInv
<1>6. ASSUME NEW c \in Callers, NEW s \in Sessions, OpenDevice(c, s) PROVE IInv'
  <2>1. TypeOK'
    BY <1>6 DEF IInv, TypeOK, OpenDevice
  <2>2. LockInv'
    BY <1>6 DEF IInv, TypeOK, LockInv, OpenDevice
  <2>3. HandsInv'
    BY <1>6 DEF IInv, TypeOK, LockInv, HandsInv, NoOrphan, OpenDevice
  <2>4. NoOrphan'
    BY <1>6 DEF IInv, TypeOK, LockInv, HandsInv, NoOrphan, OpenDevice
  <2>5. ClearInv'
    BY <1>6 DEF IInv, TypeOK, LockInv, ClearInv, OpenDevice
  <2>6. WatchInv'
    BY <1>6 DEF IInv, TypeOK, LockInv, WatchInv, OpenDevice
  <2>7. NoLostReady'
    BY <1>6 DEF IInv, TypeOK, LockInv, WatchInv, NoLostReady, OpenDevice
  <2>8. ProxyInv'
    BY <1>6 DEF IInv, TypeOK, LockInv, ProxyInv, OpenDevice
  <2>9. OwnProxyOrNone'
    BY <1>6 DEF IInv, TypeOK, LockInv, NoOrphan, ProxyInv, OwnProxyOrNone, OpenDevice
  <2> QED BY <2>1, <2>2, <2>3, <2>4, <2>5, <2>6, <2>7, <2>8, <2>9 DEF IInv
<1>7. ASSUME NEW c \in Callers, AcceptStatus(c) PROVE IInv'
  <2>1. TypeOK'
    BY <1>7 DEF IInv, TypeOK, AcceptStatus
  <2>2. LockInv'
    BY <1>7 DEF IInv, TypeOK, LockInv, AcceptStatus
  <2>3. HandsInv'
    BY <1>7 DEF IInv, TypeOK, LockInv, HandsInv, NoOrphan, AcceptStatus
  <2>4. NoOrphan'
    BY <1>7 DEF IInv, TypeOK, LockInv, HandsInv, NoOrphan, AcceptStatus
  <2>5. ClearInv'
    BY <1>7 DEF IInv, TypeOK, LockInv, ClearInv, AcceptStatus
  <2>6. WatchInv'
    BY <1>7 DEF IInv, TypeOK, LockInv, WatchInv, AcceptStatus
  <2>7. NoLostReady'
    BY <1>7 DEF IInv, TypeOK, LockInv, WatchInv, NoLostReady, AcceptStatus
  <2>8. ProxyInv'
    BY <1>7 DEF IInv, TypeOK, LockInv, ProxyInv, AcceptStatus
  <2>9. OwnProxyOrNone'
    BY <1>7 DEF IInv, TypeOK, LockInv, NoOrphan, ProxyInv, OwnProxyOrNone, AcceptStatus
  <2> QED BY <2>1, <2>2, <2>3, <2>4, <2>5, <2>6, <2>7, <2>8, <2>9 DEF IInv
<1>8. ASSUME NEW c \in Callers, CheckStatus(c) PROVE IInv'
  <2>1. TypeOK'
    BY <1>8 DEF IInv, TypeOK, CheckStatus
  <2>2. LockInv'
    BY <1>8 DEF IInv, TypeOK, LockInv, CheckStatus
  <2>3. HandsInv'
    BY <1>8 DEF IInv, TypeOK, LockInv, HandsInv, NoOrphan, CheckStatus
  <2>4. NoOrphan'
    BY <1>8 DEF IInv, TypeOK, LockInv, HandsInv, NoOrphan, CheckStatus
  <2>5. ClearInv'
    BY <1>8 DEF IInv, TypeOK, LockInv, ClearInv, CheckStatus
  <2>6. WatchInv'
    BY <1>8 DEF IInv, TypeOK, LockInv, WatchInv, CheckStatus
  <2>7. NoLostReady'
    BY <1>8 DEF IInv, TypeOK, LockInv, WatchInv, NoLostReady, CheckStatus
  <2>8. ProxyInv'
    BY <1>8 DEF IInv, TypeOK, LockInv, ProxyInv, CheckStatus
  <2>9. OwnProxyOrNone'
    BY <1>8 DEF IInv, TypeOK, LockInv, NoOrphan, ProxyInv, OwnProxyOrNone, CheckStatus
  <2> QED BY <2>1, <2>2, <2>3, <2>4, <2>5, <2>6, <2>7, <2>8, <2>9 DEF IInv
<1>9. ASSUME NEW c \in Callers, WaitReady(c) PROVE IInv'
  <2>1. TypeOK'
    BY <1>9 DEF IInv, TypeOK, WaitReady
  <2>2. LockInv'
    BY <1>9 DEF IInv, TypeOK, LockInv, WaitReady
  <2>3. HandsInv'
    BY <1>9 DEF IInv, TypeOK, LockInv, HandsInv, NoOrphan, WaitReady
  <2>4. NoOrphan'
    BY <1>9 DEF IInv, TypeOK, LockInv, HandsInv, NoOrphan, WaitReady
  <2>5. ClearInv'
    BY <1>9 DEF IInv, TypeOK, LockInv, ClearInv, WaitReady
  <2>6. WatchInv'
    BY <1>9 DEF IInv, TypeOK, LockInv, WatchInv, WaitReady
  <2>7. NoLostReady'
    BY <1>9 DEF IInv, TypeOK, LockInv, WatchInv, NoLostReady, WaitReady
  <2>8. ProxyInv'
    BY <1>9 DEF IInv, TypeOK, LockInv, ProxyInv, WaitReady
  <2>9. OwnProxyOrNone'
    BY <1>9 DEF IInv, TypeOK, LockInv, NoOrphan, ProxyInv, OwnProxyOrNone, WaitReady
  <2> QED BY <2>1, <2>2, <2>3, <2>4, <2>5, <2>6, <2>7, <2>8, <2>9 DEF IInv
<1>10. ASSUME NEW c \in Callers, WaitTimeout(c) PROVE IInv'
  <2>1. TypeOK'
    BY <1>10 DEF IInv, TypeOK, WaitTimeout
  <2>2. LockInv'
    BY <1>10 DEF IInv, TypeOK, LockInv, WaitTimeout
  <2>3. HandsInv'
    BY <1>10 DEF IInv, TypeOK, LockInv, HandsInv, NoOrphan, WaitTimeout
  <2>4. NoOrphan'
    BY <1>10 DEF IInv, TypeOK, LockInv, HandsInv, NoOrphan, WaitTimeout
  <2>5. ClearInv'
    BY <1>10 DEF IInv, TypeOK, LockInv, ClearInv, WaitTimeout
  <2>6. WatchInv'
    BY <1>10 DEF IInv, TypeOK, LockInv, WatchInv, WaitTimeout
  <2>7. NoLostReady'
    BY <1>10 DEF IInv, TypeOK, LockInv, WatchInv, NoLostReady, WaitTimeout
  <2>8. ProxyInv'
    BY <1>10 DEF IInv, TypeOK, LockInv, ProxyInv, WaitTimeout
  <2>9. OwnProxyOrNone'
    BY <1>10 DEF IInv, TypeOK, LockInv, NoOrphan, ProxyInv, OwnProxyOrNone, WaitTimeout
  <2> QED BY <2>1, <2>2, <2>3, <2>4, <2>5, <2>6, <2>7, <2>8, <2>9 DEF IInv
<1>11. ASSUME NEW c \in Callers, BindFails(c) PROVE IInv'
  <2>1. TypeOK'
    BY <1>11 DEF IInv, TypeOK, BindFails
  <2>2. LockInv'
    BY <1>11 DEF IInv, TypeOK, LockInv, BindFails
  <2>3. HandsInv'
    BY <1>11 DEF IInv, TypeOK, LockInv, HandsInv, NoOrphan, BindFails
  <2>4. NoOrphan'
    BY <1>11 DEF IInv, TypeOK, LockInv, HandsInv, NoOrphan, BindFails
  <2>5. ClearInv'
    BY <1>11 DEF IInv, TypeOK, LockInv, ClearInv, BindFails
  <2>6. WatchInv'
    BY <1>11 DEF IInv, TypeOK, LockInv, WatchInv, BindFails
  <2>7. NoLostReady'
    BY <1>11 DEF IInv, TypeOK, LockInv, WatchInv, NoLostReady, BindFails
  <2>8. ProxyInv'
    BY <1>11 DEF IInv, TypeOK, LockInv, ProxyInv, BindFails
  <2>9. OwnProxyOrNone'
    BY <1>11 DEF IInv, TypeOK, LockInv, NoOrphan, ProxyInv, OwnProxyOrNone, BindFails
  <2> QED BY <2>1, <2>2, <2>3, <2>4, <2>5, <2>6, <2>7, <2>8, <2>9 DEF IInv
<1>12. ASSUME NEW c \in Callers, Bind(c) PROVE IInv'
  <2>1. TypeOK'
    BY <1>12 DEF IInv, TypeOK, Bind
  <2>2. LockInv'
    BY <1>12 DEF IInv, TypeOK, LockInv, Bind
  <2>3. HandsInv'
    BY <1>12 DEF IInv, TypeOK, LockInv, HandsInv, NoOrphan, Bind
  <2>4. NoOrphan'
    BY <1>12 DEF IInv, TypeOK, LockInv, HandsInv, NoOrphan, Bind
  <2>5. ClearInv'
    BY <1>12 DEF IInv, TypeOK, LockInv, ClearInv, Bind
  <2>6. WatchInv'
    BY <1>12 DEF IInv, TypeOK, LockInv, WatchInv, Bind
  <2>7. NoLostReady'
    BY <1>12 DEF IInv, TypeOK, LockInv, WatchInv, NoLostReady, Bind
  <2>8. ProxyInv'
    BY <1>12 DEF IInv, TypeOK, LockInv, ProxyInv, Bind
  <2>9. OwnProxyOrNone'
    BY <1>12 DEF IInv, TypeOK, LockInv, NoOrphan, ProxyInv, OwnProxyOrNone, Bind
  <2> QED BY <2>1, <2>2, <2>3, <2>4, <2>5, <2>6, <2>7, <2>8, <2>9 DEF IInv
<1>13. ASSUME NEW c \in Callers, Undo(c) PROVE IInv'
  <2>1. TypeOK'
    BY <1>13 DEF IInv, TypeOK, Undo
  <2>2. LockInv'
    BY <1>13 DEF IInv, TypeOK, LockInv, Undo
  <2>3. HandsInv'
    BY <1>13 DEF IInv, TypeOK, LockInv, HandsInv, NoOrphan, Undo
  <2>4. NoOrphan'
    BY <1>13 DEF IInv, TypeOK, LockInv, HandsInv, NoOrphan, Undo
  <2>5. ClearInv'
    BY <1>13 DEF IInv, TypeOK, LockInv, ClearInv, Undo
  <2>6. WatchInv'
    BY <1>13 DEF IInv, TypeOK, LockInv, WatchInv, Undo
  <2>7. NoLostReady'
    BY <1>13 DEF IInv, TypeOK, LockInv, WatchInv, NoLostReady, Undo
  <2>8. ProxyInv'
    BY <1>13 DEF IInv, TypeOK, LockInv, ProxyInv, Undo
  <2>9. OwnProxyOrNone'
    BY <1>13 DEF IInv, TypeOK, LockInv, NoOrphan, ProxyInv, OwnProxyOrNone, Undo
  <2> QED BY <2>1, <2>2, <2>3, <2>4, <2>5, <2>6, <2>7, <2>8, <2>9 DEF IInv
<1>14. ASSUME WindowChanges PROVE IInv'
  <2>1. TypeOK'
    BY <1>14 DEF IInv, TypeOK, WindowChanges
  <2>2. LockInv'
    BY <1>14 DEF IInv, TypeOK, LockInv, WindowChanges
  <2>3. HandsInv'
    BY <1>14 DEF IInv, TypeOK, LockInv, HandsInv, NoOrphan, WindowChanges
  <2>4. NoOrphan'
    BY <1>14 DEF IInv, TypeOK, LockInv, HandsInv, NoOrphan, WindowChanges
  <2>5. ClearInv'
    BY <1>14 DEF IInv, TypeOK, LockInv, ClearInv, WindowChanges
  <2>6. WatchInv'
    BY <1>14 DEF IInv, TypeOK, LockInv, WatchInv, WindowChanges
  <2>7. NoLostReady'
    BY <1>14 DEF IInv, TypeOK, LockInv, WatchInv, NoLostReady, WindowChanges
  <2>8. ProxyInv'
    BY <1>14 DEF IInv, TypeOK, LockInv, ProxyInv, WindowChanges
  <2>9. OwnProxyOrNone'
    BY <1>14 DEF IInv, TypeOK, LockInv, NoOrphan, ProxyInv, OwnProxyOrNone, WindowChanges
  <2> QED BY <2>1, <2>2, <2>3, <2>4, <2>5, <2>6, <2>7, <2>8, <2>9 DEF IInv
<1>15. ASSUME WindowStatusChanged PROVE IInv'
  <2>1. TypeOK'
    BY <1>15 DEF IInv, TypeOK, WindowStatusChanged
  <2>2. LockInv'
    BY <1>15 DEF IInv, TypeOK, LockInv, WindowStatusChanged
  <2>3. HandsInv'
    BY <1>15 DEF IInv, TypeOK, LockInv, HandsInv, NoOrphan, WindowStatusChanged
  <2>4. NoOrphan'
    BY <1>15 DEF IInv, TypeOK, LockInv, HandsInv, NoOrphan, WindowStatusChanged
  <2>5. ClearInv'
    BY <1>15 DEF IInv, TypeOK, LockInv, ClearInv, WindowStatusChanged
  <2>6. WatchInv'
    BY <1>15 DEF IInv, TypeOK, LockInv, WatchInv, WindowStatusChanged
  <2>7. NoLostReady'
    BY <1>15 DEF IInv, TypeOK, LockInv, WatchInv, NoLostReady, WindowStatusChanged
  <2>8. ProxyInv'
    BY <1>15 DEF IInv, TypeOK, LockInv, ProxyInv, WindowStatusChanged
  <2>9. OwnProxyOrNone'
    BY <1>15 DEF IInv, TypeOK, LockInv, NoOrphan, ProxyInv, OwnProxyOrNone, WindowStatusChanged
  <2> QED BY <2>1, <2>2, <2>3, <2>4, <2>5, <2>6, <2>7, <2>8, <2>9 DEF IInv
<1>16. ASSUME NEW c \in Callers, Stop(c) PROVE IInv'
  <2>1. TypeOK'
    BY <1>16 DEF IInv, TypeOK, Stop
  <2>2. LockInv'
    BY <1>16 DEF IInv, TypeOK, LockInv, Stop
  <2>3. HandsInv'
    BY <1>16 DEF IInv, TypeOK, LockInv, HandsInv, NoOrphan, Stop
  <2>4. NoOrphan'
    BY <1>16 DEF IInv, TypeOK, LockInv, HandsInv, NoOrphan, Stop
  <2>5. ClearInv'
    BY <1>16 DEF IInv, TypeOK, LockInv, ClearInv, Stop
  <2>6. WatchInv'
    BY <1>16 DEF IInv, TypeOK, LockInv, WatchInv, Stop
  <2>7. NoLostReady'
    BY <1>16 DEF IInv, TypeOK, LockInv, WatchInv, NoLostReady, Stop
  <2>8. ProxyInv'
    BY <1>16 DEF IInv, TypeOK, LockInv, ProxyInv, Stop
  <2>9. OwnProxyOrNone'
    BY <1>16 DEF IInv, TypeOK, LockInv, NoOrphan, ProxyInv, OwnProxyOrNone, Stop
  <2> QED BY <2>1, <2>2, <2>3, <2>4, <2>5, <2>6, <2>7, <2>8, <2>9 DEF IInv
<1>17. ASSUME NEW c \in Callers, StopTake(c) PROVE IInv'
  <2>1. TypeOK'
    BY <1>17 DEF IInv, TypeOK, StopTake
  <2>2. LockInv'
    BY <1>17 DEF IInv, TypeOK, LockInv, StopTake
  <2>3. HandsInv'
    BY <1>17 DEF IInv, TypeOK, LockInv, HandsInv, NoOrphan, StopTake
  <2>4. NoOrphan'
    BY <1>17 DEF IInv, TypeOK, LockInv, HandsInv, NoOrphan, StopTake
  <2>5. ClearInv'
    BY <1>17 DEF IInv, TypeOK, LockInv, ClearInv, StopTake
  <2>6. WatchInv'
    BY <1>17 DEF IInv, TypeOK, LockInv, WatchInv, StopTake
  <2>7. NoLostReady'
    BY <1>17 DEF IInv, TypeOK, LockInv, WatchInv, NoLostReady, StopTake
  <2>8. ProxyInv'
    BY <1>17 DEF IInv, TypeOK, LockInv, ProxyInv, StopTake
  <2>9. OwnProxyOrNone'
    BY <1>17 DEF IInv, TypeOK, LockInv, NoOrphan, ProxyInv, OwnProxyOrNone, StopTake
  <2> QED BY <2>1, <2>2, <2>3, <2>4, <2>5, <2>6, <2>7, <2>8, <2>9 DEF IInv
<1>18. ASSUME NEW c \in Callers, StopNothing(c) PROVE IInv'
  <2>1. TypeOK'
    BY <1>18 DEF IInv, TypeOK, StopNothing
  <2>2. LockInv'
    BY <1>18 DEF IInv, TypeOK, LockInv, StopNothing
  <2>3. HandsInv'
    BY <1>18 DEF IInv, TypeOK, LockInv, HandsInv, NoOrphan, StopNothing
  <2>4. NoOrphan'
    BY <1>18 DEF IInv, TypeOK, LockInv, HandsInv, NoOrphan, StopNothing
  <2>5. ClearInv'
    BY <1>18 DEF IInv, TypeOK, LockInv, ClearInv, StopNothing
  <2>6. WatchInv'
    BY <1>18 DEF IInv, TypeOK, LockInv, WatchInv, StopNothing
  <2>7. NoLostReady'
    BY <1>18 DEF IInv, TypeOK, LockInv, WatchInv, NoLostReady, StopNothing
  <2>8. ProxyInv'
    BY <1>18 DEF IInv, TypeOK, LockInv, ProxyInv, StopNothing
  <2>9. OwnProxyOrNone'
    BY <1>18 DEF IInv, TypeOK, LockInv, NoOrphan, ProxyInv, OwnProxyOrNone, StopNothing
  <2> QED BY <2>1, <2>2, <2>3, <2>4, <2>5, <2>6, <2>7, <2>8, <2>9 DEF IInv
<1>19. ASSUME NEW c \in Callers, CloseListener(c) PROVE IInv'
  <2>1. TypeOK'
    BY <1>19 DEF IInv, TypeOK, CloseListener
  <2>2. LockInv'
    BY <1>19 DEF IInv, TypeOK, LockInv, CloseListener
  <2>3. HandsInv'
    BY <1>19 DEF IInv, TypeOK, LockInv, HandsInv, NoOrphan, CloseListener
  <2>4. NoOrphan'
    BY <1>19 DEF IInv, TypeOK, LockInv, HandsInv, NoOrphan, CloseListener
  <2>5. ClearInv'
    BY <1>19 DEF IInv, TypeOK, LockInv, ClearInv, CloseListener
  <2>6. WatchInv'
    BY <1>19 DEF IInv, TypeOK, LockInv, WatchInv, CloseListener
  <2>7. NoLostReady'
    BY <1>19 DEF IInv, TypeOK, LockInv, WatchInv, NoLostReady, CloseListener
  <2>8. ProxyInv'
    BY <1>19 DEF IInv, TypeOK, LockInv, ProxyInv, CloseListener
  <2>9. OwnProxyOrNone'
    BY <1>19 DEF IInv, TypeOK, LockInv, NoOrphan, ProxyInv, OwnProxyOrNone, CloseListener
  <2> QED BY <2>1, <2>2, <2>3, <2>4, <2>5, <2>6, <2>7, <2>8, <2>9 DEF IInv
<1>20. ASSUME NEW c \in Callers, CloseDevice(c) PROVE IInv'
  <2>1. TypeOK'
    BY <1>20 DEF IInv, TypeOK, CloseDevice
  <2>2. LockInv'
    BY <1>20 DEF IInv, TypeOK, LockInv, CloseDevice
  <2>3. HandsInv'
    BY <1>20 DEF IInv, TypeOK, LockInv, HandsInv, NoOrphan, CloseDevice
  <2>4. NoOrphan'
    BY <1>20 DEF IInv, TypeOK, LockInv, HandsInv, NoOrphan, CloseDevice
  <2>5. ClearInv'
    BY <1>20 DEF IInv, TypeOK, LockInv, ClearInv, CloseDevice
  <2>6. WatchInv'
    BY <1>20 DEF IInv, TypeOK, LockInv, WatchInv, CloseDevice
  <2>7. NoLostReady'
    BY <1>20 DEF IInv, TypeOK, LockInv, WatchInv, NoLostReady, CloseDevice
  <2>8. ProxyInv'
    BY <1>20 DEF IInv, TypeOK, LockInv, ProxyInv, CloseDevice
  <2>9. OwnProxyOrNone'
    BY <1>20 DEF IInv, TypeOK, LockInv, NoOrphan, ProxyInv, OwnProxyOrNone, CloseDevice
  <2> QED BY <2>1, <2>2, <2>3, <2>4, <2>5, <2>6, <2>7, <2>8, <2>9 DEF IInv
<1>21. ASSUME NEW c \in Callers, ClearUpstream(c) PROVE IInv'
  <2>1. TypeOK'
    BY <1>21 DEF IInv, TypeOK, ClearUpstream
  <2>2. LockInv'
    BY <1>21 DEF IInv, TypeOK, LockInv, ClearUpstream
  <2>3. HandsInv'
    BY <1>21 DEF IInv, TypeOK, LockInv, HandsInv, NoOrphan, ClearUpstream
  <2>4. NoOrphan'
    BY <1>21 DEF IInv, TypeOK, LockInv, HandsInv, NoOrphan, ClearUpstream
  <2>5. ClearInv'
    BY <1>21 DEF IInv, TypeOK, LockInv, ClearInv, ClearUpstream
  <2>6. WatchInv'
    BY <1>21 DEF IInv, TypeOK, LockInv, WatchInv, ClearUpstream
  <2>7. NoLostReady'
    BY <1>21 DEF IInv, TypeOK, LockInv, WatchInv, NoLostReady, ClearUpstream
  <2>8. ProxyInv'
    BY <1>21 DEF IInv, TypeOK, LockInv, ProxyInv, ClearUpstream
  <2>9. OwnProxyOrNone'
    BY <1>21 DEF IInv, TypeOK, LockInv, NoOrphan, ProxyInv, OwnProxyOrNone, ClearUpstream
  <2> QED BY <2>1, <2>2, <2>3, <2>4, <2>5, <2>6, <2>7, <2>8, <2>9 DEF IInv
<1>22. CASE UNCHANGED vars
  BY <1>22 DEF vars, IInv, TypeOK, LockInv, HandsInv, NoOrphan, ClearInv, WatchInv, NoLostReady,
     ProxyInv, OwnProxyOrNone
<1> QED
  BY <1>1, <1>2, <1>3, <1>4, <1>5, <1>6, <1>7, <1>8, <1>9, <1>10, <1>11, <1>12, <1>13,
     <1>14, <1>15, <1>16, <1>17, <1>18, <1>19, <1>20, <1>21, <1>22
  DEF Next, Running, Locking

LEMMA SpecIInv == Spec => []IInv
  BY InitIInv, NextIInv, PTL DEF Spec

\* No path of urStart or urStop loses a device or a listener.
THEOREM NothingIsOrphaned == Spec => []NoOrphan
<1>1. IInv => NoOrphan
  BY DEF IInv
<1> QED BY <1>1, SpecIInv, PTL

\* With no call and no session left, nothing is open and no proxy in force.
THEOREM IdleBridgeIsClean == Spec => []IdleIsClean
<1>1. IInv => IdleIsClean
  BY NoneAssumption
  DEF IInv, TypeOK, NoOrphan, ClearInv, IdleIsClean, Starting, Opening, Closing
<1> QED BY <1>1, SpecIInv, PTL

\* A start that waits misses no status change of the window.
THEOREM ReadinessIsNotLost == Spec => []NoLostReady
<1>1. IInv => NoLostReady
  BY DEF IInv
<1> QED BY <1>1, SpecIInv, PTL

\* The session in service never goes out through another start's proxy.
THEOREM NobodyElsesProxy == Spec => []OwnProxyOrNone
<1>1. IInv => OwnProxyOrNone
  BY DEF IInv
<1> QED BY <1>1, SpecIInv, PTL

\* The bridge's variables keep their types, and a call has a session in its
\* hands exactly while it opens or closes one (urnetwork_bridge.go).
THEOREM TypeCorrect == Spec => []TypeOK
<1>1. IInv => TypeOK
  BY DEF IInv
<1> QED BY <1>1, SpecIInv, PTL
-----------------------------------------------------------------------------
(* The sessions, one by one, as EngineLife describes them.                *)

\* A step that moves one session, or none.
Keeps(e) == \A s \in Sessions \ {e} : LifeOf(s)' = LifeOf(s)

LEMMA LifeStays ==
  ASSUME \A s \in Sessions : LifeOf(s)' = LifeOf(s)
  PROVE  UNCHANGED [s \in Sessions |-> LifeOf(s)]
OBVIOUS

\* What a move of one session is to EngineLife.
LEMMA LifeMoves ==
  ASSUME NEW e \in Sessions, Keeps(e),
         \/ LifeOf(e) = "free" /\ LifeOf(e)' = "opening"
         \/ /\ LifeOf(e) = "opening" /\ LifeOf(e)' = "running"
            /\ \A s \in Sessions : LifeOf(s) # "running"
         \/ LifeOf(e) = "opening" /\ LifeOf(e)' = "closing"
         \/ LifeOf(e) = "running" /\ LifeOf(e)' = "closing"
         \/ LifeOf(e) # "free" /\ LifeOf(e)' = "free"
  PROVE  Life!LifeNext
<1> DEFINE f == [s \in Sessions |-> LifeOf(s)]
<1>1. ASSUME NEW v, LifeOf(e)' = v PROVE f' = [f EXCEPT ![e] = v]
  BY <1>1 DEF Keeps
<1>2. \A s \in Sessions : f[s] = LifeOf(s)
  OBVIOUS
<1> HIDE DEF f
<1> USE <1>1, <1>2 DEF Life!Move, Life!Open, Life!Publish, Life!Abandon, Life!Withdraw,
   Life!Close, f
<1> QED BY DEF Life!LifeNext

\* Every step of the bridge moves one session at most, as EngineLife allows.
LEMMA LifeStep == IInv /\ [Next]_vars => [Life!LifeNext]_([s \in Sessions |-> LifeOf(s)])
<1> SUFFICES ASSUME IInv, [Next]_vars
             PROVE  Life!LifeNext \/ UNCHANGED [s \in Sessions |-> LifeOf(s)]
  OBVIOUS
<1> USE NoneAssumption DEF IInv, TypeOK, Goto, call, watch
<1> DEFINE Goal == Life!LifeNext \/ UNCHANGED [s \in Sessions |-> LifeOf(s)]
<1>1. ASSUME NEW c \in Callers, NEW u \in Upstreams, Start(c, u) PROVE Goal
  BY <1>1, LifeStays DEF Start, LifeOf, Opening
<1>2. ASSUME NEW c \in Callers, AlreadyRunning(c) PROVE Goal
  BY <1>2, LifeStays DEF AlreadyRunning, LifeOf, Opening, Closing
<1>3. ASSUME NEW c \in Callers, StartLock(c) PROVE Goal
  BY <1>3, LifeStays DEF StartLock, LifeOf, Opening, Closing
<1>4. ASSUME NEW c \in Callers, SetUpstream(c) PROVE Goal
  BY <1>4, LifeStays DEF SetUpstream, LifeOf, Opening, Closing
<1>5. ASSUME NEW c \in Callers, OpenFails(c) PROVE Goal
  BY <1>5, LifeStays DEF OpenFails, LifeOf, Opening, Closing
<1>6. ASSUME NEW c \in Callers, AcceptStatus(c) PROVE Goal
  BY <1>6, LifeStays DEF AcceptStatus, LifeOf, Opening, Closing
<1>7. ASSUME NEW c \in Callers, CheckStatus(c) PROVE Goal
  BY <1>7, LifeStays DEF CheckStatus, LifeOf, Opening, Closing
<1>8. ASSUME NEW c \in Callers, WaitReady(c) PROVE Goal
  BY <1>8, LifeStays DEF WaitReady, LifeOf, Opening, Closing
<1>9. ASSUME NEW c \in Callers, Undo(c) PROVE Goal
  BY <1>9, LifeStays DEF Undo, LifeOf, Opening, Closing
<1>10. ASSUME NEW c \in Callers, Stop(c) PROVE Goal
  BY <1>10, LifeStays DEF Stop, LifeOf, Opening, Closing
<1>11. ASSUME NEW c \in Callers, StopNothing(c) PROVE Goal
  BY <1>11, LifeStays DEF StopNothing, LifeOf, Opening, Closing
<1>12. ASSUME NEW c \in Callers, CloseListener(c) PROVE Goal
  BY <1>12, LifeStays DEF CloseListener, LifeOf, Opening, Closing, HandsInv
<1>13. ASSUME NEW c \in Callers, ClearUpstream(c) PROVE Goal
  BY <1>13, LifeStays DEF ClearUpstream, LifeOf, Opening, Closing
<1>14. ASSUME NEW c \in Callers, NEW s \in Sessions, OpenDevice(c, s) PROVE Goal
  <2>1. LifeOf(s) = "free" /\ LifeOf(s)' = "opening"
    BY <1>14 DEF OpenDevice, LifeOf, Opening, LockInv, Starting, NoOrphan
  <2>2. Keeps(s)
    BY <1>14 DEF OpenDevice, LifeOf, Keeps, Opening
  <2> QED BY <2>1, <2>2, LifeMoves
<1>15. ASSUME NEW c \in Callers, WaitTimeout(c) PROVE Goal
  <2>1. mine[c] \in Sessions /\ dev[mine[c]] = "open" /\ cur # mine[c] /\ ln[mine[c]] = "free"
    BY <1>15 DEF WaitTimeout, HandsInv, NoOrphan, Opening, Closing
  <2>2. \A s \in Sessions : s = mine[c] => LifeOf(s) # "free" /\ LifeOf(s)' = "free"
    BY <1>15, <2>1 DEF WaitTimeout, LifeOf
  <2>3. ASSUME NEW s \in Sessions, s # mine[c] PROVE LifeOf(s)' = LifeOf(s)
    BY <1>15, <2>1, <2>3 DEF WaitTimeout, LifeOf, Opening
  <2>4. \A s \in Sessions : s = mine[c] => Keeps(s)
    BY <2>3 DEF Keeps
  <2> QED BY <2>1, <2>2, <2>4, LifeMoves
<1>16. ASSUME NEW c \in Callers, BindFails(c) PROVE Goal
  <2>1. mine[c] \in Sessions /\ dev[mine[c]] = "open" /\ cur # mine[c] /\ ln[mine[c]] = "free"
    BY <1>16 DEF BindFails, HandsInv, NoOrphan, Opening, Closing
  <2>2. \A s \in Sessions : s = mine[c] => LifeOf(s) # "free" /\ LifeOf(s)' = "free"
    BY <1>16, <2>1 DEF BindFails, LifeOf
  <2>3. ASSUME NEW s \in Sessions, s # mine[c] PROVE LifeOf(s)' = LifeOf(s)
    BY <1>16, <2>1, <2>3 DEF BindFails, LifeOf, Opening
  <2>4. \A s \in Sessions : s = mine[c] => Keeps(s)
    BY <2>3 DEF Keeps
  <2> QED BY <2>1, <2>2, <2>4, LifeMoves
<1>17. ASSUME NEW c \in Callers, CloseDevice(c) PROVE Goal
  <2>1. mine[c] \in Sessions /\ dev[mine[c]] = "open" /\ cur # mine[c] /\ ln[mine[c]] = "free"
    BY <1>17 DEF CloseDevice, HandsInv, NoOrphan, Opening, Closing
  <2>2. \A s \in Sessions : s = mine[c] => LifeOf(s) # "free" /\ LifeOf(s)' = "free"
    BY <1>17, <2>1 DEF CloseDevice, LifeOf
  <2>3. ASSUME NEW s \in Sessions, s # mine[c] PROVE LifeOf(s)' = LifeOf(s)
    BY <1>17, <2>1, <2>3 DEF CloseDevice, LifeOf, Opening
  <2>4. \A s \in Sessions : s = mine[c] => Keeps(s)
    BY <2>3 DEF Keeps
  <2> QED BY <2>1, <2>2, <2>4, LifeMoves
<1>18. ASSUME NEW c \in Callers, Bind(c) PROVE Goal
  <2>1. mine[c] \in Sessions /\ dev[mine[c]] = "open" /\ cur = None /\ pc[c] \in Opening
    BY <1>18 DEF Bind, HandsInv, LockInv, Starting, Opening
  <2>2. \A s \in Sessions : s = mine[c] => LifeOf(s) = "opening" /\ LifeOf(s)' = "running"
    BY <1>18, <2>1 DEF Bind, LifeOf
  <2>3. ASSUME NEW s \in Sessions, s # mine[c] PROVE LifeOf(s)' = LifeOf(s) /\ LifeOf(s) # "running"
    BY <1>18, <2>1, <2>3 DEF Bind, LifeOf, Opening
  <2>4. \A s \in Sessions : s = mine[c] => Keeps(s)
    BY <2>3 DEF Keeps
  <2> QED BY <2>1, <2>2, <2>3, <2>4, LifeMoves
<1>19. ASSUME NEW c \in Callers, StopTake(c) PROVE Goal
  <2>1. cur \in Sessions /\ dev[cur] = "open" /\ \A d \in Callers : mine[d] # cur
    BY <1>19 DEF StopTake, NoOrphan
  <2>2. \A s \in Sessions : s = cur => LifeOf(s) = "running" /\ LifeOf(s)' = "closing"
    BY <1>19, <2>1 DEF StopTake, LifeOf, Opening
  <2>3. ASSUME NEW s \in Sessions, s # cur PROVE LifeOf(s)' = LifeOf(s)
    BY <1>19, <2>1, <2>3 DEF StopTake, LifeOf, Opening
  <2>4. \A s \in Sessions : s = cur => Keeps(s)
    BY <2>3 DEF Keeps
  <2> QED BY <2>1, <2>2, <2>4, LifeMoves
<1>20. CASE WindowChanges \/ WindowStatusChanged \/ UNCHANGED vars
  BY <1>20, LifeStays DEF WindowChanges, WindowStatusChanged, vars, LifeOf
<1> QED
  BY <1>1, <1>2, <1>3, <1>4, <1>5, <1>6, <1>7, <1>8, <1>9, <1>10, <1>11, <1>12, <1>13,
     <1>14, <1>15, <1>16, <1>17, <1>18, <1>19, <1>20
  DEF Next, Running, Locking

\* PRUrStart and PRUrStop keep the promise of EngineLife: the bridge runs one
\* session at a time, a start never replaces it, and a session that was
\* withdrawn or failed to start is closed and not registered again.
THEOREM BridgeImplementsLife == Spec => ImplementsLife
<1>1. Init => Life!LifeInit
  BY NoneAssumption DEF Init, Life!LifeInit, LifeOf
<1> QED BY <1>1, LifeStep, SpecIInv, PTL DEF Spec, ImplementsLife, Life!LifeSpec
=============================================================================
