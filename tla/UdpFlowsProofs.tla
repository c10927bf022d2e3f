--------------------------- MODULE UdpFlowsProofs ---------------------------
(***************************************************************************)
(* Proofs about UdpFlows for any keys, connections, workers and limit.     *)
(***************************************************************************)
EXTENDS UdpFlows, FiniteSetTheorems, TLAPS

\* The worker that dials holds the mutex, its key stays free meanwhile, and
\* the sweep of close waits for it once it has passed the context check.
DialInv ==
    \A w \in Workers :
        /\ pc[w] \in {"dial", "connect"} <=> mu = w
        /\ pc[w] \in {"dial", "connect"} => flows[job[w]] = None
        /\ pc[w] = "connect" => stage # "swept"

\* A reader that has not deleted yet finds its own connection under its key,
\* unless the sweep emptied the table.
ReaderInv ==
    \A c \in Conns :
        /\ rdr[c] = "none" <=> conn[c] = "free"
        /\ rdr[c] \in {"read", "delete"} /\ stage # "swept" => flows[key[c]] = c
        /\ rdr[c] = "read" /\ stage = "swept" => conn[c] = "closed"
        /\ conn[c] = "closed" => stage = "swept"

SweptInv == stage = "swept" => \A k \in Keys : flows[k] = None

\* DeletesOwn is about a key, and needs that no forwarder can enter a second
\* connection under it: the mutex is held from the lookup to the entry
\* (DialInv) and a flow stays until its own reader deletes it (ReaderInv).
IInv == TypeOK /\ DialInv /\ ReaderInv /\ FlowHasReader /\ SweptInv

LEMMA InitIInv == Init => IInv
  BY WorkersAssumption, ConnsAssumption
  DEF Init, IInv, TypeOK, DialInv, ReaderInv, FlowHasReader, SweptInv

LEMMA NextIInv == IInv /\ [Next]_vars => IInv'
<1> SUFFICES ASSUME IInv, [Next]_vars PROVE IInv'
  OBVIOUS
<1> USE WorkersAssumption, ConnsAssumption
    DEF IInv, TypeOK, DialInv, ReaderInv, FlowHasReader, SweptInv
<1>1. ASSUME NEW w \in Workers, NEW k \in Keys, Receive(w, k) PROVE IInv'
  BY <1>1 DEF Receive
<1>2. ASSUME NEW w \in Workers, LookupHit(w) PROVE IInv'
  BY <1>2 DEF LookupHit
<1>3. ASSUME NEW w \in Workers, LookupMiss(w) PROVE IInv'
  BY <1>3 DEF LookupMiss
<1>4. ASSUME NEW w \in Workers, LookupFull(w) PROVE IInv'
  BY <1>4 DEF LookupFull
<1>5. ASSUME NEW w \in Workers, NEW c \in Conns, DialOK(w, c) PROVE IInv'
  BY <1>5 DEF DialOK
<1>15. ASSUME NEW w \in Workers, DialCheck(w) PROVE IInv'
  BY <1>15 DEF DialCheck
<1>6. ASSUME NEW w \in Workers, DialFail(w) PROVE IInv'
  BY <1>6 DEF DialFail
<1>7. ASSUME NEW w \in Workers, Write(w) PROVE IInv'
  BY <1>7 DEF Write
<1>8. ASSUME NEW c \in Conns, ReadFails(c) PROVE IInv'
  BY <1>8 DEF ReadFails
<1>9. ASSUME NEW c \in Conns, ReaderDelete(c) PROVE IInv'
  BY <1>9 DEF ReaderDelete
<1>10. ASSUME NEW c \in Conns, ReaderClose(c) PROVE IInv'
  BY <1>10 DEF ReaderClose
<1>11. CASE CloseCancel
  BY <1>11 DEF CloseCancel
<1>12. CASE CloseSockets
  BY <1>12 DEF CloseSockets
<1>13. CASE CloseSweep
  BY <1>13 DEF CloseSweep
<1>14. CASE UNCHANGED vars
  BY <1>14 DEF vars
<1> QED
  BY <1>1, <1>2, <1>3, <1>4, <1>5, <1>6, <1>7, <1>8, <1>9, <1>10, <1>11, <1>12, <1>13,
     <1>14, <1>15
  DEF Next, Forward

LEMMA SpecIInv == Spec => []IInv
  BY InitIInv, NextIInv, PTL DEF Spec

\* Every entry of a flow table is served by a live reader of its own key.
THEOREM FlowsAreServed == Spec => []FlowHasReader
<1>1. IInv => FlowHasReader
  BY DEF IInv
<1> QED BY <1>1, SpecIInv, PTL

\* The deferred delete by key never removes somebody else's flow.
THEOREM ReadersDeleteTheirOwn == Spec => []DeletesOwn
<1>1. IInv => DeletesOwn
  BY DEF IInv, TypeOK, ReaderInv, SweptInv, DeletesOwn
<1> QED BY <1>1, SpecIInv, PTL

\* No flow outlives the sweep of close, whatever was being dialled.
THEOREM NothingEntersAfterClose == Spec => []NothingAfterSweep
<1>1. IInv => NothingAfterSweep
  BY DEF IInv, ReaderInv, SweptInv, NothingAfterSweep, Live
<1> QED BY <1>1, SpecIInv, PTL

\* The types of the table and of its goroutines (mobile.go, udpFlows).
THEOREM TypeCorrect == Spec => []TypeOK
<1>1. IInv => TypeOK
  BY DEF IInv
<1> QED BY <1>1, SpecIInv, PTL

-----------------------------------------------------------------------------
(* The limit of the table.                                                 *)

\* The worker that found room keeps it until it enters its flow.
RoomInv ==
    /\ IsFiniteSet(Live) /\ FlowsBounded
    /\ mu # None => Cardinality(Live) < MaxFlows

LEMMA NextRoomInv == IInv /\ RoomInv /\ [Next]_vars => RoomInv'
<1> SUFFICES ASSUME IInv, RoomInv, [Next]_vars PROVE RoomInv'
  OBVIOUS
<1> USE FlowsAssumption, WorkersAssumption, ConnsAssumption DEF RoomInv, FlowsBounded
<1>1. Cardinality(Live) \in Nat
  BY FS_CardinalityType
<1>2. CASE UNCHANGED flows /\ (mu' = mu \/ mu' = None \/ Cardinality(Live) < MaxFlows)
  BY <1>1, <1>2 DEF Live
<1>3. ASSUME NEW w \in Workers, NEW c \in Conns, DialOK(w, c) PROVE RoomInv'
  <2>1. mu = w /\ mu' = None /\ job[w] \in Keys /\ job[w] \notin Live /\ Live' = Live \cup {job[w]}
    BY <1>3 DEF DialOK, IInv, TypeOK, DialInv, Live
  <2>2. IsFiniteSet(Live') /\ Cardinality(Live') = Cardinality(Live) + 1
    BY <2>1, FS_AddElement
  <2> QED BY <1>1, <2>1, <2>2
<1>4. ASSUME NEW c \in Conns, ReaderDelete(c) PROVE RoomInv'
  <2>1. mu' = None /\ Live' \subseteq Live
    BY <1>4 DEF ReaderDelete, IInv, TypeOK, Live
  <2>2. IsFiniteSet(Live') /\ Cardinality(Live') <= Cardinality(Live)
    BY <2>1, FS_Subset
  <2>3. Cardinality(Live') \in Nat
    BY <2>2, FS_CardinalityType
  <2> QED BY <1>1, <2>1, <2>2, <2>3
<1>5. CASE CloseSweep
  <2>1. mu' = None /\ Live' = {}
    BY <1>5 DEF CloseSweep, Live
  <2> QED BY <2>1, FS_EmptySet
<1>6. ASSUME NEW w \in Workers, LookupMiss(w) PROVE RoomInv'
  BY <1>2, <1>6 DEF LookupMiss
<1>7. ASSUME NEW w \in Workers, LookupHit(w) \/ LookupFull(w) \/ DialCheck(w) \/ DialFail(w) \/ Write(w)
      PROVE  RoomInv'
  BY <1>2, <1>7 DEF LookupHit, LookupFull, DialCheck, DialFail, Write
<1>8. ASSUME NEW w \in Workers, NEW k \in Keys, Receive(w, k) PROVE RoomInv'
  BY <1>2, <1>8 DEF Receive
<1>9. ASSUME NEW c \in Conns, ReadFails(c) \/ ReaderClose(c) PROVE RoomInv'
  BY <1>2, <1>9 DEF ReadFails, ReaderClose
<1>10. CASE CloseCancel \/ CloseSockets \/ UNCHANGED vars
  BY <1>2, <1>10 DEF CloseCancel, CloseSockets, vars
<1> QED
  BY <1>3, <1>4, <1>5, <1>6, <1>7, <1>8, <1>9, <1>10 DEF Next, Forward

\* The check of the limit and the entry are one critical section: however
\* long a dial takes, the table never holds more than its limit
\* (mobile.go, forwardUDP).
THEOREM TableIsBounded == Spec => []FlowsBounded
<1>1. Init => RoomInv
  <2>1. Init => Live = {} /\ mu = None
    BY DEF Init, Live
  <2> QED BY <2>1, FlowsAssumption, FS_EmptySet DEF RoomInv, FlowsBounded
<1>2. RoomInv => FlowsBounded
  BY DEF RoomInv
<1> QED BY <1>1, <1>2, NextRoomInv, SpecIInv, PTL DEF Spec
=============================================================================
