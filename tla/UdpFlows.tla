------------------------------ MODULE UdpFlows ------------------------------
(***************************************************************************)
(* The UDP flow tables of usque-ios/mobile/mobile.go: the SOCKS server's   *)
(* (serveUDP, forwardUDP, readUDPReply, socksServer.close) and the hop     *)
(* relay's (udpRelay.serve, readReplies, close). Both follow one protocol: *)
(* a datagram's flow is looked up, and dialled if missing, under the       *)
(* table's mutex; every flow has a reader goroutine that deletes it; close *)
(* cancels the context, closes the local socket and sweeps the table.      *)
(*                                                                         *)
(* Workers are the goroutines that forward datagrams: the 256 places of    *)
(* udpSem in the SOCKS server, the single serve loop in the hop relay,     *)
(* whose table has no limit (MaxFlows = the number of keys).               *)
(***************************************************************************)
EXTENDS Naturals, FiniteSets

CONSTANTS
    Keys,       \* client and destination; in the relay the client alone
    Conns,      \* connections of the virtual stack (the bound on live ones)
    Workers,
    MaxFlows,
    None

ASSUME ConnsAssumption == None \notin Conns
ASSUME WorkersAssumption == None \notin Workers
ASSUME FlowsAssumption == MaxFlows \in Nat

VARIABLES
    stage,   \* how far close has come
    mu,      \* the worker that dials with the mutex held, or None
    flows,   \* the table
    conn,    \* connections: "free", "open", or "closed" by the sweep
    rdr,     \* the reader of each connection
    key,     \* the key its reader was started with
    pc,      \* workers
    job      \* the key of each worker's datagram

vars == <<stage, mu, flows, conn, rdr, key, pc, job>>

TypeOK ==
    /\ stage \in {"open", "cancelled", "deaf", "swept"}
    /\ mu \in Workers \cup {None}
    /\ flows \in [Keys -> Conns \cup {None}]
    /\ conn \in [Conns -> {"free", "open", "closed"}]
    /\ rdr \in [Conns -> {"none", "read", "delete", "close"}]
    /\ key \in [Conns -> Keys]
    /\ pc \in [Workers -> {"idle", "lookup", "dial", "connect", "write"}]
    /\ job \in [Workers -> Keys]

Init ==
    /\ stage = "open"
    /\ mu = None
    /\ flows = [k \in Keys |-> None]
    /\ conn = [c \in Conns |-> "free"]
    /\ rdr = [c \in Conns |-> "none"]
    /\ key \in {[c \in Conns |-> k] : k \in Keys}
    /\ pc = [w \in Workers |-> "idle"]
    /\ job \in {[w \in Workers |-> k] : k \in Keys}

Live == {k \in Keys : flows[k] # None}

-----------------------------------------------------------------------------
(* Forwarding a datagram.                                                  *)

\* A datagram arrives while a worker is free; otherwise it is dropped.
Receive(w, k) ==
    /\ stage \in {"open", "cancelled"}
    /\ pc[w] = "idle"
    /\ pc' = [pc EXCEPT ![w] = "lookup"]
    /\ job' = [job EXCEPT ![w] = k]
    /\ UNCHANGED <<stage, mu, flows, conn, rdr, key>>

LookupHit(w) ==
    /\ pc[w] = "lookup" /\ mu = None
    /\ flows[job[w]] # None
    /\ pc' = [pc EXCEPT ![w] = "write"]
    /\ UNCHANGED <<stage, mu, flows, conn, rdr, key, job>>

\* Mutant: the mutex is released before the dial.
LookupMissUnlocks(w) ==
    /\ pc[w] = "lookup" /\ mu = None
    /\ flows[job[w]] = None
    /\ Cardinality(Live) < MaxFlows
    /\ pc' = [pc EXCEPT ![w] = "dial"]
    /\ UNCHANGED <<stage, mu, flows, conn, rdr, key, job>>

\* No flow yet, and room for one: dial, keeping the mutex.
LookupMiss(w) ==
    /\ pc[w] = "lookup" /\ mu = None
    /\ flows[job[w]] = None
    /\ Cardinality(Live) < MaxFlows
    /\ mu' = w
    /\ pc' = [pc EXCEPT ![w] = "dial"]
    /\ UNCHANGED <<stage, flows, conn, rdr, key, job>>

\* The table is full: the datagram is dropped.
LookupFull(w) ==
    /\ pc[w] = "lookup" /\ mu = None
    /\ flows[job[w]] = None
    /\ Cardinality(Live) >= MaxFlows
    /\ pc' = [pc EXCEPT ![w] = "idle"]
    /\ UNCHANGED <<stage, mu, flows, conn, rdr, key, job>>

\* Mutant: the dial does not use the server's context.
DialCheckAnyContext(w) ==
    /\ pc[w] = "dial"
    /\ pc' = [pc EXCEPT ![w] = "connect"]
    /\ UNCHANGED <<stage, mu, flows, conn, rdr, key, job>>

\* The stack's DialContext finds the context alive. It does not look again:
\* the connect that follows may come after the cancellation.
DialCheck(w) ==
    /\ pc[w] = "dial"
    /\ stage = "open"
    /\ pc' = [pc EXCEPT ![w] = "connect"]
    /\ UNCHANGED <<stage, mu, flows, conn, rdr, key, job>>

\* The flow is entered, its reader starts, and the mutex is released.
DialOK(w, c) ==
    /\ pc[w] = "connect"
    /\ conn[c] = "free"
    /\ flows' = [flows EXCEPT ![job[w]] = c]
    /\ conn' = [conn EXCEPT ![c] = "open"]
    /\ rdr' = [rdr EXCEPT ![c] = "read"]
    /\ key' = [key EXCEPT ![c] = job[w]]
    /\ mu' = None
    /\ pc' = [pc EXCEPT ![w] = "write"]
    /\ UNCHANGED <<stage, job>>

\* Mutant: a failed dial returns with the mutex locked.
DialFailKeepsLock(w) ==
    /\ pc[w] \in {"dial", "connect"}
    /\ pc' = [pc EXCEPT ![w] = "idle"]
    /\ UNCHANGED <<stage, mu, flows, conn, rdr, key, job>>

\* Resolving or dialling fails, or the context is cancelled.
DialFail(w) ==
    /\ pc[w] \in {"dial", "connect"}
    /\ mu' = None
    /\ pc' = [pc EXCEPT ![w] = "idle"]
    /\ UNCHANGED <<stage, flows, conn, rdr, key, job>>

\* conn.Write outside the mutex; its error is ignored.
Write(w) ==
    /\ pc[w] = "write"
    /\ pc' = [pc EXCEPT ![w] = "idle"]
    /\ UNCHANGED <<stage, mu, flows, conn, rdr, key, job>>

-----------------------------------------------------------------------------
(* The reader of a flow.                                                   *)

\* A read fails: the connection was closed, the flow was idle for too long,
\* the peer is unreachable, or (in the relay) the local socket is gone.
ReadFails(c) ==
    /\ rdr[c] = "read"
    /\ rdr' = [rdr EXCEPT ![c] = "delete"]
    /\ UNCHANGED <<stage, mu, flows, conn, key, pc, job>>

\* Mutant: the reader returns without deleting its flow.
ReaderDeleteSkips(c) ==
    /\ rdr[c] = "delete" /\ mu = None
    /\ rdr' = [rdr EXCEPT ![c] = "close"]
    /\ UNCHANGED <<stage, mu, flows, conn, key, pc, job>>

\* The deferred delete, by key, whatever connection the key has now.
ReaderDelete(c) ==
    /\ rdr[c] = "delete" /\ mu = None
    /\ flows' = [flows EXCEPT ![key[c]] = None]
    /\ rdr' = [rdr EXCEPT ![c] = "close"]
    /\ UNCHANGED <<stage, mu, conn, key, pc, job>>

ReaderClose(c) ==
    /\ rdr[c] = "close"
    /\ conn' = [conn EXCEPT ![c] = "free"]
    /\ rdr' = [rdr EXCEPT ![c] = "none"]
    /\ UNCHANGED <<stage, mu, flows, key, pc, job>>

-----------------------------------------------------------------------------
(* close.                                                                  *)

CloseCancel ==
    /\ stage = "open"
    /\ stage' = "cancelled"
    /\ UNCHANGED <<mu, flows, conn, rdr, key, pc, job>>

CloseSockets ==
    /\ stage = "cancelled"
    /\ stage' = "deaf"
    /\ UNCHANGED <<mu, flows, conn, rdr, key, pc, job>>

\* Mutant: the table is replaced but its connections are not closed.
CloseSweepForgets ==
    /\ stage = "deaf" /\ mu = None
    /\ stage' = "swept"
    /\ flows' = [k \in Keys |-> None]
    /\ UNCHANGED <<mu, conn, rdr, key, pc, job>>

\* Under the mutex, every flow's connection is closed and the table emptied.
CloseSweep ==
    /\ stage = "deaf" /\ mu = None
    /\ stage' = "swept"
    /\ conn' = [c \in Conns |->
                  IF \E k \in Keys : flows[k] = c THEN "closed" ELSE conn[c]]
    /\ flows' = [k \in Keys |-> None]
    /\ UNCHANGED <<mu, rdr, key, pc, job>>

-----------------------------------------------------------------------------
Forward(w) ==
    \/ LookupHit(w) \/ LookupMiss(w) \/ LookupFull(w)
    \/ DialCheck(w) \/ (\E c \in Conns : DialOK(w, c)) \/ DialFail(w)
    \/ Write(w)

Next ==
    \/ \E w \in Workers, k \in Keys : Receive(w, k)
    \/ \E w \in Workers : Forward(w)
    \/ \E c \in Conns : ReadFails(c) \/ ReaderDelete(c) \/ ReaderClose(c)
    \/ CloseCancel \/ CloseSockets \/ CloseSweep

\* Goroutines run on, and Go's mutex is starvation-free: whoever waits for mu
\* gets it (strong fairness). A dial returns, and a read of a closed
\* connection fails. Nothing makes datagrams arrive or close be called.
Fairness ==
    /\ \A w \in Workers : SF_vars(Forward(w))
    /\ \A c \in Conns :
         /\ WF_vars(conn[c] = "closed" /\ ReadFails(c))
         /\ SF_vars(ReaderDelete(c))
         /\ WF_vars(ReaderClose(c))
    /\ WF_vars(CloseSockets)
    /\ SF_vars(CloseSweep)

Spec == Init /\ [][Next]_vars /\ Fairness

-----------------------------------------------------------------------------
(* Properties.                                                             *)

\* Every entry of the table is an open connection whose reader, started with
\* that key, is alive: otherwise the key's datagrams would go nowhere until
\* the server is closed (mobile.go:1079-1090, 1099).
FlowHasReader ==
    \A k \in Keys : flows[k] # None =>
        /\ conn[flows[k]] = "open"
        /\ rdr[flows[k]] \in {"read", "delete"}
        /\ key[flows[k]] = k

\* A reader deletes by key, without looking at the connection: it finds its
\* own there or nothing, never the flow of a newer connection.
DeletesOwn ==
    \A c \in Conns : rdr[c] = "delete" => flows[key[c]] \in {c, None}

\* Once close has swept the table nothing is entered any more: a dial that
\* passed its context check before the cancellation is entered before the
\* sweep, which waits for its mutex, and every later one fails the check.
NothingAfterSweep ==
    stage = "swept" =>
        /\ Live = {}
        /\ \A c \in Conns : conn[c] = "open" => rdr[c] # "read"

\* The limit of the table holds although dialling takes time.
FlowsBounded == Cardinality(Live) <= MaxFlows

\* close returns, although it waits for the mutex of a dial.
CloseReturns == stage = "cancelled" ~> stage = "swept"

\* README: stop cancels "listeners, virtual stack, and UDP relays": after
\* close every flow's connection is closed and every goroutine gone.
AllReleased ==
    stage = "swept" ~> /\ \A c \in Conns : conn[c] = "free" /\ rdr[c] = "none"
                       /\ \A w \in Workers : pc[w] = "idle"
=============================================================================
