---------------------------- MODULE UsqueTunnel ----------------------------
(***************************************************************************)
(* api.MaintainTunnel (usque-ios/api/tunnel.go): the supervisor goroutine  *)
(* of one USQUE session, the pair of forwarding pumps it starts for every  *)
(* connection, and the steps of session.close (usque-ios/mobile/mobile.go) *)
(* that race with both.                                                    *)
(*                                                                         *)
(* A slot holds one cycle's connection, errChan and pair of pumps. A slot  *)
(* is used again once its two pumps have returned, so Slots bounds how     *)
(* many pairs exist at a time: a pump parked in a blocking device read     *)
(* outlives its cycle and keeps its slot.                                  *)
(***************************************************************************)
EXTENDS Naturals, FiniteSets

CONSTANTS
    Slots,            \* pump pairs that may exist at the same time
    NoSlot,           \* the supervisor holds no connection
    AlwaysReconnect,  \* MaintainTunnelConfig.AlwaysReconnect (TRUE in mobile.go)
    Transports,       \* the transports a session may be started with
    MaxPackets        \* outbound packets waiting in the device

ASSUME SlotsAssumption == NoSlot \notin Slots
ASSUME ModeAssumption ==
    AlwaysReconnect \in BOOLEAN /\ Transports \subseteq {"h2", "h3"}
ASSUME PacketsAssumption == MaxPackets \in Nat \ {0}

VARIABLES
    transport,   \* "h2" if MaintainTunnelConfig.UseHTTP2, fixed at the start
    sup,         \* where the supervisor's loop stands
    cur,         \* the slot of the supervisor's connection
    dpump,       \* device -> connection pump of each slot
    rpump,       \* connection -> device pump of each slot
    errs,        \* errors buffered in each slot's errChan
    pumpStop,    \* the slots whose cancelPumps was called
    conn,        \* ipConn of the slot
    trOpen,      \* the slots whose http3.Transport and UDP socket are open
    ready,       \* session.ready
    stage,       \* how far session.close has come
    ctxDone,     \* the session's context is cancelled
    pkts         \* packets the network stack waits to hand out

pumpVars == <<dpump, rpump, errs, pumpStop, conn, trOpen>>
closeVars == <<stage, ctxDone>>
stepVars == <<sup, cur, dpump, rpump, errs, pumpStop, conn, trOpen,
              ready, stage, ctxDone, pkts>>
vars == <<transport, stepVars>>

ErrChanCap == 2

SupStates == {"top", "idle", "connect", "up", "wait", "teardown", "join",
              "sleep", "exit"}

FlagsOK == ready \in BOOLEAN /\ ctxDone \in BOOLEAN

StateOK ==
    /\ sup \in SupStates
    /\ cur \in Slots \cup {NoSlot}
    /\ dpump \in [Slots -> {"check", "read", "got", "write", "exit"}]
    /\ rpump \in [Slots -> {"read", "exit"}]
    /\ errs \in [Slots -> 0..ErrChanCap]
    /\ pumpStop \in SUBSET Slots
    /\ conn \in [Slots -> {"open", "lost", "closed"}]
    /\ trOpen \in SUBSET Slots
    /\ stage \in {"open", "flagged", "cancelled", "closed"}
    /\ pkts \in 0..MaxPackets

TypeOK == StateOK /\ FlagsOK /\ transport \in Transports

devOpen == stage # "closed"

\* pumpCtx.Err() # nil: pumpCtx is a child of the session's context.
PumpDone(s) == s \in pumpStop \/ ctxDone

\* The goroutines of the slot's cycle have returned.
Free(s) == s # cur /\ dpump[s] = "exit" /\ rpump[s] = "exit"

Init ==
    /\ transport \in Transports
    /\ sup = "top"
    /\ cur = NoSlot
    /\ dpump = [s \in Slots |-> "exit"]
    /\ rpump = [s \in Slots |-> "exit"]
    /\ errs = [s \in Slots |-> 0]
    /\ pumpStop = {}
    /\ conn = [s \in Slots |-> "closed"]
    /\ trOpen = {}
    /\ ready = FALSE
    /\ stage = "open"
    /\ ctxDone = FALSE
    /\ pkts = 0

-----------------------------------------------------------------------------
(* The supervisor's loop.                                                  *)

\* Mutant: the loop does not look at the context.
TopIgnoresContext ==
    /\ sup = "top"
    /\ sup' = IF AlwaysReconnect THEN "connect" ELSE "idle"
    /\ UNCHANGED <<cur, pumpVars, ready, closeVars, pkts>>

\* Head of the loop: leave on a cancelled context, else dial, first waiting
\* for outbound traffic when the tunnel does not always reconnect.
Top ==
    /\ sup = "top"
    /\ sup' = IF ctxDone THEN "exit"
              ELSE IF AlwaysReconnect THEN "connect" ELSE "idle"
    /\ UNCHANGED <<cur, pumpVars, ready, closeVars, pkts>>

\* The packet that wakes an idle tunnel is read and dropped.
IdleRead ==
    /\ sup = "idle"
    /\ devOpen /\ pkts > 0
    /\ pkts' = pkts - 1
    /\ sup' = "connect"
    /\ UNCHANGED <<cur, pumpVars, ready, closeVars>>

\* The idle read takes no context: only a closed device ends it.
IdleReadError ==
    /\ sup = "idle"
    /\ ~devOpen
    /\ sup' = "sleep"
    /\ UNCHANGED <<cur, pumpVars, ready, closeVars, pkts>>

\* ConnectTunnel failed, or the server's status is not 200: whatever was
\* opened is closed, the error is reported, and the loop backs off.
ConnectFail ==
    /\ sup = "connect"
    /\ ready' = FALSE
    /\ sup' = "sleep"
    /\ UNCHANGED <<cur, pumpVars, closeVars, pkts>>

\* ConnectTunnel returned a connection with status 200. Only HTTP/3 also
\* returns a transport and a UDP socket to close.
ConnectOK(s) ==
    /\ sup = "connect"
    /\ ~ctxDone
    /\ Free(s)
    /\ cur' = s
    /\ conn' = [conn EXCEPT ![s] = "open"]
    /\ trOpen' = IF transport = "h2" THEN trOpen ELSE trOpen \cup {s}
    /\ errs' = [errs EXCEPT ![s] = 0]
    /\ pumpStop' = pumpStop \ {s}
    /\ sup' = "up"
    /\ UNCHANGED <<dpump, rpump, ready, closeVars, pkts>>

\* OnReady, then a fresh errChan, pumpCtx and readMu, and the two pumps.
ReadyAndPump ==
    /\ sup = "up"
    /\ ready' = TRUE
    /\ dpump' = [dpump EXCEPT ![cur] = "check"]
    /\ rpump' = [rpump EXCEPT ![cur] = "read"]
    /\ sup' = "wait"
    /\ UNCHANGED <<cur, errs, pumpStop, conn, trOpen, closeVars, pkts>>

\* Mutant: the failure of a pump is not reported through OnError.
RecvErrSilent ==
    /\ sup = "wait" /\ errs[cur] > 0
    /\ errs' = [errs EXCEPT ![cur] = @ - 1]
    /\ sup' = "teardown"
    /\ UNCHANGED <<cur, dpump, rpump, pumpStop, conn, trOpen, ready, closeVars, pkts>>

\* err = <-errChan, then OnError.
RecvErr ==
    /\ sup = "wait"
    /\ errs[cur] > 0
    /\ errs' = [errs EXCEPT ![cur] = @ - 1]
    /\ ready' = FALSE
    /\ sup' = "teardown"
    /\ UNCHANGED <<cur, dpump, rpump, pumpStop, conn, trOpen, closeVars, pkts>>

\* Mutant: ipConn is not closed.
TeardownLeavesConn ==
    /\ sup = "teardown"
    /\ pumpStop' = pumpStop \cup {cur}
    /\ sup' = "join"
    /\ UNCHANGED <<cur, dpump, rpump, errs, conn, trOpen, ready, closeVars, pkts>>

\* Mutant: cancelPumps is not called.
TeardownLeavesPumps ==
    /\ sup = "teardown"
    /\ conn' = [conn EXCEPT ![cur] = "closed"]
    /\ sup' = "join"
    /\ UNCHANGED <<cur, dpump, rpump, errs, pumpStop, trOpen, ready, closeVars, pkts>>

\* cancelPumps(), then ipConn.Close().
Teardown ==
    /\ sup = "teardown"
    /\ pumpStop' = pumpStop \cup {cur}
    /\ conn' = [conn EXCEPT ![cur] = "closed"]
    /\ sup' = "join"
    /\ UNCHANGED <<cur, dpump, rpump, errs, trOpen, ready, closeVars, pkts>>

\* After the join: tr.Close(), udpConn.Close(), and on to the back-off.
ReleaseTransport ==
    /\ trOpen' = trOpen \ {cur}
    /\ cur' = NoSlot
    /\ sup' = "sleep"
    /\ UNCHANGED <<dpump, rpump, errs, pumpStop, conn, ready, closeVars, pkts>>

\* Both pumps returned.
JoinDone ==
    /\ sup = "join"
    /\ dpump[cur] = "exit" /\ rpump[cur] = "exit"
    /\ ReleaseTransport

\* Mutant: the supervisor waits for both pumps however long it takes.
JoinGraceNever == FALSE

\* pumpShutdownGrace expired first: a pump may be left behind.
JoinGrace ==
    /\ sup = "join"
    /\ ReleaseTransport

\* sleepCtx: the timer fires, or the context is found cancelled.
SleepDone ==
    /\ sup = "sleep"
    /\ sup' = "top"
    /\ UNCHANGED <<cur, pumpVars, ready, closeVars, pkts>>

SleepCancelled ==
    /\ sup = "sleep"
    /\ ctxDone
    /\ sup' = "exit"
    /\ UNCHANGED <<cur, pumpVars, ready, closeVars, pkts>>

-----------------------------------------------------------------------------
(* The device pump. Its readMu is declared in the loop body, so it is a    *)
(* new mutex every cycle, locked by this pump alone: Lock never waits.     *)

\* Head of the loop: a cancelled pump returns and sends nothing.
DevCheck(s) ==
    /\ dpump[s] = "check"
    /\ dpump' = [dpump EXCEPT ![s] = IF PumpDone(s) THEN "exit" ELSE "read"]
    /\ UNCHANGED <<sup, cur, rpump, errs, pumpStop, conn, trOpen, ready,
                   closeVars, pkts>>

\* ReadPacket returns a packet, to whichever reader is parked there.
DevRead(s) ==
    /\ dpump[s] = "read"
    /\ devOpen /\ pkts > 0
    /\ pkts' = pkts - 1
    /\ dpump' = [dpump EXCEPT ![s] = "got"]
    /\ UNCHANGED <<sup, cur, rpump, errs, pumpStop, conn, trOpen, ready,
                   closeVars>>

\* A pump sends its error and returns; errChan has room for ErrChanCap.
SendErr(s) == errs[s] < ErrChanCap /\ errs' = [errs EXCEPT ![s] = @ + 1]

\* ReadPacket fails because the device was closed.
DevReadError(s) ==
    /\ dpump[s] = "read"
    /\ ~devOpen
    /\ SendErr(s)
    /\ dpump' = [dpump EXCEPT ![s] = "exit"]
    /\ UNCHANGED <<sup, cur, rpump, pumpStop, conn, trOpen, ready, closeVars,
                   pkts>>

\* The second look at pumpCtx, after the read: the packet is dropped.
DevRecheck(s) ==
    /\ dpump[s] = "got"
    /\ dpump' = [dpump EXCEPT ![s] = IF PumpDone(s) THEN "exit" ELSE "write"]
    /\ UNCHANGED <<sup, cur, rpump, errs, pumpStop, conn, trOpen, ready,
                   closeVars, pkts>>

\* WritePacketBuffer succeeded, or failed with an error that is only logged.
DevWrite(s) ==
    /\ dpump[s] = "write"
    /\ dpump' = [dpump EXCEPT ![s] = "check"]
    /\ UNCHANGED <<sup, cur, rpump, errs, pumpStop, conn, trOpen, ready,
                   closeVars, pkts>>

\* WritePacketBuffer met a closed connection (connectip.CloseError).
DevWriteClosed(s) ==
    /\ dpump[s] = "write"
    /\ conn[s] # "open"
    /\ SendErr(s)
    /\ dpump' = [dpump EXCEPT ![s] = "exit"]
    /\ UNCHANGED <<sup, cur, rpump, pumpStop, conn, trOpen, ready, closeVars,
                   pkts>>

-----------------------------------------------------------------------------
(* The connection pump. A packet read and written to the device changes    *)
(* nothing modelled here; it never looks at pumpCtx.                       *)

\* Mutant: the pump reports the error and reads on.
ConnReadErrorLoops(s) ==
    /\ rpump[s] = "read" /\ conn[s] # "open"
    /\ errs' = [errs EXCEPT ![s] = @ + 1]
    /\ UNCHANGED <<sup, cur, dpump, rpump, pumpStop, conn, trOpen, ready,
                   closeVars, pkts>>

\* ReadPacketZeroCopy fails on a lost or closed connection. In HTTP/3 only a
\* connectip.CloseError ends the pump and any other error is read over, a
\* step that changes nothing: what is assumed of connect-ip-go is that on a
\* connection that is gone the CloseError comes in the end.
ConnReadError(s) ==
    /\ rpump[s] = "read"
    /\ conn[s] # "open"
    /\ SendErr(s)
    /\ rpump' = [rpump EXCEPT ![s] = "exit"]
    /\ UNCHANGED <<sup, cur, dpump, pumpStop, conn, trOpen, ready, closeVars,
                   pkts>>

\* The device refuses a packet (the stack knows IPv4 and IPv6 only).
DevRefuses(s) ==
    /\ rpump[s] = "read"
    /\ conn[s] = "open"
    /\ SendErr(s)
    /\ rpump' = [rpump EXCEPT ![s] = "exit"]
    /\ UNCHANGED <<sup, cur, dpump, pumpStop, conn, trOpen, ready, closeVars,
                   pkts>>

-----------------------------------------------------------------------------
(* session.close, one step per effect the tunnel sees, and the end of the  *)
(* parent context of a probe session.                                      *)

\* Mutant: close leaves the ready flag alone.
CloseFlagKeepsReady ==
    /\ stage = "open"
    /\ stage' = "flagged"
    /\ UNCHANGED <<sup, cur, pumpVars, ready, ctxDone, pkts>>

\* stopped.Swap(true), then ready.Store(false).
CloseFlag ==
    /\ stage = "open"
    /\ stage' = "flagged"
    /\ ready' = FALSE
    /\ UNCHANGED <<sup, cur, pumpVars, ctxDone, pkts>>

\* s.cancel(); the SOCKS server and the hop relay are closed next.
CloseCancel ==
    /\ stage = "flagged"
    /\ stage' = "cancelled"
    /\ ctxDone' = TRUE
    /\ UNCHANGED <<sup, cur, pumpVars, ready, pkts>>

\* s.dev.Close(): nobody waits to hand out a packet any more.
CloseDevice ==
    /\ stage = "cancelled"
    /\ stage' = "closed"
    /\ pkts' = 0
    /\ UNCHANGED <<sup, cur, pumpVars, ready, ctxDone>>

\* The deadline of Invoke("probe"), whose session is stopped afterwards.
ParentExpires ==
    /\ stage = "open"
    /\ ~ctxDone
    /\ ctxDone' = TRUE
    /\ UNCHANGED <<sup, cur, pumpVars, ready, stage, pkts>>

-----------------------------------------------------------------------------
(* Environment.                                                            *)

\* The network stack has one more outbound packet to hand out.
StackSends ==
    /\ devOpen
    /\ pkts < MaxPackets
    /\ pkts' = pkts + 1
    /\ UNCHANGED <<sup, cur, pumpVars, ready, closeVars>>

\* The server, or the path to it, goes away.
ConnLost(s) ==
    /\ conn[s] = "open"
    /\ conn' = [conn EXCEPT ![s] = "lost"]
    /\ UNCHANGED <<sup, cur, dpump, rpump, errs, pumpStop, trOpen, ready,
                   closeVars, pkts>>

\* In HTTP/2 the tunnel is the body of a request made with the session's
\* context: net/http aborts the stream when that context is cancelled. An
\* HTTP/3 connection uses the context only while it is being dialled.
StreamAborted(s) ==
    /\ transport = "h2" /\ ctxDone
    /\ ConnLost(s)

-----------------------------------------------------------------------------
Supervisor ==
    \/ Top \/ IdleRead \/ IdleReadError
    \/ ConnectFail \/ (\E s \in Slots : ConnectOK(s))
    \/ ReadyAndPump \/ RecvErr \/ Teardown \/ JoinDone \/ JoinGrace
    \/ SleepDone \/ SleepCancelled

DevicePump(s) ==
    \/ DevCheck(s) \/ DevRead(s) \/ DevReadError(s)
    \/ DevRecheck(s) \/ DevWrite(s) \/ DevWriteClosed(s)

Close == CloseFlag \/ CloseCancel \/ CloseDevice

Step ==
    \/ Supervisor
    \/ \E s \in Slots :
         \/ DevicePump(s)
         \/ ConnReadError(s) \/ DevRefuses(s)
         \/ ConnLost(s) \/ StreamAborted(s)
    \/ Close \/ ParentExpires
    \/ StackSends

Next == Step /\ UNCHANGED transport

\* Every goroutine keeps running; the timers of sleepCtx and of the grace
\* period fire; a close that began is finished by its caller, and a probe
\* whose deadline passed is stopped by its deferred Stop; net/http aborts the
\* stream. Nothing is assumed of the server, the network or the traffic.
Fairness ==
    /\ WF_stepVars(Supervisor)
    /\ \A s \in Slots :
         /\ WF_stepVars(DevicePump(s))
         /\ WF_stepVars(ConnReadError(s))
         /\ WF_stepVars(StreamAborted(s))
    /\ WF_stepVars((ctxDone /\ CloseFlag) \/ CloseCancel \/ CloseDevice)

Spec == Init /\ [][Next]_vars /\ Fairness

-----------------------------------------------------------------------------
(* Properties.                                                             *)

\* README: ready "means a real CONNECT-IP handshake completed". The session
\* is ready only while the supervisor sits on a connection whose pumps it
\* started and whose error it has not yet taken: OnError withdraws readiness
\* before the connection is torn down and never while a newer one stands.
ReadyOnlyWhileConnected ==
    ready => sup = "wait" /\ conn[cur] # "closed" /\ cur \notin pumpStop

\* However pumps of old cycles linger, connection and transport of a cycle
\* are closed before the next is dialled: the supervisor never holds two.
OneConnection ==
    \A s \in Slots : (conn[s] # "closed" \/ s \in trOpen) => s = cur

\* A pump left behind by the grace period is one whose pumpCtx is cancelled
\* and whose connection is closed: the next packet it gets ends it, and it
\* can put no packet on the wire.
StaleCannotForward ==
    \A s \in Slots \ {cur} :
        ~Free(s) => s \in pumpStop /\ conn[s] = "closed"

Running(p) == IF p = "exit" THEN 0 ELSE 1

Holding == {"up", "wait", "teardown", "join"}

\* What each phase of a cycle may rely on: the supervisor owns a slot exactly
\* from a successful dial to the release of its transport; a new cycle starts
\* with an empty errChan and no pump; its context and connection are live
\* until the teardown, and cancelled and closed from then on.
CycleInv ==
    /\ cur # NoSlot <=> sup \in Holding
    /\ \A s \in Slots : s = cur =>
         /\ sup = "up" => errs[s] = 0 /\ dpump[s] = "exit" /\ rpump[s] = "exit"
         /\ sup \in {"up", "wait", "teardown"} => conn[s] # "closed" /\ s \notin pumpStop
         /\ sup = "join" => conn[s] = "closed" /\ s \in pumpStop

\* Each pump puts at most one error in its cycle's errChan and then returns,
\* so a send never waits even after the supervisor stopped receiving.
ErrorsFit ==
    \A s \in Slots :
        errs[s] + Running(dpump[s]) + Running(rpump[s]) <= ErrChanCap

\* "If an error occurs in either loop, the connection is closed and a
\* reconnect is attempted" (tunnel.go:221): a lost connection gets the
\* supervisor back to dialling, or out, even if a pump stays in its read.
LossLeadsToReconnect ==
    (sup = "wait" /\ cur # NoSlot /\ \E s \in Slots : s = cur /\ conn[s] = "lost")
        ~> sup \in {"connect", "idle", "exit"}

\* Supervisor and pumps have ended, no connection or transport is open.
Released ==
    /\ sup = "exit"
    /\ trOpen = {}
    /\ \A s \in Slots : Free(s) /\ conn[s] = "closed"

\* README: Stop "cancel[s] transport, listeners, virtual stack": once
\* session.close returned, everything the session runs comes to an end.
StopReleasesTransport == stage = "closed" ~> Released

\* In HTTP/2 it does, through the stream that net/http aborts.
StopReleasesStream == (stage = "closed" /\ transport = "h2") ~> Released

\* Nothing is left that could end the wait for errChan: in HTTP/3 the device
\* pump has gone without an error and the server keeps the connection.
Stranded ==
    /\ transport = "h3" /\ sup = "wait"
    /\ \E s \in Slots : /\ s = cur /\ conn[s] = "open" /\ errs[s] = 0
                        /\ dpump[s] = "exit" /\ rpump[s] = "read"

\* An OnReady that comes after session.close cleared the flag is taken back,
\* in both transports, unless the supervisor is stranded: then the stopped
\* session stays ready for as long as the server keeps the connection.
LateReadyIsTakenBack == (stage = "closed" /\ ready) ~> (~ready \/ Stranded)

\* tunnel.go:154: "the readMu serializes any overlap with the next cycle's
\* device reader".
OneDeviceReader ==
    Cardinality({s \in Slots : dpump[s] = "read"}) <= 1

\* The tunnel implements the abstract link.
Link == INSTANCE SessionLink WITH
    link <- CASE sup = "wait" -> "up"
              [] sup = "exit" -> "done"
              [] OTHER -> "down",
    stopped <- stage # "open",
    ended <- ctxDone

\* Every step of supervisor, pumps and close is a step of the abstract link,
\* or invisible to it.
ImplementsLink == Link!LinkSpec
=============================================================================
