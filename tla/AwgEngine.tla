----------------------------- MODULE AwgEngine -----------------------------
(***************************************************************************)
(* The AmneziaWG engine of awg-ios/cmd/persianray: AwgStart, AwgStop and   *)
(* AwgSetHopInner from concurrent callers (engine.go), the hop's choice of *)
(* an inner host and its swap (hop.go, hopbind.go), the SOCKS accept loop  *)
(* that picks a stack for every connection (socks.go), and the probes of   *)
(* AwgPing, each of which opens and closes a tunnel of its own (ping.go).  *)
(***************************************************************************)
EXTENDS Naturals, FiniteSets

CONSTANTS
    Calls,      \* callers of AwgStart, AwgStop and AwgSetHopInner
    Ids,        \* names for the tunnels startLive opens one after the other
    Probes,     \* the probes of an AwgPing request; each names its tunnel
    Parallel,   \* how many of them may run at once
    MaxHosts,   \* inner hosts startHop tries at most
    None

ASSUME AwgAssumption ==
    /\ None \notin Calls \cup Ids \cup Probes
    /\ Calls \cap Probes = {} /\ Ids \cap Probes = {}
    /\ Parallel \in Nat \ {0} /\ MaxHosts \in Nat \ {0}

Tunnels == Ids \cup Probes
Procs == Calls \cup Probes

VARIABLES
    pc,         \* where a call or a probe stands
    op,         \* what the call does: "start", "stop" or "swap"
    ctx,        \* what it closes an inner device for
    left,       \* hosts startHop has still to try, the current one included
    liveMu,     \* holder of liveMu
    live,       \* the tunnel that is published
    cur,        \* the tunnel the holder of liveMu works on
    sem,        \* probes that hold a slot of runPing's semaphore
    hop,        \* tunnels with cfg.Hop
    outer, inner,   \* tunnels whose outer and inner devices are open
    net,        \* tunnels with innerNet set
    sock,       \* tunnels whose hopBind has its packet connection open
    reader,     \* where the inner device's receive routine stands
    listen,     \* tunnels whose SOCKS listener is open
    got,        \* tunnels whose accept loop has a connection in hand
    served,     \* the stack the last connection was given
    told        \* tunnels whose last swap failed, as its caller was told

control == <<pc, op, ctx, left, liveMu, live, cur, sem>>
socks == <<listen, got, served>>
hopVars == <<inner, net, sock, reader>>
vars == <<control, socks, hopVars, hop, outer, told>>

TypeOK ==
    /\ pc \in [Procs -> {"idle", "want", "open", "up", "ln", "unbind", "wait",
                         "create", "raise", "lookup", "listen", "outer", "measure",
                         "done"}]
    /\ op \in [Procs -> {"none", "start", "stop", "swap"}]
    /\ ctx \in [Procs -> {"none", "hop", "swap", "drop", "fail", "quit"}]
    /\ left \in [Procs -> 0..MaxHosts]
    /\ liveMu \in Calls \cup {None}
    /\ live \in Ids \cup {None} /\ cur \in Ids \cup {None}
    /\ sem \in SUBSET Probes
    /\ hop \in SUBSET Tunnels /\ outer \in SUBSET Tunnels /\ inner \in SUBSET Tunnels
    /\ net \in SUBSET Tunnels /\ sock \in SUBSET Tunnels /\ listen \in SUBSET Tunnels
    /\ got \in SUBSET Tunnels /\ told \in SUBSET Tunnels
    /\ reader \in [Tunnels -> {"none", "top", "read"}]
    /\ served \in {"none", "inner", "outer"}

Init ==
    /\ pc = [p \in Procs |-> "idle"]
    /\ op = [p \in Procs |-> "none"]
    /\ ctx = [p \in Procs |-> "none"]
    /\ left = [p \in Procs |-> 0]
    /\ liveMu = None /\ live = None /\ cur = None
    /\ sem = {}
    /\ hop = {} /\ outer = {} /\ inner = {} /\ net = {} /\ sock = {}
    /\ reader = [t \in Tunnels |-> "none"]
    /\ listen = {} /\ got = {} /\ told = {}
    /\ served = "none"

Tun(p) == IF p \in Probes THEN p ELSE cur

Goto(p, l) == pc' = [pc EXCEPT ![p] = l]

\* A call returns and releases liveMu; a probe stores its result and gives
\* its slot back.
Return(p) ==
    /\ Goto(p, IF p \in Probes THEN "done" ELSE "idle")
    /\ liveMu' = IF p \in Probes THEN liveMu ELSE None
    /\ cur' = IF p \in Probes THEN cur ELSE None
    /\ sem' = sem \ {p}
    /\ op' = [op EXCEPT ![p] = "none"]
    /\ ctx' = [ctx EXCEPT ![p] = "none"]
    /\ left' = [left EXCEPT ![p] = 0]

\* The step is not a return, and changes neither the lock nor the semaphore.
Stay == UNCHANGED <<liveMu, cur, sem>>

-----------------------------------------------------------------------------
(* The exported calls.                                                     *)

Call(c) ==
    /\ pc[c] = "idle"
    /\ \E o \in {"start", "stop", "swap"} : op' = [op EXCEPT ![c] = o]
    /\ Goto(c, "want")
    /\ UNCHANGED <<ctx, left, live, socks, hopVars, hop, outer, told>>
    /\ Stay

\* startLive and stopLive take liveMu and close the published tunnel first.
LockClose(c) ==
    /\ pc[c] = "want" /\ op[c] \in {"start", "stop"}
    /\ liveMu = None /\ live # None
    /\ liveMu' = c /\ cur' = live
    /\ ctx' = [ctx EXCEPT ![c] = IF op[c] = "start" THEN "drop" ELSE "quit"]
    /\ Goto(c, "ln")
    /\ UNCHANGED <<op, left, live, sem, socks, hopVars, hop, outer, told>>

LockOpen(c) ==
    /\ pc[c] = "want" /\ op[c] = "start"
    /\ liveMu = None /\ live = None
    /\ liveMu' = c
    /\ Goto(c, "open")
    /\ UNCHANGED <<op, ctx, left, live, cur, sem, socks, hopVars, hop, outer, told>>

\* setLiveHopInner, then setHopInner takes t.mu as well: PickTarget waits.
LockSwap(c) ==
    /\ pc[c] = "want" /\ op[c] = "swap"
    /\ liveMu = None /\ live # None /\ live \in hop
    /\ liveMu' = c /\ cur' = live
    /\ ctx' = [ctx EXCEPT ![c] = "swap"]
    /\ Goto(c, "unbind")
    /\ UNCHANGED <<op, left, live, sem, socks, hopVars, hop, outer, told>>

\* Nothing to stop, nothing to swap, no hop tunnel or a bad endpoint.
LockReturn(c) ==
    /\ pc[c] = "want" /\ liveMu = None
    /\ \/ op[c] = "stop" /\ live = None
       \/ op[c] = "swap"
    /\ Return(c)
    /\ UNCHANGED <<live, socks, hopVars, hop, outer, told>>

-----------------------------------------------------------------------------
(* openTunnel, for startLive and for a probe.                              *)

\* A name is free when nothing of its last tunnel is left.
Free(t) == t \notin outer \cup inner \cup listen \cup got

\* The configuration is refused or there is no stack: no device yet.
OpenFails(p) ==
    /\ pc[p] = "open"
    /\ Return(p)
    /\ UNCHANGED <<live, socks, hopVars, hop, outer, told>>

\* NewDevice: from here on the outer device has to be closed.
Open(p) ==
    /\ pc[p] = "open"
    /\ \E t \in Tunnels :
         /\ Free(t)
         /\ t = p \/ (p \in Calls /\ t \in Ids)
         /\ outer' = outer \cup {t}
         /\ cur' = IF p \in Calls THEN t ELSE cur
    /\ ctx' = [ctx EXCEPT ![p] = "hop"]
    /\ Goto(p, "up")
    /\ UNCHANGED <<op, left, liveMu, live, sem, socks, hopVars, hop, told>>

\* The outer device is configured and up; a hop tunnel has its list of inner
\* hosts, one without HopShield.
Up(p) ==
    /\ pc[p] = "up"
    /\ \E n \in 0..MaxHosts :
         /\ p \in Probes => n <= 1
         /\ hop' = IF n > 0 THEN hop \cup {Tun(p)} ELSE hop
         /\ left' = [left EXCEPT ![p] = n]
         /\ Goto(p, IF n > 0 THEN "unbind" ELSE "listen")
    /\ UNCHANGED <<op, ctx, live, socks, hopVars, outer, told>>
    /\ Stay

\* IpcSet or Up fails and the device is closed again.
UpFails(p) ==
    /\ pc[p] = "up"
    /\ outer' = outer \ {Tun(p)}
    /\ Return(p)
    /\ UNCHANGED <<live, socks, hopVars, hop, told>>

Listen(p) ==
    /\ pc[p] = "listen"
    /\ listen' = listen \cup {Tun(p)}
    /\ \/ p \in Calls /\ live' = cur /\ Return(p)
       \/ p \in Probes /\ Goto(p, "measure") /\ UNCHANGED <<op, ctx, left, live>> /\ Stay
    /\ UNCHANGED <<got, served, hopVars, hop, outer, told>>

ListenFails(p) ==
    /\ pc[p] = "listen"
    /\ ctx' = [ctx EXCEPT ![p] = "fail"]
    /\ Goto(p, "ln")
    /\ UNCHANGED <<op, left, live, socks, hopVars, hop, outer, told>>
    /\ Stay

-----------------------------------------------------------------------------
(* replaceInner, for startHop and for setHopInner, and startHop's loop.    *)

\* The new inner device exists; nothing but the call knows it yet.
Create(p) ==
    /\ pc[p] = "create"
    /\ inner' = inner \cup {Tun(p)}
    /\ Goto(p, "raise")
    /\ UNCHANGED <<op, ctx, left, live, socks, net, sock, reader, hop, outer, told>>
    /\ Stay

\* It is up, with hopBind's socket and receive routine, and becomes the
\* tunnel's. startHop compares the exits unless this is the last host, which
\* it takes whatever the comparison says.
Raise(p) ==
    /\ pc[p] = "raise"
    /\ LET t == Tun(p) IN
         /\ net' = net \cup {t} /\ sock' = sock \cup {t}
         /\ reader' = [reader EXCEPT ![t] = "top"]
         /\ \/ /\ ctx[p] = "swap"
               /\ told' = told \ {t} /\ Return(p)
            \/ /\ ctx[p] = "hop"
               /\ Goto(p, IF left[p] = 1 THEN "listen" ELSE "lookup")
               /\ UNCHANGED <<op, ctx, left, told>> /\ Stay
    /\ UNCHANGED <<live, socks, inner, hop, outer>>

\* replaceInner answers an error. The swap passes it on and the tunnel goes on
\* without an inner device; startHop tries the next host or gives up.
HostFails(p) ==
    \/ /\ ctx[p] = "swap"
       /\ told' = told \cup {Tun(p)} /\ Return(p)
    \/ /\ ctx[p] = "hop" /\ left' = [left EXCEPT ![p] = @ - 1]
       /\ Goto(p, IF left[p] = 1 THEN "ln" ELSE "unbind")
       /\ ctx' = [ctx EXCEPT ![p] = IF left[p] = 1 THEN "fail" ELSE "hop"]
       /\ UNCHANGED <<op, told>> /\ Stay

\* There is no address or no stack for an inner device.
CreateFails(p) ==
    /\ pc[p] = "create"
    /\ HostFails(p)
    /\ UNCHANGED <<live, socks, hopVars, hop, outer>>

\* Mutant: the new device is left to the garbage collector.
RaiseFailsKeeps(p) ==
    /\ pc[p] = "raise"
    /\ HostFails(p)
    /\ UNCHANGED <<live, socks, hopVars, hop, outer>>

\* The new device cannot be configured or brought up: it is closed again.
RaiseFails(p) ==
    /\ pc[p] = "raise"
    /\ inner' = inner \ {Tun(p)}
    /\ HostFails(p)
    /\ UNCHANGED <<live, socks, net, sock, reader, hop, outer>>

\* The inner host is kept if the exits differ, else the next one is tried.
Lookup(p) ==
    /\ pc[p] = "lookup"
    /\ \/ Goto(p, "listen") /\ UNCHANGED left
       \/ Goto(p, "unbind") /\ left' = [left EXCEPT ![p] = @ - 1]
    /\ UNCHANGED <<op, ctx, live, socks, hopVars, hop, outer, told>>
    /\ Stay

-----------------------------------------------------------------------------
(* awgTunnel.close, without t.mu, and the closing of an inner device.      *)

CloseListener(p) ==
    /\ pc[p] = "ln"
    /\ listen' = listen \ {Tun(p)}
    /\ Goto(p, "unbind")
    /\ UNCHANGED <<op, ctx, left, live, got, served, hopVars, hop, outer, told>>
    /\ Stay

AfterInner(p) == IF ctx[p] \in {"hop", "swap"} THEN "create" ELSE "outer"

\* Mutant: hopBind.Close only sets its flag.
UnbindKeepsSocket(p) ==
    /\ pc[p] = "unbind"
    /\ Goto(p, IF Tun(p) \in net THEN "wait" ELSE AfterInner(p))
    /\ UNCHANGED <<op, ctx, left, live, socks, hopVars, hop, outer, told>>
    /\ Stay

\* If the tunnel has an inner device, device.Close closes its hopBind ...
Unbind(p) ==
    /\ pc[p] = "unbind"
    /\ sock' = sock \ {Tun(p)}
    /\ Goto(p, IF Tun(p) \in net THEN "wait" ELSE AfterInner(p))
    /\ UNCHANGED <<op, ctx, left, live, socks, inner, net, reader, hop, outer, told>>
    /\ Stay

\* ... and waits for its receive routine.
CloseInner(p) ==
    /\ pc[p] = "wait" /\ reader[Tun(p)] = "none"
    /\ inner' = inner \ {Tun(p)} /\ net' = net \ {Tun(p)}
    /\ Goto(p, AfterInner(p))
    /\ UNCHANGED <<op, ctx, left, live, socks, sock, reader, hop, outer, told>>
    /\ Stay

CloseOuter(p) ==
    /\ pc[p] = "outer"
    /\ outer' = outer \ {Tun(p)}
    /\ hop' = hop \ {Tun(p)} /\ told' = told \ {Tun(p)}
    /\ live' = IF p \in Calls THEN None ELSE live
    /\ \/ /\ ctx[p] = "drop"
          /\ Goto(p, "open") /\ cur' = None
          /\ UNCHANGED <<op, ctx, left, liveMu, sem>>
       \/ ctx[p] \in {"fail", "quit"} /\ Return(p)
    /\ UNCHANGED <<socks, hopVars>>

\* hopBind.receive: the connection is read under the lock and used after.
ReceiveTop(t) ==
    /\ reader[t] = "top"
    /\ reader' = [reader EXCEPT ![t] = IF t \in sock THEN "read" ELSE "none"]
    /\ UNCHANGED <<control, socks, inner, net, sock, hop, outer, told>>

\* ReadFrom returns a datagram, or an error once the connection is closed.
ReceivePacket(t) ==
    /\ reader[t] = "read" /\ t \in sock
    /\ reader' = [reader EXCEPT ![t] = "top"]
    /\ UNCHANGED <<control, socks, inner, net, sock, hop, outer, told>>

ReceiveClosed(t) ==
    /\ reader[t] = "read" /\ t \notin sock
    /\ reader' = [reader EXCEPT ![t] = "none"]
    /\ UNCHANGED <<control, socks, inner, net, sock, hop, outer, told>>

-----------------------------------------------------------------------------
(* serveSocks.                                                             *)

Accept(t) ==
    /\ t \in listen \ got
    /\ got' = got \cup {t}
    /\ UNCHANGED <<control, listen, served, hopVars, hop, outer, told>>

SwapHolds(t) ==
    \E c \in Calls :
        ctx[c] = "swap" /\ pc[c] \in {"unbind", "wait", "create", "raise"} /\ cur = t

\* Mutant: socksTarget reads innerNet without t.mu.
PickTargetUnlocked(t) ==
    /\ t \in got
    /\ got' = got \ {t}
    /\ served' = IF t \in net THEN "inner" ELSE "outer"
    /\ UNCHANGED <<control, listen, hopVars, hop, outer, told>>

\* socksTarget under t.mu. close writes innerNet without it. The source names
\* the field twice, with neither a call nor a store between; the compiler
\* loads it once, so the accept loop gets the old stack or the outer one.
PickTarget(t) ==
    /\ t \in got /\ ~SwapHolds(t)
    /\ got' = got \ {t}
    /\ served' = IF t \in net THEN "inner" ELSE "outer"
    /\ UNCHANGED <<control, listen, hopVars, hop, outer, told>>

-----------------------------------------------------------------------------
(* runPing.                                                                *)

Ping ==
    /\ \A p \in Probes : pc[p] = "idle"
    /\ pc' = [p \in Procs |-> IF p \in Probes THEN "want" ELSE pc[p]]
    /\ UNCHANGED <<op, ctx, left, live, socks, hopVars, hop, outer, told>>
    /\ Stay

Acquire(p) ==
    /\ pc[p] = "want" /\ p \in Probes
    /\ Cardinality(sem) < Parallel
    /\ sem' = sem \cup {p}
    /\ Goto(p, "open")
    /\ UNCHANGED <<op, ctx, left, liveMu, live, cur, socks, hopVars, hop, outer, told>>

\* socksGenerate204 ends, by its deadline at the latest; then t.close().
Measure(p) ==
    /\ pc[p] = "measure"
    /\ ctx' = [ctx EXCEPT ![p] = "quit"]
    /\ Goto(p, "ln")
    /\ UNCHANGED <<op, left, live, socks, hopVars, hop, outer, told>>
    /\ Stay

PingReturns ==
    /\ \A p \in Probes : pc[p] = "done"
    /\ pc' = [p \in Procs |-> IF p \in Probes THEN "idle" ELSE pc[p]]
    /\ UNCHANGED <<op, ctx, left, live, socks, hopVars, hop, outer, told>>
    /\ Stay

-----------------------------------------------------------------------------
Lock(c) == LockClose(c) \/ LockOpen(c) \/ LockSwap(c) \/ LockReturn(c)

Work(p) ==
    \/ OpenFails(p) \/ Open(p) \/ Up(p) \/ UpFails(p) \/ Listen(p) \/ ListenFails(p)
    \/ Create(p) \/ CreateFails(p) \/ Raise(p) \/ RaiseFails(p) \/ Lookup(p)
    \/ CloseListener(p) \/ Unbind(p) \/ CloseInner(p) \/ CloseOuter(p)
    \/ Measure(p)

Receive(t) == ReceiveTop(t) \/ ReceivePacket(t) \/ ReceiveClosed(t)

Next ==
    \/ \E c \in Calls : Call(c) \/ Lock(c)
    \/ \E p \in Procs : Work(p)
    \/ \E t \in Tunnels : Receive(t) \/ Accept(t) \/ PickTarget(t)
    \/ Ping \/ PingReturns
    \/ \E p \in Probes : Acquire(p)

\* Go's mutex hands itself to a waiter in the end (strong fairness); the
\* other steps are bounded waits. Nobody has to call or connect.
Fairness ==
    /\ \A c \in Calls : SF_vars(Lock(c))
    /\ \A p \in Procs : WF_vars(Work(p))
    /\ \A p \in Probes : SF_vars(Acquire(p))
    /\ \A t \in Tunnels : WF_vars(ReceiveTop(t)) /\ WF_vars(ReceiveClosed(t))
    /\ \A t \in Tunnels : WF_vars(PickTarget(t))

Spec == Init /\ [][Next]_vars /\ Fairness

-----------------------------------------------------------------------------
(* Properties.                                                             *)

Busy(p) == pc[p] \notin {"idle", "want", "done"}

InUse ==
    (({live, cur} \ {None}) \cup {p \in Probes : Busy(p)})

\* Whatever fails in openTunnel, startHop or the swap, every open device,
\* hop socket and listener belongs to the published tunnel, to the call that
\* holds liveMu or to a probe with a slot; an inner device never outlives
\* the outer one it sends through, and between calls the published tunnel is
\* complete but for an inner device the caller was told about, and an inner
\* device that is open is the one the tunnel knows and will close.
NoLeak ==
    /\ outer \cup listen \subseteq InUse
    /\ inner \subseteq outer /\ sock \subseteq inner
    /\ outer \cap Probes \subseteq sem
    /\ liveMu = None /\ live # None =>
         /\ live \in outer \cap listen
         /\ live \in hop \ told => live \in inner
         /\ live \in inner => live \in net

\* A hop tunnel gives a connection the outer stack, whose traffic leaves
\* from the first hop, only when the last AwgSetHopInner has answered an
\* error, or when the tunnel is being closed.
ExitsByInner ==
    [][\A t \in hop : t \in got \ got' /\ served' = "outer"
                      => t \in told \/ t \notin listen]_vars

\* Every call returns and every probe gets its result, although startLive
\* keeps liveMu through all waits of startHop.
CallsReturn ==
    /\ \A c \in Calls : pc[c] = "want" ~> pc[c] = "idle"
    /\ \A p \in Probes : pc[p] = "want" ~> pc[p] = "done"

\* Tunnel t is in the hands of a process that closes it.
BeingClosed(t) ==
    \E p \in Procs : Busy(p) /\ Tun(p) = t /\ ctx[p] \in {"drop", "fail", "quit"}

\* How far a tunnel is.
LifeOf(t) ==
    IF t \notin outer THEN "free"
    ELSE IF BeingClosed(t) THEN "closing"
    ELSE IF live = t THEN "running"
    ELSE "opening"

Life == INSTANCE EngineLife WITH
    Engines <- Tunnels, life <- [t \in Tunnels |-> LifeOf(t)]

\* AwgStart over a running tunnel closes that one first and completely; the
\* tunnels of AwgPing are never published.
ImplementsLife == Life!LifeSpec
=============================================================================
