--------------------------- MODULE UsqueSessions ---------------------------
(***************************************************************************)
(* The session registry of usque-ios/mobile/mobile.go and the calls of the *)
(* C interface that create, use and close sessions, from any number of     *)
(* application threads at once.                                            *)
(*                                                                         *)
(* A caller runs one call at a time; pc[c] is the next critical section or *)
(* blocking operation of its call. A registry section (under its mutex) or *)
(* a section under session.mu is one step. A session's own tunnel appears  *)
(* as the link of module SessionLink, which UsqueTunnel implements.        *)
(*                                                                         *)
(* A session whose ID is generated ("probe-N", "usque-N") uses the session *)
(* itself as its ID: registry.next never yields the same N twice.          *)
(***************************************************************************)
EXTENDS FiniteSets

CONSTANTS
    Callers,   \* threads of the application
    Sess,      \* session objects that are ever created (the bound)
    Relays,    \* hop relays that may be open at the same time (the bound)
    Default,   \* the ID "default" of Invoke("start")
    None

ASSUME NamesAssumption == Default \notin Sess /\ None \notin Sess \cup {Default}
ASSUME RelaysAssumption == None \notin Relays

Ids == Sess \cup {Default}

VARIABLES
    registry,    \* registry.m
    name,        \* session.id, None before the session object is made
    probes,      \* sessions whose ID starts with "probe-"
    asked,       \* history: sessions that stops of the application took away
    stopped,     \* sessions whose stopped flag is set
    ready,       \* sessions whose ready flag is set
    cancelled,   \* sessions whose context is cancelled
    devClosed,   \* sessions whose device is closed: close has returned
    relayOf,     \* session.relay
    relays,      \* relays whose local socket is open
    link,        \* SessionLink!link of each session; "off" before it starts
    op,          \* the call each caller is in
    pc,          \* where it stands
    own,         \* the session object this call created
    hold,        \* the session in hand: being closed, or looked up
    batch,       \* sessions this call took out of the registry to close
    rl           \* the relay in hand

sessVars == <<stopped, ready, cancelled, devClosed, relayOf, relays, link>>
callVars == <<op, pc, own, hold, batch, rl>>
vars == <<registry, name, probes, asked, sessVars, callVars>>

\* Calls that start a session, and those that wait for it to be ready.
Starting == {"PRUsqueStart", "start", "probe", "startProbe"}
Waiting == {"start", "probe", "startProbe"}
Ops == Starting \cup {"setHopRelay", "stop", "PRUsqueStop", "PRUsqueStopAll",
                      "abortProbes"}

Closing == {"flag", "cancel", "takeRelay", "closeRelay", "closeDev"}
PCs == Closing \cup {"idle", "insert", "wait", "look", "http", "hopLook",
                     "hopBind", "hopInstall", "hopOld", "status", "exists",
                     "stop"}

SharedOK ==
    /\ registry \in [Ids -> Sess \cup {None}]
    /\ name \in [Sess -> Ids \cup {None}]
    /\ probes \in SUBSET Sess
    /\ asked \in SUBSET Sess
    /\ stopped \in SUBSET Sess
    /\ ready \in SUBSET Sess
    /\ cancelled \in SUBSET Sess
    /\ devClosed \in SUBSET Sess
    /\ relayOf \in [Sess -> Relays \cup {None}]
    /\ relays \in SUBSET Relays
    /\ link \in [Sess -> {"off", "down", "up", "done"}]

CallsOK ==
    /\ op \in [Callers -> Ops \cup {None}]
    /\ pc \in [Callers -> PCs]
    /\ own \in [Callers -> Sess \cup {None}]
    /\ hold \in [Callers -> Sess \cup {None}]
    /\ batch \in [Callers -> SUBSET Sess]
    /\ rl \in [Callers -> Relays \cup {None}]

TypeOK == SharedOK /\ CallsOK

Init ==
    /\ registry = [i \in Ids |-> None]
    /\ name = [s \in Sess |-> None]
    /\ probes = {} /\ asked = {} /\ stopped = {} /\ ready = {} /\ cancelled = {}
    /\ devClosed = {} /\ relays = {}
    /\ relayOf = [s \in Sess |-> None]
    /\ link = [s \in Sess |-> "off"]
    /\ op = [c \in Callers |-> None]
    /\ pc = [c \in Callers |-> "idle"]
    /\ own = [c \in Callers |-> None]
    /\ hold = [c \in Callers |-> None]
    /\ batch = [c \in Callers |-> {}]
    /\ rl = [c \in Callers |-> None]

\* The ID the call works with: that of its own session, or "default".
Target(c) == IF own[c] = None THEN Default ELSE name[own[c]]

At(c, here) == pc[c] = here
Goto(c, there) == pc' = [pc EXCEPT ![c] = there]

\* The call returns: its locals are gone.
Return(c) ==
    /\ pc' = [pc EXCEPT ![c] = "idle"]
    /\ op' = [op EXCEPT ![c] = None]
    /\ own' = [own EXCEPT ![c] = None]
    /\ hold' = [hold EXCEPT ![c] = None]
    /\ batch' = [batch EXCEPT ![c] = {}]
    /\ rl' = [rl EXCEPT ![c] = None]

-----------------------------------------------------------------------------
(* Starting a session: startWithContext.                                   *)

\* Everything up to newSocksServer succeeded: a session object with its
\* context, network stack and listeners exists, known to this call only. A
\* failure before that leaves nothing behind, as if there was no call.
Create(c, o, s) ==
    /\ At(c, "idle")
    /\ name[s] = None
    /\ o \in Starting
    /\ \E id \in (CASE o = "start" -> {Default}
                    [] o = "PRUsqueStart" -> {Default, s}
                    [] OTHER -> {s}) : name' = [name EXCEPT ![s] = id]
    /\ probes' = IF o \in {"probe", "startProbe"} THEN probes \cup {s} ELSE probes
    /\ op' = [op EXCEPT ![c] = o]
    /\ own' = [own EXCEPT ![c] = s]
    /\ Goto(c, "insert")
    /\ UNCHANGED <<registry, asked, sessVars, hold, batch, rl>>

\* Mutant: a session whose ID is taken is dropped, not closed.
InsertExistsDrops(c) ==
    /\ At(c, "insert")
    /\ registry[name[own[c]]] # None
    /\ Return(c)
    /\ UNCHANGED <<registry, name, probes, asked, sessVars>>

\* The ID is taken: the new session is closed and the call fails.
InsertExists(c) ==
    /\ At(c, "insert")
    /\ registry[name[own[c]]] # None
    /\ batch' = [batch EXCEPT ![c] = {own[c]}]
    /\ hold' = [hold EXCEPT ![c] = own[c]]
    /\ Goto(c, "flag")
    /\ UNCHANGED <<registry, name, probes, asked, sessVars, op, own, rl>>

\* Mutant: the registry is written without asking whether the ID is taken.
RegisterOverwrites(c) ==
    /\ At(c, "insert")
    /\ registry' = [registry EXCEPT ![name[own[c]]] = own[c]]
    /\ link' = [link EXCEPT ![own[c]] = "down"]
    /\ UNCHANGED <<name, probes, asked, stopped, ready, cancelled, devClosed,
                   relayOf, relays>>

\* The session is registered and its tunnel and SOCKS server start.
Register(c) ==
    /\ At(c, "insert")
    /\ registry[name[own[c]]] = None
    /\ registry' = [registry EXCEPT ![name[own[c]]] = own[c]]
    /\ link' = [link EXCEPT ![own[c]] = "down"]
    /\ UNCHANGED <<name, probes, asked, stopped, ready, cancelled, devClosed,
                   relayOf, relays>>

\* PRUsqueStart is done then; the other calls wait for the handshake.
InsertReturns(c) == Register(c) /\ op[c] \notin Waiting /\ Return(c)

InsertWaits(c) ==
    /\ Register(c)
    /\ op[c] \in Waiting
    /\ Goto(c, "wait")
    /\ UNCHANGED <<op, own, hold, batch, rl>>

-----------------------------------------------------------------------------
(* waitReadyContext polls the registry by ID, not the session it started.  *)

\* Some session with this ID is ready. "start" goes on to the hop relay, if
\* the request has one, or to the status; a probe looks its session up.
WaitReady(c) ==
    /\ At(c, "wait")
    /\ registry[Target(c)] \in ready
    /\ \E there \in {"hopLook", "status", "look"} :
         /\ there = "look" <=> op[c] # "start"
         /\ Goto(c, there)
    /\ UNCHANGED <<registry, name, probes, asked, sessVars, op, own, hold, batch, rl>>

\* Mutant: the wait has no deadline.
WaitFailsOnlyWhenGone(c) ==
    /\ At(c, "wait")
    /\ registry[Target(c)] = None
    /\ Goto(c, "stop")
    /\ UNCHANGED <<registry, name, probes, asked, sessVars, op, own, hold, batch, rl>>

\* No session with this ID any more, or the time is up: every waiting call
\* then stops whatever session has the ID.
WaitFails(c) ==
    /\ At(c, "wait")
    /\ registry[Target(c)] \notin ready
    /\ Goto(c, "stop")
    /\ UNCHANGED <<registry, name, probes, asked, sessVars, op, own, hold, batch, rl>>

\* The deadline of a probe cancels its session's context, whose parent it is.
ProbeDeadline(c) ==
    /\ op[c] = "probe"
    /\ own[c] # None
    /\ own[c] \notin cancelled
    /\ cancelled' = cancelled \cup {own[c]}
    /\ UNCHANGED <<registry, name, probes, asked, stopped, ready, devClosed, relayOf,
                   relays, link, callVars>>

\* The second lookup of probe and startProbe. A startProbe returns if its
\* session disappeared or it needs no hop relay; a probe whose session
\* disappeared still runs its deferred Stop.
LookReturns(c) ==
    /\ At(c, "look")
    /\ op[c] = "startProbe"
    /\ Return(c)
    /\ UNCHANGED <<registry, name, probes, asked, sessVars>>

LookGoesOn(c) ==
    /\ At(c, "look")
    /\ \E there \in {"hopLook", "http", "stop"} :
         /\ there = "stop" <=> registry[Target(c)] = None
         /\ there = "hopLook" <=> op[c] = "startProbe"
         /\ Goto(c, there)
    /\ UNCHANGED <<registry, name, probes, asked, sessVars, op, own, hold, batch, rl>>

\* runGenerate204Probe answers or gives up; then the deferred Stop.
ProbeDone(c) ==
    /\ At(c, "http")
    /\ Goto(c, "stop")
    /\ UNCHANGED <<registry, name, probes, asked, sessVars, op, own, hold, batch, rl>>

\* "start" ends with Status by ID, an answer about whichever session has it.
StatusReturns(c) ==
    /\ At(c, "status")
    /\ Return(c)
    /\ UNCHANGED <<registry, name, probes, asked, sessVars>>

-----------------------------------------------------------------------------
(* setHopRelay, as a call and as a part of start and startProbe.           *)

BeginSetHopRelay(c) ==
    /\ At(c, "idle")
    /\ op' = [op EXCEPT ![c] = "setHopRelay"]
    /\ Goto(c, "hopLook")
    /\ UNCHANGED <<registry, name, probes, asked, sessVars, own, hold, batch, rl>>

\* An error of setHopRelay: a starting call stops the session of its ID.
HopError(c) ==
    \/ /\ op[c] = "setHopRelay"
       /\ Return(c)
    \/ /\ op[c] # "setHopRelay"
       /\ Goto(c, "stop")
       /\ rl' = [rl EXCEPT ![c] = None]
       /\ hold' = [hold EXCEPT ![c] = None]
       /\ UNCHANGED <<op, own, batch>>

\* The lookup, and the first look at the stopped flag.
HopLookFails(c) ==
    /\ At(c, "hopLook")
    /\ registry[Target(c)] \in stopped \cup {None}
    /\ HopError(c)
    /\ UNCHANGED <<registry, name, probes, asked, sessVars>>

HopLook(c) ==
    /\ At(c, "hopLook")
    /\ registry[Target(c)] \notin stopped \cup {None}
    /\ hold' = [hold EXCEPT ![c] = registry[Target(c)]]
    /\ Goto(c, "hopBind")
    /\ UNCHANGED <<registry, name, probes, asked, sessVars, op, own, batch, rl>>

\* A bad target, or newUDPRelay could not bind.
HopBindFails(c) ==
    /\ At(c, "hopBind")
    /\ HopError(c)
    /\ UNCHANGED <<registry, name, probes, asked, sessVars>>

HopBind(c, r) ==
    /\ At(c, "hopBind")
    /\ r \notin relays
    /\ relays' = relays \cup {r}
    /\ rl' = [rl EXCEPT ![c] = r]
    /\ Goto(c, "hopInstall")
    /\ UNCHANGED <<registry, name, probes, asked, stopped, ready, cancelled, devClosed,
                   relayOf, link, op, own, hold, batch>>

\* Under session.mu the stopped flag is read again: the relay of a session
\* that began to close meanwhile is closed here.
HopInstallStopped(c) ==
    /\ At(c, "hopInstall")
    /\ hold[c] \in stopped
    /\ relays' = relays \ {rl[c]}
    /\ HopError(c)
    /\ UNCHANGED <<registry, name, probes, asked, stopped, ready, cancelled, devClosed,
                   relayOf, link>>

\* Mutant: the stopped flag is not read again under session.mu.
HopInstallUnchecked(c) ==
    /\ At(c, "hopInstall")
    /\ relayOf' = [relayOf EXCEPT ![hold[c]] = rl[c]]
    /\ rl' = [rl EXCEPT ![c] = relayOf[hold[c]]]
    /\ Goto(c, "hopOld")
    /\ UNCHANGED <<registry, name, probes, asked, stopped, ready, cancelled, devClosed,
                   relays, link, op, own, hold, batch>>

\* Otherwise it becomes the session's relay; the previous one is now in hand.
HopInstall(c) ==
    /\ At(c, "hopInstall")
    /\ hold[c] \notin stopped
    /\ relayOf' = [relayOf EXCEPT ![hold[c]] = rl[c]]
    /\ rl' = [rl EXCEPT ![c] = relayOf[hold[c]]]
    /\ Goto(c, "hopOld")
    /\ UNCHANGED <<registry, name, probes, asked, stopped, ready, cancelled, devClosed,
                   relays, link, op, own, hold, batch>>

\* The previous relay is closed, the new one served; "start" goes on.
HopOld(c) ==
    /\ At(c, "hopOld")
    /\ relays' = relays \ {rl[c]}
    /\ \/ /\ op[c] = "start"
          /\ Goto(c, "status")
          /\ rl' = [rl EXCEPT ![c] = None]
          /\ hold' = [hold EXCEPT ![c] = None]
          /\ UNCHANGED <<op, own, batch>>
       \/ op[c] # "start" /\ Return(c)
    /\ UNCHANGED <<registry, name, probes, asked, stopped, ready, cancelled, devClosed,
                   relayOf, link>>

-----------------------------------------------------------------------------
(* Stopping: the registry section of each call, then session.close.        *)

\* Invoke("stop") first asks whether "default" exists.
BeginInvokeStop(c) ==
    /\ At(c, "idle")
    /\ op' = [op EXCEPT ![c] = "stop"]
    /\ Goto(c, "exists")
    /\ UNCHANGED <<registry, name, probes, asked, sessVars, own, hold, batch, rl>>

ExistsNot(c) ==
    /\ At(c, "exists")
    /\ registry[Default] = None
    /\ Return(c)
    /\ UNCHANGED <<registry, name, probes, asked, sessVars>>

ExistsYes(c) ==
    /\ At(c, "exists")
    /\ registry[Default] # None
    /\ Goto(c, "stop")
    /\ UNCHANGED <<registry, name, probes, asked, sessVars, op, own, hold, batch, rl>>

\* Mutant: the sessions stay in the registry while they are closed.
TakeKeeps(c, ss) ==
    /\ batch' = [batch EXCEPT ![c] = ss]
    /\ \E s \in ss : hold' = [hold EXCEPT ![c] = s]
    /\ Goto(c, "flag")
    /\ UNCHANGED registry

\* The sessions ss leave the registry for this call to close, in the order of
\* a Go map or list: any.
Take(c, ss) ==
    /\ registry' = [i \in Ids |-> IF registry[i] \in ss THEN None ELSE registry[i]]
    /\ batch' = [batch EXCEPT ![c] = ss]
    /\ \E s \in ss : hold' = [hold EXCEPT ![c] = s]
    /\ Goto(c, "flag")

\* Stop(id) on an unknown session fails.
StopUnknown(c) ==
    /\ At(c, "stop")
    /\ registry[Target(c)] = None
    /\ Return(c)
    /\ UNCHANGED <<registry, name, probes, asked, sessVars>>

\* Lookup and delete are one section of the registry's lock. It is the
\* application's stop, or that of a failing start; asked follows both.
StopKnown(c) ==
    /\ At(c, "stop")
    /\ registry[Target(c)] # None
    /\ Take(c, {registry[Target(c)]})
    /\ asked' = IF own[c] \in asked \cup {None} THEN asked \cup {registry[Target(c)]}
                                                ELSE asked
    /\ UNCHANGED <<name, probes, sessVars, op, own, rl>>

\* PRUsqueStop with any registered ID.
PRUsqueStop(c, id) ==
    /\ At(c, "idle")
    /\ registry[id] # None
    /\ op' = [op EXCEPT ![c] = "PRUsqueStop"]
    /\ Take(c, {registry[id]})
    /\ asked' = asked \cup {registry[id]}
    /\ UNCHANGED <<name, probes, sessVars, own, rl>>

\* StopAll swaps the map for an empty one.
PRUsqueStopAll(c) ==
    LET all == {registry[i] : i \in Ids} \ {None} IN
    /\ At(c, "idle")
    /\ all # {}
    /\ op' = [op EXCEPT ![c] = "PRUsqueStopAll"]
    /\ Take(c, all)
    /\ asked' = asked \cup all
    /\ UNCHANGED <<name, probes, sessVars, own, rl>>

\* abortProbes takes the sessions of probes.
AbortProbes(c) ==
    LET all == {registry[i] : i \in Ids} \cap probes IN
    /\ At(c, "idle")
    /\ all # {}
    /\ op' = [op EXCEPT ![c] = "abortProbes"]
    /\ Take(c, all)
    /\ asked' = asked \cup all
    /\ UNCHANGED <<name, probes, sessVars, own, rl>>

\* close is done with the session in hand: the next of the batch, or return.
NextOfBatch(c) ==
    \/ /\ batch[c] = {hold[c]}
       /\ Return(c)
    \/ \E s \in batch[c] \ {hold[c]} :
         /\ batch' = [batch EXCEPT ![c] = @ \ {hold[c]}]
         /\ hold' = [hold EXCEPT ![c] = s]
         /\ Goto(c, "flag")
         /\ rl' = [rl EXCEPT ![c] = None]
         /\ UNCHANGED <<op, own>>

\* stopped.Swap(true); if it already was, somebody else closes this session.
CloseFlag(c) ==
    /\ At(c, "flag")
    /\ IF hold[c] \in stopped
         THEN NextOfBatch(c) /\ UNCHANGED <<stopped, ready>>
         ELSE /\ stopped' = stopped \cup {hold[c]}
              /\ ready' = ready \ {hold[c]}
              /\ Goto(c, "cancel")
              /\ UNCHANGED <<op, own, hold, batch, rl>>
    /\ UNCHANGED <<registry, name, probes, asked, cancelled, devClosed, relayOf, relays,
                   link>>

\* s.cancel() and the SOCKS server's close.
CloseCancel(c) ==
    /\ At(c, "cancel")
    /\ cancelled' = cancelled \cup {hold[c]}
    /\ Goto(c, "takeRelay")
    /\ UNCHANGED <<registry, name, probes, asked, stopped, ready, devClosed, relayOf,
                   relays, link, op, own, hold, batch, rl>>

\* Under session.mu: the relay is taken out.
CloseTakeRelay(c) ==
    /\ At(c, "takeRelay")
    /\ rl' = [rl EXCEPT ![c] = relayOf[hold[c]]]
    /\ relayOf' = [relayOf EXCEPT ![hold[c]] = None]
    /\ Goto(c, "closeRelay")
    /\ UNCHANGED <<registry, name, probes, asked, stopped, ready, cancelled, devClosed,
                   relays, link, op, own, hold, batch>>

CloseRelay(c) ==
    /\ At(c, "closeRelay")
    /\ relays' = relays \ {rl[c]}
    /\ rl' = [rl EXCEPT ![c] = None]
    /\ Goto(c, "closeDev")
    /\ UNCHANGED <<registry, name, probes, asked, stopped, ready, cancelled, devClosed,
                   relayOf, link, op, own, hold, batch>>

CloseDev(c) ==
    /\ At(c, "closeDev")
    /\ devClosed' = devClosed \cup {hold[c]}
    /\ NextOfBatch(c)
    /\ UNCHANGED <<registry, name, probes, asked, stopped, ready, cancelled, relayOf,
                   relays, link>>

-----------------------------------------------------------------------------
(* The tunnel of a session, as SessionLink promises it.                    *)

LinkUp(s) ==
    /\ link[s] = "down"
    /\ link' = [link EXCEPT ![s] = "up"]
    /\ ready' = ready \cup {s}
    /\ UNCHANGED <<registry, name, probes, asked, stopped, cancelled, devClosed,
                   relayOf,
                   relays, callVars>>

LinkLost(s) ==
    /\ link[s] = "up"
    /\ link' = [link EXCEPT ![s] = "down"]
    /\ ready' = ready \ {s}
    /\ UNCHANGED <<registry, name, probes, asked, stopped, cancelled, devClosed,
                   relayOf,
                   relays, callVars>>

LinkGivesUp(s) ==
    /\ link[s] = "down"
    /\ s \in cancelled
    /\ link' = [link EXCEPT ![s] = "done"]
    /\ UNCHANGED <<registry, name, probes, asked, stopped, ready, cancelled, devClosed,
                   relayOf, relays, callVars>>

-----------------------------------------------------------------------------
\* A call that has begun runs on; waits have deadlines, HTTP has retries.
Continue(c) ==
    \/ InsertExists(c) \/ InsertReturns(c) \/ InsertWaits(c)
    \/ WaitReady(c) \/ WaitFails(c)
    \/ LookReturns(c) \/ LookGoesOn(c) \/ ProbeDone(c) \/ StatusReturns(c)
    \/ HopLookFails(c) \/ HopLook(c) \/ HopBindFails(c)
    \/ (\E r \in Relays : HopBind(c, r))
    \/ HopInstallStopped(c) \/ HopInstall(c) \/ HopOld(c)
    \/ ExistsNot(c) \/ ExistsYes(c) \/ StopUnknown(c) \/ StopKnown(c)
    \/ CloseFlag(c) \/ CloseCancel(c) \/ CloseTakeRelay(c)
    \/ CloseRelay(c) \/ CloseDev(c)

Begin(c) ==
    \/ \E o \in Starting, s \in Sess : Create(c, o, s)
    \/ BeginSetHopRelay(c) \/ BeginInvokeStop(c)
    \/ \E id \in Ids : PRUsqueStop(c, id)
    \/ PRUsqueStopAll(c) \/ AbortProbes(c)

Tunnel(s) == LinkUp(s) \/ LinkLost(s) \/ LinkGivesUp(s)

Next ==
    \/ \E c \in Callers : Begin(c) \/ Continue(c) \/ ProbeDeadline(c)
    \/ \E s \in Sess : Tunnel(s)

\* Go runs every goroutine that can run. Nothing makes an application call,
\* a handshake succeed or a link fail.
Fairness == \A c \in Callers : WF_vars(Continue(c))

Spec == Init /\ [][Next]_vars /\ Fairness

-----------------------------------------------------------------------------
(* Properties.                                                             *)

\* c is in the middle of closing its batch.
IsClosing(c, s) == pc[c] \in Closing /\ s \in batch[c]

\* A session whose device is open can be reached: by its ID, or by the one
\* call that is about to register it or has yet to carry its close through.
\* Otherwise its listeners, stack and tunnel would run until the process
\* ends (mobile.go:150-223, 736-753).
NoOrphan ==
    \A s \in Sess : name[s] # None /\ s \notin devClosed =>
        \/ registry[name[s]] = s
        \/ \E c \in Callers :
             \/ own[c] = s /\ pc[c] = "insert"
             \/ IsClosing(c, s)

\* Closing a device twice closes a channel twice, a panic. No two calls have
\* the same session to close, and none has one that is still registered.
OneCloser ==
    \A c \in Callers : pc[c] \in Closing =>
        \A s \in batch[c] :
            /\ registry[name[s]] # s
            /\ s \notin devClosed
            /\ \A d \in Callers \ {c} : ~IsClosing(d, s)

\* README: stop cancels "UDP relays". An open relay belongs to a session that
\* will be asked for it when it closes, or is in the hands of one call that
\* will install or close it: setHopRelay racing with close leaks none.
RelayOwned ==
    \A r \in relays :
        \/ \E c \in Callers :
             rl[c] = r /\ pc[c] \in {"hopInstall", "hopOld", "closeRelay"}
        \/ \E s \in Sess :
             /\ relayOf[s] = r
             /\ \/ s \notin stopped
                \/ \E c \in Callers :
                     hold[c] = s /\ pc[c] \in {"cancel", "takeRelay"}

\* A session's device goes last: its context is cancelled and its relay gone.
ClosedMeansReleased ==
    \A s \in devClosed : s \in cancelled /\ relayOf[s] = None

\* The waiting calls find sessions by ID (mobile.go:326-336, 554-585). As long
\* as the application stops none of them, the ID leads a start to its own
\* session: its wait, relay, status and, if it fails, its stop never act on
\* another call's. Only a start whose session the application stopped under
\* it may, and then whoever lost a session to such a start.
IdLeadsToOwn ==
    \A c \in Callers :
        /\ own[c] # None
        /\ pc[c] \notin Closing \cup {"insert"}
        /\ own[c] \notin asked
        => registry[name[own[c]]] = own[c]

\* Every call of the C interface returns: nothing it waits for is unbounded.
CallsReturn == \A c \in Callers : pc[c] # "idle" ~> pc[c] = "idle"

\* How far a session is, as those see it who know the ID i.
LifeOf(i, s) ==
    IF registry[i] = s THEN "running"
    ELSE IF name[s] # i \/ s \in devClosed THEN "free"
    ELSE IF \E c \in Callers : own[c] = s /\ pc[c] = "insert" THEN "opening"
    ELSE "closing"

Life(i) == INSTANCE EngineLife WITH
    Engines <- Sess, life <- [s \in Sess |-> LifeOf(i, s)]

\* Under an ID one session runs at a time: a start with an ID in use closes
\* its own session, and none is registered again once a stop took it out.
ImplementsLife(i) == Life(i)!LifeSpec

\* What SessionLink says of one session.
Link(s) == INSTANCE SessionLink WITH
    link <- IF link[s] = "off" THEN "down" ELSE link[s],
    ready <- s \in ready, stopped <- s \in stopped, ended <- s \in cancelled

\* The tunnel of each session, as this module has it, keeps the promise that
\* UsqueTunnel implements, whatever the calls on the session do.
ImplementsLink(s) == Link(s)!LinkSpec
=============================================================================
