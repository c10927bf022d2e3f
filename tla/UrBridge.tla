------------------------------ MODULE UrBridge ------------------------------
(***************************************************************************)
(* The URnetwork bridge (urnetwork_bridge.go): PRUrStart and PRUrStop from *)
(* concurrent callers, the session they share, and the process-wide        *)
(* upstream SOCKS proxy of urnetwork-overlay/upstream_socks.go, which      *)
(* every dial of every open device reads at the moment it dials.           *)
(*                                                                         *)
(* The URnetwork SDK is external: its device is open or not, and while it  *)
(* looks for providers its window status changes and is announced to the   *)
(* listener by a callback of its own goroutine, one at a time. What the    *)
(* SOCKS listener does with its clients is left out.                       *)
(***************************************************************************)
CONSTANTS
    Callers,    \* threads of the application
    Sessions,   \* bound on the sessions alive at the same time
    Proxies,    \* non-empty upstream addresses
    Direct,     \* the empty one
    None

Window == {"searching", "ready"}

ASSUME NoneAssumption ==
    None \notin Callers /\ None \notin Sessions /\ None \notin Window
ASSUME DirectAssumption == Direct \notin Proxies

VARIABLES
    mu,         \* urMu: the caller inside urStart, or None
    cur,        \* urCurrent
    upstream,   \* upstreamSocks
    pc, mine,   \* each call: where it is, the session it opens or closes
    want,       \* the upstream it was asked for
    dev, ln,    \* each session's device with its manager, and listener
    via,        \* the upstream each session was started with
    win, note,  \* the window status, and the announcement on its way
    accept, ch  \* what urStatusWatch was given: the flag, the channel

call == <<pc, mine, want>>
watch == <<win, note, accept, ch>>
vars == <<mu, cur, upstream, pc, mine, want, dev, ln, via, win, note, accept, ch>>

Upstreams == Proxies \cup {Direct}

\* Inside urStart with urMu held: before and after the device exists.
Opening == {"watch", "check", "wait", "bind"}
Starting == Opening \cup {"set", "open", "undo"}
\* Inside urStop, with the session that was taken.
Closing == {"closeListener", "closeDevice"}

TypeOK ==
    /\ mu \in Callers \cup {None}
    /\ cur \in Sessions \cup {None}
    /\ upstream \in Upstreams
    /\ pc \in [Callers -> {"idle", "start", "stop", "clear"} \cup Starting \cup Closing]
    /\ mine \in [Callers -> Sessions \cup {None}]
    /\ \A c \in Callers : pc[c] \in Opening \cup Closing <=> mine[c] # None
    /\ want \in [Callers -> Upstreams]
    /\ dev \in [Sessions -> {"free", "open"}]
    /\ ln \in [Sessions -> {"free", "open"}]
    /\ via \in [Sessions -> Upstreams]
    /\ win \in Window
    /\ note \in Window \cup {None}
    /\ accept \in {"no", "yes"}
    /\ ch \in {"empty", "full"}

Init ==
    /\ mu = None
    /\ cur = None
    /\ upstream = Direct
    /\ pc = [c \in Callers |-> "idle"]
    /\ mine = [c \in Callers |-> None]
    /\ want = [c \in Callers |-> Direct]
    /\ dev = [s \in Sessions |-> "free"]
    /\ ln = [s \in Sessions |-> "free"]
    /\ via = [s \in Sessions |-> Direct]
    /\ win = "searching"
    /\ note = None
    /\ accept = "no"
    /\ ch = "empty"

Goto(c, l) == pc' = [pc EXCEPT ![c] = l]

-----------------------------------------------------------------------------
(* urStart.                                                                *)

\* PRUrStart with a valid request; an invalid one changes nothing.
Start(c, u) ==
    /\ pc[c] = "idle"
    /\ Goto(c, "start")
    /\ want' = [want EXCEPT ![c] = u]
    /\ UNCHANGED <<mu, cur, upstream, mine, dev, ln, via, watch>>

AlreadyRunning(c) ==
    /\ pc[c] = "start" /\ mu = None
    /\ cur # None
    /\ Goto(c, "idle")
    /\ UNCHANGED <<mu, cur, upstream, mine, want, dev, ln, via, watch>>

\* Mutant: the running session is not looked for.
StartLockUnchecked(c) ==
    /\ pc[c] = "start" /\ mu = None
    /\ mu' = c
    /\ Goto(c, "set")
    /\ UNCHANGED <<cur, upstream, mine, want, dev, ln, via, watch>>

StartLock(c) ==
    /\ pc[c] = "start" /\ mu = None
    /\ cur = None
    /\ mu' = c
    /\ Goto(c, "set")
    /\ UNCHANGED <<cur, upstream, mine, want, dev, ln, via, watch>>

SetUpstream(c) ==
    /\ pc[c] = "set"
    /\ upstream' = want[c]
    /\ Goto(c, "open")
    /\ UNCHANGED <<mu, cur, mine, want, dev, ln, via, watch>>

\* urOpen: the instance id cannot be written, or the device not created.
OpenFails(c) ==
    /\ pc[c] = "open"
    /\ Goto(c, "undo")
    /\ UNCHANGED <<mu, cur, upstream, mine, want, dev, ln, via, watch>>

\* urOpen up to SetConnectLocation: the device exists and searches, with a
\* fresh listener that does not accept yet. The country lookup answers or
\* times out; either way there is a location.
OpenDevice(c, s) ==
    /\ pc[c] = "open"
    /\ dev[s] = "free" /\ ln[s] = "free"
    /\ dev' = [dev EXCEPT ![s] = "open"]
    /\ via' = [via EXCEPT ![s] = want[c]]
    /\ mine' = [mine EXCEPT ![c] = s]
    /\ win' = "searching" /\ note' = None /\ accept' = "no" /\ ch' = "empty"
    /\ Goto(c, "watch")
    /\ UNCHANGED <<mu, cur, upstream, want, ln>>

AcceptStatus(c) ==
    /\ pc[c] = "watch"
    /\ accept' = "yes"
    /\ Goto(c, "check")
    /\ UNCHANGED <<mu, cur, upstream, mine, want, dev, ln, via, win, note, ch>>

\* Mutant: the status of before accept is not looked at.
CheckStatusSkips(c) ==
    /\ pc[c] = "check"
    /\ Goto(c, "wait")
    /\ UNCHANGED <<mu, cur, upstream, mine, want, dev, ln, via, watch>>

\* GetWindowStatus after the flag; the channel holds one token at most.
CheckStatus(c) ==
    /\ pc[c] = "check"
    /\ ch' = IF win = "ready" THEN "full" ELSE ch
    /\ Goto(c, "wait")
    /\ UNCHANGED <<mu, cur, upstream, mine, want, dev, ln, via, win, note, accept>>

WaitReady(c) ==
    /\ pc[c] = "wait" /\ ch = "full"
    /\ ch' = "empty"
    /\ Goto(c, "bind")
    /\ UNCHANGED <<mu, cur, upstream, mine, want, dev, ln, via, win, note, accept>>

\* No provider within urProvWait (urShieldWait behind a proxy). The select
\* may take this branch although a token has just arrived.
WaitTimeout(c) ==
    /\ pc[c] = "wait"
    /\ dev' = [dev EXCEPT ![mine[c]] = "free"]
    /\ mine' = [mine EXCEPT ![c] = None]
    /\ Goto(c, "undo")
    /\ UNCHANGED <<mu, cur, upstream, want, ln, via, watch>>

BindFails(c) ==
    /\ pc[c] = "bind"
    /\ dev' = [dev EXCEPT ![mine[c]] = "free"]
    /\ mine' = [mine EXCEPT ![c] = None]
    /\ Goto(c, "undo")
    /\ UNCHANGED <<mu, cur, upstream, want, ln, via, watch>>

\* The listener is bound, the session registered, and urMu released.
Bind(c) ==
    /\ pc[c] = "bind"
    /\ ln' = [ln EXCEPT ![mine[c]] = "open"]
    /\ cur' = mine[c]
    /\ mine' = [mine EXCEPT ![c] = None]
    /\ mu' = None
    /\ Goto(c, "idle")
    /\ UNCHANGED <<upstream, want, dev, via, watch>>

\* Mutant: a failed start leaves its upstream behind.
UndoKeepsUpstream(c) ==
    /\ pc[c] = "undo"
    /\ mu' = None
    /\ Goto(c, "idle")
    /\ UNCHANGED <<cur, upstream, mine, want, dev, ln, via, watch>>

\* Mutant: a failed start returns with urMu locked.
UndoKeepsLock(c) ==
    /\ pc[c] = "undo"
    /\ upstream' = Direct
    /\ Goto(c, "idle")
    /\ UNCHANGED <<mu, cur, mine, want, dev, ln, via, watch>>

Undo(c) ==
    /\ pc[c] = "undo"
    /\ upstream' = Direct
    /\ mu' = None
    /\ Goto(c, "idle")
    /\ UNCHANGED <<cur, mine, want, dev, ln, via, watch>>

-----------------------------------------------------------------------------
(* The SDK's goroutines while a start waits for providers.                 *)

WindowChanges ==
    /\ \E c \in Callers : pc[c] \in {"watch", "check", "wait"}
    /\ note = None
    /\ win' \in Window \ {win}
    /\ note' = win'
    /\ UNCHANGED <<mu, cur, upstream, call, dev, ln, via, accept, ch>>

\* urStatusWatch.WindowStatusChanged: a send that never blocks.
WindowStatusChanged ==
    /\ note # None
    /\ ch' = IF accept = "yes" /\ note = "ready" THEN "full" ELSE ch
    /\ note' = None
    /\ UNCHANGED <<mu, cur, upstream, call, dev, ln, via, win, accept>>

-----------------------------------------------------------------------------
(* urStop.                                                                 *)

Stop(c) ==
    /\ pc[c] = "idle"
    /\ Goto(c, "stop")
    /\ UNCHANGED <<mu, cur, upstream, mine, want, dev, ln, via, watch>>

\* The session is taken and urMu released again before it is closed.
StopTake(c) ==
    /\ pc[c] = "stop" /\ mu = None
    /\ cur # None
    /\ mine' = [mine EXCEPT ![c] = cur]
    /\ cur' = None
    /\ Goto(c, "closeListener")
    /\ UNCHANGED <<mu, upstream, want, dev, ln, via, watch>>

StopNothing(c) ==
    /\ pc[c] = "stop" /\ mu = None
    /\ cur = None
    /\ Goto(c, "clear")
    /\ UNCHANGED <<mu, cur, upstream, mine, want, dev, ln, via, watch>>

\* The context is cancelled and the listener closed.
CloseListener(c) ==
    /\ pc[c] = "closeListener"
    /\ ln' = [ln EXCEPT ![mine[c]] = "free"]
    /\ Goto(c, "closeDevice")
    /\ UNCHANGED <<mu, cur, upstream, mine, want, dev, via, watch>>

\* Mutant: the device is left running.
CloseDeviceSkips(c) ==
    /\ pc[c] = "closeDevice"
    /\ mine' = [mine EXCEPT ![c] = None]
    /\ Goto(c, "clear")
    /\ UNCHANGED <<mu, cur, upstream, want, dev, ln, via, watch>>

CloseDevice(c) ==
    /\ pc[c] = "closeDevice"
    /\ dev' = [dev EXCEPT ![mine[c]] = "free"]
    /\ mine' = [mine EXCEPT ![c] = None]
    /\ Goto(c, "clear")
    /\ UNCHANGED <<mu, cur, upstream, want, ln, via, watch>>

\* The trailing SetUpstreamSocks(""), outside urMu.
ClearUpstream(c) ==
    /\ pc[c] = "clear"
    /\ upstream' = Direct
    /\ Goto(c, "idle")
    /\ UNCHANGED <<mu, cur, mine, want, dev, ln, via, watch>>

-----------------------------------------------------------------------------
Running(c) ==
    \/ SetUpstream(c) \/ OpenFails(c) \/ (\E s \in Sessions : OpenDevice(c, s))
    \/ AcceptStatus(c) \/ CheckStatus(c) \/ WaitReady(c) \/ WaitTimeout(c)
    \/ BindFails(c) \/ Bind(c) \/ Undo(c)
    \/ CloseListener(c) \/ CloseDevice(c) \/ ClearUpstream(c)

Locking(c) ==
    AlreadyRunning(c) \/ StartLock(c) \/ StopTake(c) \/ StopNothing(c)

Next ==
    \/ \E c \in Callers : Running(c) \/ Locking(c) \/ Stop(c)
    \/ \E c \in Callers, u \in Upstreams : Start(c, u)
    \/ WindowChanges \/ WindowStatusChanged

\* A call runs on (its waits time out) and Go's mutex does not starve.
Fairness == \A c \in Callers : WF_vars(Running(c)) /\ SF_vars(Locking(c))

Spec == Init /\ [][Next]_vars /\ Fairness

-----------------------------------------------------------------------------
(* Properties.                                                             *)

\* Whatever is open is the registered session's or belongs to the one call
\* that opens or closes it: no path of urStart or urStop loses a device or a
\* listener, and no two calls close the same one.
NoOrphan ==
    \A s \in Sessions :
        /\ dev[s] = "open" \/ ln[s] = "open" =>
              cur = s \/ \E c \in Callers : mine[c] = s
        /\ cur = s => dev[s] = "open" /\ ln[s] = "open"
                      /\ \A c \in Callers : mine[c] # s
        /\ \A c, d \in Callers : mine[c] = s /\ mine[d] = s => c = d

\* When no call is under way and no session registered, the process dials
\* directly again and nothing is open, whatever calls overlapped before.
IdleIsClean ==
    (cur = None /\ \A c \in Callers : pc[c] = "idle") =>
        /\ upstream = Direct
        /\ \A s \in Sessions : dev[s] = "free" /\ ln[s] = "free"

\* No wakeup is lost: when a start waits, the window is ready and nothing is
\* on its way to the listener, the token that ends the wait is there. This
\* is why the flag is stored before the status is read.
NoLostReady ==
    \A c \in Callers :
        pc[c] = "wait" /\ win = "ready" /\ note = None => ch = "full"

\* upstream_socks.go: "every later socket follows it": an open device dials
\* through the upstream it was started with.
DialsFollowUpstream == \A s \in Sessions : dev[s] = "open" => upstream = via[s]

\* Whatever a late clear does to it, the session that is registered or being
\* opened never dials through the proxy of somebody else's start.
OwnProxyOrNone ==
    \A s \in Sessions :
        (cur = s \/ \E c \in Callers : pc[c] \in Opening /\ mine[c] = s)
            => upstream \in {via[s], Direct}

\* Every call returns, a stop although it waits for a start's urMu.
CallsReturn == \A c \in Callers : pc[c] # "idle" ~> pc[c] = "idle"

\* A session that somebody asks to stop is closed, device and listener.
StopCloses ==
    \A s \in Sessions :
        (cur = s /\ \E c \in Callers : pc[c] = "stop") ~> (dev[s] = "free" /\ ln[s] = "free")

\* How far a session is, by what is open and who has it.
LifeOf(s) ==
    IF cur = s THEN "running"
    ELSE IF dev[s] = "free" /\ ln[s] = "free" THEN "free"
    ELSE IF \E c \in Callers : mine[c] = s /\ pc[c] \in Opening THEN "opening"
    ELSE "closing"

Life == INSTANCE EngineLife WITH
    Engines <- Sessions, life <- [s \in Sessions |-> LifeOf(s)]

\* A start never replaces the registered session, whatever stops it overlaps
\* with, and a session that was stopped or whose start failed is not
\* registered again.
ImplementsLife == Life!LifeSpec
=============================================================================
