------------------------------ MODULE LibXray ------------------------------
(***************************************************************************)
(* The Xray instances of a process: runXray, runXrayFromJson and stopXray  *)
(* under coreServerMu (libxray/xray/xray.go), the temporary instances of   *)
(* ping, testXray and pingBatch (PingBatch), and the process-wide dialer   *)
(* state that core.New sets (xray-core/core/xray.go) whoever creates the   *)
(* instance.                                                               *)
(***************************************************************************)
EXTENDS PingBatch

CONSTANTS
    Calls,      \* concurrent callers of CGoInvoke
    Servers     \* names for core.Instance objects; "batch" is PingBatch's

ASSUME XrayAssumption ==
    /\ None \notin Servers \cup Calls
    /\ "batch" \in Servers

VARIABLES
    pc, op,     \* where a call stands and which method it runs
    mine,       \* the instance a call has in hand
    coreServerMu, coreServer,
    open,       \* instances created, not closed and not lost
    lost,       \* an instance that may still run is out of everybody's reach
    dialer,     \* whose DNS client and outbound manager DialSystem uses
    overlap     \* a temporary one was created while coreServer started or ran

xrayVars == <<pc, op, mine, coreServerMu, coreServer, open, lost, dialer, overlap>>
vars == <<batchVars, xrayVars>>

Methods == {"runXray", "runXrayFromJson", "stopXray", "ping", "testXray"}

TypeOK ==
    /\ pc \in [Calls -> {"idle", "want", "create", "start", "close"}]
    /\ op \in [Calls -> Methods \cup {"none"}]
    /\ mine \in [Calls -> Servers \cup {None}]
    /\ coreServerMu \in Calls \cup {None} /\ coreServer \in Servers \cup {None}
    /\ open \in SUBSET Servers /\ lost \in {"no", "yes"}
    /\ dialer \in Servers \cup {None} /\ overlap \in {"no", "yes"}

Init ==
    /\ BatchInit
    /\ pc = [c \in Calls |-> "idle"] /\ op = [c \in Calls |-> "none"]
    /\ mine = [c \in Calls |-> None]
    /\ coreServerMu = None /\ coreServer = None
    /\ open = {} /\ lost = "no"
    /\ dialer = None /\ overlap = "no"

Locks(c) == op[c] \in {"runXray", "runXrayFromJson"}

\* A published instance runs, or one that is to be published starts.
RunsOrStarts == coreServer # None \/ \E c \in Calls : Locks(c) /\ pc[c] = "start"

\* core.New points the dialer at s. A temporary instance beside a running
\* one is the overlap the README warns of; a new run begins without.
InitSystemDialer(s, temporary) ==
    /\ dialer' = s
    /\ \/ temporary /\ RunsOrStarts /\ overlap' = "yes"
       \/ temporary /\ ~RunsOrStarts /\ UNCHANGED overlap
       \/ ~temporary /\ overlap' = "no"

\* Instance.Close: a feature may refuse to close, and nobody tries again.
CloseServer(s) ==
    /\ open' = open \ {s}
    /\ \/ UNCHANGED lost
       \/ s \in open /\ lost' = "yes"

ReturnCall(c) ==
    /\ pc' = [pc EXCEPT ![c] = "idle"] /\ op' = [op EXCEPT ![c] = "none"]
    /\ mine' = [mine EXCEPT ![c] = None]
    /\ coreServerMu' = IF coreServerMu = c THEN None ELSE coreServerMu

Goto(c, l) == pc' = [pc EXCEPT ![c] = l] /\ UNCHANGED <<op, mine, coreServerMu>>

Call(c) ==
    /\ pc[c] = "idle"
    /\ \E m \in Methods :
         /\ op' = [op EXCEPT ![c] = m]
         /\ pc' = [pc EXCEPT ![c] = IF m \in {"ping", "testXray"} THEN "create" ELSE "want"]
    /\ UNCHANGED <<batchVars, mine, coreServerMu, coreServer, open, lost, dialer, overlap>>

\* Mutant: the running instance is looked for once the new one exists.
LockUnchecked(c) ==
    /\ pc[c] = "want" /\ Locks(c) /\ coreServerMu = None
    /\ coreServerMu' = c /\ pc' = [pc EXCEPT ![c] = "create"]
    /\ UNCHANGED <<batchVars, op, mine, coreServer, open, lost, dialer, overlap>>

Lock(c) ==
    /\ pc[c] = "want" /\ Locks(c) /\ coreServerMu = None
    /\ \/ /\ coreServer = None
          /\ coreServerMu' = c /\ pc' = [pc EXCEPT ![c] = "create"]
          /\ UNCHANGED <<op, mine>>
       \/ coreServer # None /\ ReturnCall(c)       \* ErrAlreadyRunning
    /\ UNCHANGED <<batchVars, coreServer, open, lost, dialer, overlap>>

\* A name for an object that did not exist before; which one is immaterial.
Fresh(s) == s \notin open \cup {"batch"}

\* StartXray: LoadConfig and core.New.
Create(c) ==
    /\ pc[c] = "create"
    /\ \E s \in Servers :
         /\ Fresh(s) /\ s = CHOOSE r \in Servers : Fresh(r)
         /\ mine' = [mine EXCEPT ![c] = s]
         /\ open' = open \cup {s}
         /\ InitSystemDialer(s, ~Locks(c))
    /\ pc' = [pc EXCEPT ![c] = IF op[c] = "testXray" THEN "close" ELSE "start"]
    /\ UNCHANGED <<batchVars, op, coreServerMu, coreServer, lost>>

\* The config is refused, or core.New fails after it set the dialer.
CreateFails(c) ==
    /\ pc[c] = "create"
    /\ UNCHANGED <<dialer, overlap>> \/ InitSystemDialer(None, ~Locks(c))
    /\ ReturnCall(c)
    /\ UNCHANGED <<batchVars, coreServer, open, lost>>

Start(c) ==
    /\ pc[c] = "start"
    /\ \/ /\ Locks(c)
          /\ coreServer' = mine[c] /\ ReturnCall(c)
       \/ /\ ~Locks(c)
          /\ UNCHANGED coreServer /\ Goto(c, "close")
    /\ UNCHANGED <<batchVars, open, lost, dialer, overlap>>

\* RunXray and Ping close an instance that does not start; StartInstance,
\* which RunXrayFromJSON uses, returns without it.
StartFails(c) ==
    /\ pc[c] = "start"
    /\ \/ /\ op[c] = "runXrayFromJson"
          /\ open' = open \ {mine[c]} /\ lost' = "yes" /\ ReturnCall(c)
       \/ op[c] # "runXrayFromJson" /\ UNCHANGED <<open, lost>> /\ Goto(c, "close")
    /\ UNCHANGED <<batchVars, coreServer, dialer, overlap>>

\* MeasureDelay has ended, by its timeout at the latest. The deferred or
\* explicit Close; its error is dropped or returned.
Close(c) ==
    /\ pc[c] = "close"
    /\ CloseServer(mine[c])
    /\ ReturnCall(c)
    /\ UNCHANGED <<batchVars, coreServer, dialer, overlap>>

\* Mutant: the instance is forgotten and not closed.
StopForgets(c) ==
    /\ pc[c] = "want" /\ op[c] = "stopXray" /\ coreServerMu = None
    /\ coreServer' = None
    /\ ReturnCall(c)
    /\ UNCHANGED <<batchVars, open, lost, dialer, overlap>>

\* StopXray forgets the instance whatever its Close says.
Stop(c) ==
    /\ pc[c] = "want" /\ op[c] = "stopXray" /\ coreServerMu = None
    /\ coreServer' = None
    /\ CloseServer(coreServer)
    /\ ReturnCall(c)
    /\ UNCHANGED <<batchVars, dialer, overlap>>

CallStep(c) ==
    \/ Lock(c) \/ Create(c) \/ CreateFails(c) \/ Start(c) \/ StartFails(c)
    \/ Close(c) \/ Stop(c)

-----------------------------------------------------------------------------
(* PingBatch with its temporary instance.                                  *)

BatchDial ==
    /\ UNCHANGED <<pc, op, mine, coreServerMu, coreServer>>
    /\ \/ /\ Serve /\ InitSystemDialer("batch", TRUE)
          /\ open' = open \cup {"batch"} /\ UNCHANGED lost
       \/ /\ ServeFails /\ UNCHANGED open
          /\ \/ UNCHANGED <<dialer, overlap, lost>>
             \/ InitSystemDialer(None, TRUE) /\ lost' \in {lost, "yes"}
       \/ /\ Return /\ UNCHANGED <<dialer, overlap>>
          /\ CloseServer("batch")

BatchAlone ==
    /\ \/ ReadFails \/ Read \/ VisitFails \/ Visit \/ Leave \/ Build \/ Refuse
       \/ ServeNothing \/ CloseJobs \/ Await
       \/ \E w \in Items : WorkerStep(w)
    /\ UNCHANGED xrayVars

Next ==
    \/ \E c \in Calls : Call(c) \/ CallStep(c)
    \/ Batch /\ UNCHANGED xrayVars
    \/ BatchDial \/ BatchAlone

\* The batch's goroutines run and its measurements time out.
Spec == Init /\ [][Next]_vars /\ WF_vars(BatchDial \/ BatchAlone)

-----------------------------------------------------------------------------
(* Properties.                                                             *)

\* Every instance somebody could close belongs to somebody: it is the
\* published one, in the hands of one call, or the batch's while it runs.
NoServerLeak ==
    /\ open \ {"batch"} =
         ({coreServer} \cup {mine[c] : c \in Calls}) \ {None}
    /\ "batch" \in open <=> bpc \in {"send", "wait"} \/ (bpc = "answer" /\ prepared # <<>>)
    /\ \A c \in Calls : mine[c] # None => mine[c] # coreServer
         /\ \A d \in Calls \ {c} : mine[d] # mine[c]

\* README: creating another instance "may replace that state and affect the
\* running instance". It takes such an overlap: a runXray that is refused or
\* fails, and a stop, never take the dialer away from the running instance.
OwnDialer == coreServer # None /\ overlap = "no" => dialer = coreServer

\* Every batch is answered.
BatchReturns == bpc = "read" ~> bpc = "idle"

\* How far an instance is.
LifeOf(s) ==
    IF coreServer = s THEN "running" ELSE IF s \in open THEN "opening" ELSE "free"

Life == INSTANCE EngineLife WITH
    Engines <- Servers, life <- [s \in Servers |-> LifeOf(s)]

\* runXray never replaces a running instance, and the temporary instances of
\* ping, testXray and pingBatch never become the running one.
ImplementsLife == Life!LifeSpec
=============================================================================
