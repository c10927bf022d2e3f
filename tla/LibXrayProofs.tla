--------------------------- MODULE LibXrayProofs ---------------------------
(***************************************************************************)
(* Proofs about LibXray, for any number of callers and instances and any   *)
(* batch. IInv relates coreServerMu, the places of the calls and the       *)
(* instances they have in hand; of the batch it needs to know only when    *)
(* its instance runs. The batch has invariants of its own: PoolInv follows *)
(* every item from its preparation to its result, SearchInv the search for *)
(* an outbound's dependencies, as one follows a depth-first search.        *)
(***************************************************************************)
EXTENDS LibXray, FiniteSetTheorems, SequenceTheorems, TLAPS

\* coreServerMu is held by the run call that is past its check, and nothing
\* is published meanwhile.
MutexInv ==
    /\ \A c \in Calls : coreServerMu = c <=> Locks(c) /\ pc[c] \in {"create", "start", "close"}
    /\ coreServerMu # None => coreServer = None

\* A call has an instance in hand between its creation and its end.
HandInv ==
    /\ \A c \in Calls : mine[c] # None <=> pc[c] \in {"start", "close"}
    /\ \A c \in Calls : mine[c] # "batch"
    /\ coreServer # "batch"

\* Workers run only for items there are.
BatchInv == bpc \in {"send", "wait"} => prepared # <<>>

\* The instance that starts has the dialer unless one was created since.
DialInv ==
    \A c \in Calls : Locks(c) /\ pc[c] = "start" /\ overlap = "no" => dialer = mine[c]

IInv == TypeOK /\ MutexInv /\ HandInv /\ BatchInv /\ NoServerLeak /\ DialInv /\ OwnDialer


\* The batch's instance is open.
Served == bpc \in {"send", "wait"} \/ (bpc = "answer" /\ prepared # <<>>)

\* Nothing runs at the start.
LEMMA InitIInv == Init => IInv
BY XrayAssumption DEF Init, BatchInit, IInv, TypeOK, MutexInv, HandInv, BatchInv,
   NoServerLeak, DialInv, OwnDialer, Locks, Methods

\* What the batch does on its own leaves its instance as it is.
LEMMA BatchFrame ==
  ASSUME BatchInv, Batch \/ BatchAlone
  PROVE  BatchInv' /\ (Served' <=> Served)
<1> USE DEF BatchInv, Served, batchVars, dfsVars, poolVars
<1>1. CASE Batch
  BY <1>1 DEF Batch
<1>2. CASE ReadFails \/ Read \/ VisitFails \/ Visit \/ Leave \/ Refuse
  BY <1>2 DEF ReadFails, Read, VisitFails, Visit, Leave, Refuse, ItemFails, NextItem
<1>3. CASE Build
  BY <1>3 DEF Build, ItemFails, NextItem
<1>4. CASE ServeNothing \/ CloseJobs \/ Await
  BY <1>4 DEF ServeNothing, CloseJobs, Await
<1>5. ASSUME NEW w \in Items, WorkerStep(w) PROVE BatchInv' /\ (Served' <=> Served)
  BY <1>5 DEF WorkerStep, Send, Measure, WorkerDone
<1> QED
  BY <1>1, <1>2, <1>3, <1>4, <1>5 DEF BatchAlone


\* Types.
LEMMA NextTypeOK == IInv /\ [Next]_vars => TypeOK'
<1> SUFFICES ASSUME TypeOK, [Next]_vars PROVE TypeOK'
  BY DEF IInv
<1> USE XrayAssumption DEF TypeOK, Locks, Methods, batchVars, dfsVars, poolVars,
   xrayVars
<1>1. ASSUME NEW c \in Calls, Call(c) PROVE TypeOK'
  BY <1>1 DEF Call
<1>2. ASSUME NEW c \in Calls, Lock(c) PROVE TypeOK'
  BY <1>2 DEF Lock, ReturnCall
<1>3. ASSUME NEW c \in Calls, Create(c) PROVE TypeOK'
  BY <1>3 DEF Create, Fresh, InitSystemDialer, RunsOrStarts
<1>4. ASSUME NEW c \in Calls, CreateFails(c) PROVE TypeOK'
  BY <1>4 DEF CreateFails, ReturnCall, InitSystemDialer, RunsOrStarts
<1>5. ASSUME NEW c \in Calls, Start(c) PROVE TypeOK'
  BY <1>5 DEF Start, ReturnCall, Goto
<1>6. ASSUME NEW c \in Calls, StartFails(c) PROVE TypeOK'
  BY <1>6 DEF StartFails, ReturnCall, Goto
<1>7. ASSUME NEW c \in Calls, Close(c) PROVE TypeOK'
  BY <1>7 DEF Close, ReturnCall, CloseServer
<1>8. ASSUME NEW c \in Calls, Stop(c) PROVE TypeOK'
  BY <1>8 DEF Stop, ReturnCall, CloseServer
<1>9. CASE BatchDial
  BY <1>9 DEF BatchDial, InitSystemDialer, RunsOrStarts, CloseServer
<1>10. CASE (Batch /\ UNCHANGED xrayVars) \/ BatchAlone
  BY <1>10 DEF BatchAlone
<1>11. CASE UNCHANGED vars
  BY <1>11 DEF vars
<1> QED
  BY <1>1, <1>2, <1>3, <1>4, <1>5, <1>6, <1>7, <1>8, <1>9, <1>10, <1>11 DEF Next,
     CallStep

\* The lock is taken with nothing published and given back by its holder.
LEMMA NextMutexInv == IInv /\ [Next]_vars => MutexInv'
<1> SUFFICES ASSUME MutexInv, TypeOK, [Next]_vars PROVE MutexInv'
  BY DEF IInv
<1> USE XrayAssumption DEF MutexInv, TypeOK, Locks, Methods, batchVars, dfsVars,
   poolVars, xrayVars
<1>1. ASSUME NEW c \in Calls, Call(c) PROVE MutexInv'
  BY <1>1 DEF Call
<1>2. ASSUME NEW c \in Calls, Lock(c) PROVE MutexInv'
  BY <1>2 DEF Lock, ReturnCall
<1>3. ASSUME NEW c \in Calls, Create(c) PROVE MutexInv'
  BY <1>3 DEF Create, Fresh, InitSystemDialer, RunsOrStarts
<1>4. ASSUME NEW c \in Calls, CreateFails(c) PROVE MutexInv'
  BY <1>4 DEF CreateFails, ReturnCall, InitSystemDialer, RunsOrStarts
<1>5. ASSUME NEW c \in Calls, Start(c) PROVE MutexInv'
  BY <1>5 DEF Start, ReturnCall, Goto
<1>6. ASSUME NEW c \in Calls, StartFails(c) PROVE MutexInv'
  BY <1>6 DEF StartFails, ReturnCall, Goto
<1>7. ASSUME NEW c \in Calls, Close(c) PROVE MutexInv'
  BY <1>7 DEF Close, ReturnCall, CloseServer
<1>8. ASSUME NEW c \in Calls, Stop(c) PROVE MutexInv'
  BY <1>8 DEF Stop, ReturnCall, CloseServer
<1>9. CASE BatchDial
  BY <1>9 DEF BatchDial, InitSystemDialer, RunsOrStarts, CloseServer
<1>10. CASE (Batch /\ UNCHANGED xrayVars) \/ BatchAlone
  BY <1>10 DEF BatchAlone
<1>11. CASE UNCHANGED vars
  BY <1>11 DEF vars
<1> QED
  BY <1>1, <1>2, <1>3, <1>4, <1>5, <1>6, <1>7, <1>8, <1>9, <1>10, <1>11 DEF Next,
     CallStep

\* An instance in hand comes from Create and goes with the call.
LEMMA NextHandInv == IInv /\ [Next]_vars => HandInv'
<1> SUFFICES ASSUME HandInv, TypeOK, MutexInv, [Next]_vars PROVE HandInv'
  BY DEF IInv
<1> USE XrayAssumption DEF HandInv, TypeOK, MutexInv, Locks, Methods, batchVars,
   dfsVars, poolVars, xrayVars
<1>1. ASSUME NEW c \in Calls, Call(c) PROVE HandInv'
  BY <1>1 DEF Call
<1>2. ASSUME NEW c \in Calls, Lock(c) PROVE HandInv'
  BY <1>2 DEF Lock, ReturnCall
<1>3. ASSUME NEW c \in Calls, Create(c) PROVE HandInv'
  BY <1>3 DEF Create, Fresh, InitSystemDialer, RunsOrStarts
<1>4. ASSUME NEW c \in Calls, CreateFails(c) PROVE HandInv'
  BY <1>4 DEF CreateFails, ReturnCall, InitSystemDialer, RunsOrStarts
<1>5. ASSUME NEW c \in Calls, Start(c) PROVE HandInv'
  BY <1>5 DEF Start, ReturnCall, Goto
<1>6. ASSUME NEW c \in Calls, StartFails(c) PROVE HandInv'
  BY <1>6 DEF StartFails, ReturnCall, Goto
<1>7. ASSUME NEW c \in Calls, Close(c) PROVE HandInv'
  BY <1>7 DEF Close, ReturnCall, CloseServer
<1>8. ASSUME NEW c \in Calls, Stop(c) PROVE HandInv'
  BY <1>8 DEF Stop, ReturnCall, CloseServer
<1>9. CASE BatchDial
  BY <1>9 DEF BatchDial, InitSystemDialer, RunsOrStarts, CloseServer
<1>10. CASE (Batch /\ UNCHANGED xrayVars) \/ BatchAlone
  BY <1>10 DEF BatchAlone
<1>11. CASE UNCHANGED vars
  BY <1>11 DEF vars
<1> QED
  BY <1>1, <1>2, <1>3, <1>4, <1>5, <1>6, <1>7, <1>8, <1>9, <1>10, <1>11 DEF Next,
     CallStep

\* Every step that takes an instance from one place gives it to another or
\* closes it.
LEMMA NextNoServerLeak == IInv /\ [Next]_vars => NoServerLeak'
<1> SUFFICES ASSUME NoServerLeak, TypeOK, MutexInv, HandInv, BatchInv, [Next]_vars PROVE NoServerLeak'
  BY DEF IInv
<1> USE XrayAssumption DEF NoServerLeak, TypeOK, MutexInv, HandInv, Locks, Methods,
   batchVars, dfsVars, poolVars, xrayVars
<1>1. ASSUME NEW c \in Calls, Call(c) PROVE NoServerLeak'
  BY <1>1 DEF Call
<1>2. ASSUME NEW c \in Calls, Lock(c) PROVE NoServerLeak'
  BY <1>2 DEF Lock, ReturnCall
<1>3. ASSUME NEW c \in Calls, Create(c) PROVE NoServerLeak'
  BY <1>3 DEF Create, Fresh, InitSystemDialer, RunsOrStarts
<1>4. ASSUME NEW c \in Calls, CreateFails(c) PROVE NoServerLeak'
  BY <1>4 DEF CreateFails, ReturnCall, InitSystemDialer, RunsOrStarts
<1>5. ASSUME NEW c \in Calls, Start(c) PROVE NoServerLeak'
  BY <1>5 DEF Start, ReturnCall, Goto
<1>6. ASSUME NEW c \in Calls, StartFails(c) PROVE NoServerLeak'
  BY <1>6 DEF StartFails, ReturnCall, Goto
<1>7. ASSUME NEW c \in Calls, Close(c) PROVE NoServerLeak'
  BY <1>7 DEF Close, ReturnCall, CloseServer
<1>8. ASSUME NEW c \in Calls, Stop(c) PROVE NoServerLeak'
  BY <1>8 DEF Stop, ReturnCall, CloseServer
<1>9. CASE BatchDial
  <2> USE <1>9 DEF BatchDial, BatchInv
  <2>1. CASE Serve /\ open' = open \cup {"batch"}
    BY <2>1 DEF Serve
  <2>2. CASE ServeFails /\ UNCHANGED open
    BY <2>2 DEF ServeFails
  <2>3. CASE Return /\ CloseServer("batch")
    BY <2>3 DEF Return, CloseServer
  <2> QED
    BY <2>1, <2>2, <2>3
<1>10. CASE (Batch /\ UNCHANGED xrayVars) \/ BatchAlone
  BY <1>10, BatchFrame DEF BatchAlone, Served
<1>11. CASE UNCHANGED vars
  BY <1>11 DEF vars
<1> QED
  BY <1>1, <1>2, <1>3, <1>4, <1>5, <1>6, <1>7, <1>8, <1>9, <1>10, <1>11 DEF Next,
     CallStep

\* Only a creation moves the dialer; beside a start it counts as overlap.
LEMMA NextDialInv == IInv /\ [Next]_vars => DialInv'
<1> SUFFICES ASSUME DialInv, TypeOK, MutexInv, HandInv, [Next]_vars PROVE DialInv'
  BY DEF IInv
<1> USE XrayAssumption DEF DialInv, TypeOK, MutexInv, HandInv, Locks, Methods,
   batchVars, dfsVars, poolVars, xrayVars
<1>1. ASSUME NEW c \in Calls, Call(c) PROVE DialInv'
  BY <1>1 DEF Call
<1>2. ASSUME NEW c \in Calls, Lock(c) PROVE DialInv'
  BY <1>2 DEF Lock, ReturnCall
<1>3. ASSUME NEW c \in Calls, Create(c) PROVE DialInv'
  BY <1>3 DEF Create, Fresh, InitSystemDialer, RunsOrStarts
<1>4. ASSUME NEW c \in Calls, CreateFails(c) PROVE DialInv'
  BY <1>4 DEF CreateFails, ReturnCall, InitSystemDialer, RunsOrStarts
<1>5. ASSUME NEW c \in Calls, Start(c) PROVE DialInv'
  BY <1>5 DEF Start, ReturnCall, Goto
<1>6. ASSUME NEW c \in Calls, StartFails(c) PROVE DialInv'
  BY <1>6 DEF StartFails, ReturnCall, Goto
<1>7. ASSUME NEW c \in Calls, Close(c) PROVE DialInv'
  BY <1>7 DEF Close, ReturnCall, CloseServer
<1>8. ASSUME NEW c \in Calls, Stop(c) PROVE DialInv'
  BY <1>8 DEF Stop, ReturnCall, CloseServer
<1>9. CASE BatchDial
  BY <1>9 DEF BatchDial, InitSystemDialer, RunsOrStarts, CloseServer
<1>10. CASE (Batch /\ UNCHANGED xrayVars) \/ BatchAlone
  BY <1>10 DEF BatchAlone
<1>11. CASE UNCHANGED vars
  BY <1>11 DEF vars
<1> QED
  BY <1>1, <1>2, <1>3, <1>4, <1>5, <1>6, <1>7, <1>8, <1>9, <1>10, <1>11 DEF Next,
     CallStep

\* Publication keeps the dialer with the instance.
LEMMA NextOwnDialer == IInv /\ [Next]_vars => OwnDialer'
<1> SUFFICES ASSUME OwnDialer, TypeOK, MutexInv, HandInv, DialInv, [Next]_vars PROVE OwnDialer'
  BY DEF IInv
<1> USE XrayAssumption DEF OwnDialer, TypeOK, MutexInv, HandInv, DialInv, Locks,
   Methods, batchVars, dfsVars, poolVars, xrayVars
<1>1. ASSUME NEW c \in Calls, Call(c) PROVE OwnDialer'
  BY <1>1 DEF Call
<1>2. ASSUME NEW c \in Calls, Lock(c) PROVE OwnDialer'
  BY <1>2 DEF Lock, ReturnCall
<1>3. ASSUME NEW c \in Calls, Create(c) PROVE OwnDialer'
  BY <1>3 DEF Create, Fresh, InitSystemDialer, RunsOrStarts
<1>4. ASSUME NEW c \in Calls, CreateFails(c) PROVE OwnDialer'
  BY <1>4 DEF CreateFails, ReturnCall, InitSystemDialer, RunsOrStarts
<1>5. ASSUME NEW c \in Calls, Start(c) PROVE OwnDialer'
  BY <1>5 DEF Start, ReturnCall, Goto
<1>6. ASSUME NEW c \in Calls, StartFails(c) PROVE OwnDialer'
  BY <1>6 DEF StartFails, ReturnCall, Goto
<1>7. ASSUME NEW c \in Calls, Close(c) PROVE OwnDialer'
  BY <1>7 DEF Close, ReturnCall, CloseServer
<1>8. ASSUME NEW c \in Calls, Stop(c) PROVE OwnDialer'
  BY <1>8 DEF Stop, ReturnCall, CloseServer
<1>9. CASE BatchDial
  BY <1>9 DEF BatchDial, InitSystemDialer, RunsOrStarts, CloseServer
<1>10. CASE (Batch /\ UNCHANGED xrayVars) \/ BatchAlone
  BY <1>10 DEF BatchAlone
<1>11. CASE UNCHANGED vars
  BY <1>11 DEF vars
<1> QED
  BY <1>1, <1>2, <1>3, <1>4, <1>5, <1>6, <1>7, <1>8, <1>9, <1>10, <1>11 DEF Next,
     CallStep

\* IInv is inductive.
LEMMA Inductive == Spec => []IInv
<1>1. IInv /\ [Next]_vars => BatchInv'
  <2> SUFFICES ASSUME BatchInv, [Next]_vars PROVE BatchInv'
    BY DEF IInv
  <2> USE DEF batchVars, dfsVars, poolVars
  <2>1. ASSUME NEW c \in Calls, Call(c) \/ CallStep(c) PROVE BatchInv'
    BY <2>1 DEF BatchInv, Call, CallStep, Lock, Create, CreateFails, Start, StartFails,
       Close, Stop
  <2>2. CASE BatchDial
    BY <2>2 DEF BatchInv, BatchDial, Serve, ServeFails, Return
  <2>3. CASE Batch \/ BatchAlone
    BY <2>3, BatchFrame
  <2>4. CASE UNCHANGED vars
    BY <2>4 DEF BatchInv, vars
  <2> QED BY <2>1, <2>2, <2>3, <2>4 DEF Next
<1>2. IInv /\ [Next]_vars => IInv'
  BY <1>1, NextTypeOK, NextMutexInv, NextHandInv, NextNoServerLeak, NextDialInv,
     NextOwnDialer DEF IInv
<1> QED BY <1>2, InitIInv, PTL DEF Spec

-----------------------------------------------------------------------------
(* PingBatch.                                                              *)

\* An outbound being visited and the dependencies yet to see.
Frame == [node : Outbounds, rest : Seq(Tags)]

\* Types of the batch's variables.
BatchTypeOK ==
    /\ bpc \in {"idle", "read", "visit", "error", "build", "serve", "send", "wait",
                "answer", "refused"}
    /\ item \in 0..NItems
    /\ tag \in [Outbounds -> Tags \cup {None}]
    /\ deps \in [Outbounds -> DepLists]
    /\ target \in Outbounds
    /\ states \in [Outbounds -> {"unvisited", "visiting", "visited"}]
    /\ frames \in Seq(Frame)
    /\ selected \in Seq(Outbounds)
    /\ prepared \in Seq(Items)
    /\ worker \in [Items -> {"none", "ready", "busy"}]
    /\ job \in [Items -> 0..NItems]
    /\ results \in [Items -> {None} \cup (Items \X {"ok", "failed"})]

Preparing == bpc \in {"read", "visit", "error", "build"}
Serving == bpc \in {"send", "wait"}

\* Item i has its own result.
Done(i) == results[i] # None

\* Item i goes to the workers; the first n sends have been made.
Waits(i, n) == \E m \in DOMAIN prepared : n < m /\ prepared[m] = i

\* A worker has item i in hand.
InHand(i) == \E w \in Items : worker[w] = "busy" /\ job[w] = i

\* No item is forgotten between the preparation, the jobs and the workers.
PoolInv ==
    /\ \A i \in Items : Done(i) => results[i][1] = i
    /\ Preparing => item \in Items /\ \A i \in Items : i < item => Done(i) \/ Waits(i, 0)
    /\ bpc \in {"serve", "idle"} => item = 0
    /\ bpc = "serve" => \A i \in Items : Done(i) \/ Waits(i, 0)
    /\ Serving => /\ item <= Len(prepared)
                  /\ \A i \in Items : Done(i) \/ Waits(i, item) \/ InHand(i)
    /\ bpc = "wait" => item = Len(prepared)
    /\ bpc = "answer" => item = 0 /\ \A i \in Items : Done(i)
    /\ bpc = "refused" => item = 0
    /\ Len(prepared) <= NItems /\ (Preparing => Len(prepared) < item)
    /\ bpc = "idle" => prepared = <<>>
    /\ \A w \in Items : worker[w] = "busy" => job[w] \in Items
    /\ ~Serving => \A w \in Items : worker[w] = "none"

Searching == bpc \in {"visit", "error", "build"}
Reached == {i \in Outbounds : states[i] # "unvisited"}
Visited == {i \in Outbounds : states[i] = "visited"}

\* What the search has reached is needed, each outbound selected once.
ReachInv ==
    /\ Reached \subseteq Needed
    /\ Searching => target \in Reached
    /\ \A i \in Outbounds : i \in Reached <=> \E n \in DOMAIN selected : selected[n] = i
    /\ Len(selected) = Cardinality(Reached)

\* What it has left is closed under dependencies, unambiguous and acyclic.
VisitedInv ==
    /\ \A i \in Visited : Edges(i) \subseteq Visited /\ Resolved(i)
    /\ Acyclic(Visited)

\* The frames are a path of the outbounds being visited.
PathInv ==
    /\ \A i \in Outbounds :
         states[i] = "visiting" <=> \E f \in DOMAIN frames : frames[f].node = i
    /\ \A f, g \in DOMAIN frames : frames[f].node = frames[g].node => f = g
    /\ \A f \in DOMAIN frames :
         f + 1 \in DOMAIN frames => frames[f + 1].node \in Edges(frames[f].node)

\* Dependency a of frame f was seen: it is visited or being visited above f.
Seen(f, a) ==
    \E j \in Outbounds :
      /\ Names(a, j)
      /\ states[j] = "visited" \/ (f + 1 \in DOMAIN frames /\ frames[f + 1].node = j)

\* Frame f has yet to see the rest of its outbound's dependencies, no more.
RestOf(f) ==
    LET d == deps[frames[f].node]
        r == frames[f].rest
    IN /\ \A n \in DOMAIN r : \E m \in DOMAIN d : r[n] = d[m]
       /\ \A m \in DOMAIN d : Seen(f, d[m]) \/ \E n \in DOMAIN r : r[n] = d[m]

RestInv == \A f \in DOMAIN frames : RestOf(f)

\* The search between its entry and its verdict.
SearchInv ==
    /\ ReachInv /\ VisitedInv /\ PathInv /\ RestInv
    /\ bpc = "visit" => frames # <<>>
    /\ bpc = "build" => frames = <<>>
    /\ bpc = "error" => ~Sound
    /\ ~Searching => frames = <<>> /\ selected = <<>>
                     /\ \A i \in Outbounds : states[i] = "unvisited"

\* One step of the batch, or none.
BatchStep ==
    \/ Batch \/ ReadFails \/ Read \/ VisitFails \/ Visit \/ Leave \/ Build \/ Refuse
    \/ ServeNothing \/ ServeFails \/ Serve \/ CloseJobs \/ Await \/ Return
    \/ \E w \in Items : WorkerStep(w)
    \/ UNCHANGED batchVars

\* The calls leave the batch alone.
LEMMA StepOfBatch == [Next]_vars => BatchStep
<1>1. ASSUME NEW c \in Calls, Call(c) \/ CallStep(c) PROVE UNCHANGED batchVars
  BY <1>1 DEF Call, CallStep, Lock, Create, CreateFails, Start, StartFails, Close, Stop
<1> QED BY <1>1 DEF Next, BatchDial, BatchAlone, BatchStep, vars

\* Dependency tags are a sequence.
LEMMA DepListsAreSeqs == DepLists \subseteq Seq(Tags)
<1>1. <<>> \in Seq(Tags)
  OBVIOUS
<1>2. ASSUME NEW a \in Tags PROVE <<a>> \in Seq(Tags)
  OBVIOUS
<1>3. ASSUME NEW a \in Tags, NEW b \in Tags PROVE <<a, b>> \in Seq(Tags)
  OBVIOUS
<1> SUFFICES ASSUME NEW d \in DepLists PROVE d \in Seq(Tags)
  OBVIOUS
<1>4. \/ d = <<>> \/ \E a \in Tags : d = <<a>>
      \/ \E a \in Tags, b \in Tags : d = <<a, b>>
  BY DEF DepLists
<1> QED BY <1>1, <1>2, <1>3, <1>4, Zenon

\* The stack without its top, and with the top's first dependency dropped.
LEMMA StackParts ==
  ASSUME BatchTypeOK, frames # <<>>
  PROVE  /\ Len(frames) \in Nat \ {0} /\ Len(frames) \in DOMAIN frames
         /\ Top \in Frame /\ Below \in Seq(Frame)
         /\ Len(Below) = Len(frames) - 1
         /\ \A f \in 1..(Len(frames) - 1) : Below[f] = frames[f]
         /\ Top.rest # <<>> => Drop \in Frame
<1>1. frames \in Seq(Frame)
  BY DEF BatchTypeOK
<1>2. Len(frames) \in Nat \ {0} /\ Len(frames) \in DOMAIN frames
  BY <1>1
<1>3. Top \in Frame
  BY <1>1, <1>2 DEF Top
<1>4. /\ Below \in Seq(Frame) /\ Len(Below) = Len(frames) - 1
      /\ \A f \in 1..(Len(frames) - 1) : Below[f] = frames[f]
  <2>1. \A f \in 1..(Len(frames) - 1) : frames[f] \in Frame
    BY <1>1, <1>2
  <2>2. 1 \in Int /\ Len(frames) - 1 \in Int /\ (1 <= Len(frames) - 1 \/ Len(frames) - 1 = 0)
    BY <1>2
  <2>3. /\ Below \in Seq(Frame)
        /\ Len(Below) = IF 1 <= Len(frames) - 1 THEN Len(frames) - 1 - 1 + 1 ELSE 0
        /\ \A f \in 1..(Len(frames) - 1 - 1 + 1) : Below[f] = frames[1 + f - 1]
    BY <2>1, <2>2, SubSeqProperties DEF Below
  <2> QED BY <1>2, <2>2, <2>3
<1>5. Top.rest # <<>> => Drop \in Frame
  <2>1. Top.node \in Outbounds /\ Top.rest \in Seq(Tags)
    BY <1>3 DEF Frame
  <2>2. Top.rest # <<>> => Tail(Top.rest) \in Seq(Tags)
    BY <2>1
  <2> QED BY <2>1, <2>2 DEF Drop, Frame
<1> QED BY <1>2, <1>3, <1>4, <1>5

\* The stack after a dependency was seen, frame by frame.
LEMMA Dropped ==
  ASSUME BatchTypeOK, frames # <<>>, Top.rest # <<>>
  PROVE  /\ Append(Below, Drop) \in Seq(Frame)
         /\ Len(Append(Below, Drop)) = Len(frames)
         /\ Append(Below, Drop)[Len(frames)] = Drop
         /\ \A f \in 1..(Len(frames) - 1) : Append(Below, Drop)[f] = frames[f]
BY StackParts, AppendProperties

\* The stack after a dependency was entered, frame by frame.
LEMMA Entered ==
  ASSUME BatchTypeOK, frames # <<>>, Top.rest # <<>>, NEW i \in Outbounds,
         frames' = Append(Append(Below, Drop), [node |-> i, rest |-> deps[i]])
  PROVE  /\ frames' \in Seq(Frame) /\ Len(frames') = Len(frames) + 1
         /\ frames'[Len(frames) + 1].node = i /\ frames'[Len(frames) + 1].rest = deps[i]
         /\ frames'[Len(frames)] = Drop
         /\ \A f \in 1..(Len(frames) - 1) : frames'[f] = frames[f]
<1> DEFINE s == Append(Below, Drop)
           x == [node |-> i, rest |-> deps[i]]
<1>1. s \in Seq(Frame) /\ Len(s) = Len(frames) /\ s[Len(frames)] = Drop
      /\ \A f \in 1..(Len(frames) - 1) : s[f] = frames[f]
  BY Dropped
<1>2. x \in Frame /\ x.node = i /\ x.rest = deps[i]
  BY DepListsAreSeqs DEF BatchTypeOK, Frame
<1>3. frames' = Append(s, x) /\ Len(frames) \in Nat \ {0}
  BY StackParts
<1> HIDE DEF s, x
<1> DEFINE t == Append(s, x)
<1>4. /\ t \in Seq(Frame) /\ Len(t) = Len(s) + 1
      /\ \A f \in 1..Len(s) : t[f] = s[f]
      /\ t[Len(s) + 1] = x
  BY <1>1, <1>2, AppendProperties
<1>5. frames' = t
  BY <1>3
<1> HIDE DEF t
<1>6. frames' \in Seq(Frame) /\ Len(frames') = Len(frames) + 1
      /\ (\A f \in 1..Len(frames) : frames'[f] = s[f]) /\ frames'[Len(frames) + 1] = x
  BY <1>1, <1>4, <1>5
<1>7. \A f \in 1..(Len(frames) - 1) : f \in 1..Len(frames)
  BY <1>3
<1>8. Len(frames) \in 1..Len(frames)
  BY <1>3
<1> QED BY <1>1, <1>2, <1>6, <1>7, <1>8

\* What NextItem leaves behind.
LEMMA NextItemTypes ==
  ASSUME BatchTypeOK, item \in Items, NextItem
  PROVE  /\ bpc' \in {"read", "serve"} /\ item' \in 0..NItems
         /\ tag' \in [Outbounds -> Tags \cup {None}] /\ deps' \in [Outbounds -> DepLists]
         /\ target' \in Outbounds
         /\ states' \in [Outbounds -> {"unvisited", "visiting", "visited"}]
         /\ frames' \in Seq(Frame)
         /\ selected' \in Seq(Outbounds)
BY BatchAssumption DEF BatchTypeOK, NextItem, Items, Outbounds, DepLists

\* Types of the batch.
LEMMA NextBatchTypes == BatchTypeOK /\ PoolInv /\ BatchStep => BatchTypeOK'
<1> SUFFICES ASSUME BatchTypeOK, PoolInv, BatchStep PROVE BatchTypeOK'
  OBVIOUS
<1> USE BatchAssumption
<1>1. CASE Batch
  BY <1>1 DEF Batch, BatchTypeOK, dfsVars, poolVars
<1>2. ASSUME bpc \in {"read", "error", "build"}, ItemFails, UNCHANGED <<prepared, worker, job>>
      PROVE  BatchTypeOK'
  <2>1. item \in Items
    BY <1>2 DEF PoolInv, Preparing
  <2>2. results' \in [Items -> {None} \cup (Items \X {"ok", "failed"})]
    BY <1>2, <2>1 DEF ItemFails, BatchTypeOK
  <2> QED BY <1>2, <2>1, <2>2, NextItemTypes DEF ItemFails, BatchTypeOK
<1>3. CASE Read
  <2>1. target' \in Outbounds
    BY <1>3 DEF Read, Outbounds
  <2>2. tag' \in [Outbounds -> Tags \cup {None}] /\ deps' \in [Outbounds -> DepLists]
    BY <1>3 DEF Read
  <2>3. frames' \in Seq(Frame)
    BY <1>3, <2>1, <2>2, DepListsAreSeqs DEF Read, Frame
  <2> QED BY <1>3, <2>1, <2>2, <2>3 DEF Read, BatchTypeOK, poolVars
<1>4. CASE VisitFails
  BY <1>4 DEF VisitFails, BatchTypeOK, dfsVars, poolVars
<1>5. CASE Visit
  <2>1. PICK i \in Outbounds :
          Enter(i) \/ (frames' = Append(Below, Drop) /\ UNCHANGED <<states, selected>>)
    BY <1>5, Zenon DEF Visit
  <2>2. frames' \in Seq(Frame)
    BY <1>5, <2>1, Entered, Dropped DEF Visit, Enter
  <2>3. states' \in [Outbounds -> {"unvisited", "visiting", "visited"}]
    BY <2>1 DEF Enter, BatchTypeOK
  <2>4. selected' \in Seq(Outbounds)
    <3>1. selected' = selected \/ selected' = Append(selected, i)
      BY <2>1, Zenon DEF Enter
    <3>2. selected \in Seq(Outbounds)
      BY DEF BatchTypeOK
    <3> QED BY <3>1, <3>2, AppendProperties
  <2> QED BY <1>5, <2>2, <2>3, <2>4 DEF Visit, BatchTypeOK, poolVars
<1>6. CASE Leave
  BY <1>6, StackParts DEF Leave, BatchTypeOK, poolVars
<1>7. CASE Build /\ prepared' = Append(prepared, item) /\ NextItem /\ UNCHANGED results
  <2>1. item \in Items
    BY <1>7 DEF PoolInv, Preparing, Build
  <2> QED BY <1>7, <2>1, NextItemTypes DEF Build, BatchTypeOK
<1>8. CASE ServeNothing \/ ServeFails \/ CloseJobs \/ Await
  BY <1>8 DEF ServeNothing, ServeFails, CloseJobs, Await, BatchTypeOK, dfsVars, poolVars
<1>9. CASE Serve
  BY <1>9 DEF Serve, BatchTypeOK, dfsVars
<1>10. ASSUME NEW w \in Items, Send(w) PROVE BatchTypeOK'
  <2>1. item + 1 \in DOMAIN prepared /\ prepared[item + 1] \in Items
    BY <1>10 DEF Send, BatchTypeOK
  <2>2. item + 1 \in 0..NItems
    BY <1>10 DEF Send, BatchTypeOK, PoolInv
  <2>3. job' \in [Items -> 0..NItems] /\ item' \in 0..NItems
        /\ worker' \in [Items -> {"none", "ready", "busy"}]
    BY <1>10, <2>1, <2>2 DEF Send, BatchTypeOK, Items
  <2> QED BY <1>10, <2>3 DEF Send, BatchTypeOK, dfsVars
<1>11. ASSUME NEW w \in Items, Measure(w) PROVE BatchTypeOK'
  <2>1. job[w] \in Items
    BY <1>11 DEF Measure, PoolInv
  <2> QED BY <1>11, <2>1 DEF Measure, BatchTypeOK, dfsVars
<1>12. ASSUME NEW w \in Items, WorkerDone(w) PROVE BatchTypeOK'
  BY <1>12 DEF WorkerDone, BatchTypeOK, dfsVars
<1>13. CASE Return
  BY <1>13 DEF Return, BatchTypeOK, dfsVars
<1>14. CASE UNCHANGED batchVars
  BY <1>14 DEF BatchTypeOK, batchVars, dfsVars, poolVars
<1> QED
  BY <1>1, <1>2, <1>3, <1>4, <1>5, <1>6, <1>7, <1>8, <1>9, <1>10, <1>11, <1>12, <1>13,
     <1>14 DEF BatchStep, ReadFails, Refuse, Build, WorkerStep

\* An item that fails has its result, and the next one is taken up.
LEMMA FailedItem ==
  ASSUME BatchTypeOK, PoolInv, bpc \in {"read", "error", "build"}, ItemFails,
         UNCHANGED <<prepared, worker, job>>
  PROVE  PoolInv'
<1> USE BatchAssumption
<1>1. item \in Items /\ item \in Nat /\ NItems \in Nat
  BY DEF PoolInv, Preparing, Items
<1>2. results'[item] = <<item, "failed">> /\ \A i \in Items \ {item} : results'[i] = results[i]
  BY <1>1 DEF ItemFails, BatchTypeOK
<1>3. \A i \in Items : Done(i)' => results'[i][1] = i
  BY <1>2 DEF PoolInv, Done
<1>4. \A i \in Items : Done(i) \/ i = item => Done(i)'
  <2>1. <<item, "failed">> # None
    BY <1>1 DEF Items
  <2> QED BY <1>2, <2>1 DEF Done
<1>5. \A i \in Items : Waits(i, 0) => Waits(i, 0)'
  BY DEF Waits
<1>6. \A i \in Items : i < item + 1 => Done(i)' \/ Waits(i, 0)'
  <2> SUFFICES ASSUME NEW i \in Items, i < item + 1 PROVE Done(i)' \/ Waits(i, 0)'
    OBVIOUS
  <2>1. CASE i = item
    BY <2>1, <1>4
  <2>2. CASE i # item
    <3>1. i < item
      BY <1>1, <2>2 DEF Items
    <3> QED BY <3>1, <1>4, <1>5 DEF PoolInv, Preparing
  <2> QED BY <2>1, <2>2
<1>7. Len(prepared') <= NItems /\ Len(prepared') < item /\ Len(prepared) \in Nat
  BY DEF PoolInv, Preparing, BatchTypeOK
<1>8. \A w \in Items : worker'[w] = "none"
  BY DEF PoolInv, Serving
<1>9. CASE item + 1 \in Items
  <2>1. bpc' = "read" /\ item' = item + 1
    BY <1>9 DEF ItemFails, NextItem
  <2>2. Preparing' => item' \in Items /\ \A i \in Items : i < item' => Done(i)' \/ Waits(i, 0)'
    BY <1>6, <1>9, <2>1
  <2>3. Len(prepared') <= NItems /\ (Preparing' => Len(prepared') < item')
    BY <1>1, <1>7, <2>1
  <2> QED BY <1>3, <1>8, <2>1, <2>2, <2>3 DEF PoolInv, Serving
<1>10. CASE item + 1 \notin Items
  <2>1. bpc' = "serve" /\ item' = 0
    BY <1>10 DEF ItemFails, NextItem
  <2>2. \A i \in Items : i < item + 1
    BY <1>1, <1>10 DEF Items
  <2>3. \A i \in Items : Done(i)' \/ Waits(i, 0)'
    BY <1>6, <2>2
  <2> QED BY <1>3, <1>7, <1>8, <2>1, <2>3 DEF PoolInv, Serving, Preparing
<1> QED BY <1>9, <1>10

\* A built item goes to the workers, and the next one is taken up.
LEMMA PreparedItem ==
  ASSUME BatchTypeOK, PoolInv, bpc = "build", NextItem, prepared' = Append(prepared, item),
         UNCHANGED <<results, worker, job>>
  PROVE  PoolInv'
<1> USE BatchAssumption
<1>1. item \in Items /\ item \in Nat /\ NItems \in Nat /\ item <= NItems
  BY DEF PoolInv, Preparing, Items
<1>2. /\ prepared' \in Seq(Items) /\ Len(prepared') = Len(prepared) + 1
      /\ \A m \in 1..Len(prepared) : prepared'[m] = prepared[m]
      /\ prepared'[Len(prepared) + 1] = item
      /\ Len(prepared) \in Nat /\ DOMAIN prepared = 1..Len(prepared)
      /\ DOMAIN prepared' = 1..(Len(prepared) + 1)
  BY <1>1, AppendProperties DEF BatchTypeOK
<1>3. \A i \in Items : Done(i)' <=> Done(i)
  BY DEF Done
<1>4. \A i \in Items : Waits(i, 0) => Waits(i, 0)'
  BY <1>2 DEF Waits
<1>5. \A i \in Items : i = item => Waits(i, 0)'
  <2>1. 0 < Len(prepared) + 1 /\ Len(prepared) + 1 \in DOMAIN prepared'
    BY <1>2
  <2> QED BY <1>2, <2>1 DEF Waits
<1>6. \A i \in Items : i < item + 1 => Done(i)' \/ Waits(i, 0)'
  <2> SUFFICES ASSUME NEW i \in Items, i < item + 1 PROVE Done(i)' \/ Waits(i, 0)'
    OBVIOUS
  <2>1. CASE i = item
    BY <2>1, <1>5
  <2>2. CASE i # item
    <3>1. i < item
      BY <1>1, <2>2 DEF Items
    <3> QED BY <3>1, <1>3, <1>4 DEF PoolInv, Preparing
  <2> QED BY <2>1, <2>2
<1>7. Len(prepared') <= NItems /\ Len(prepared') < item + 1
  BY <1>1, <1>2 DEF PoolInv, Preparing
<1>8. \A w \in Items : worker'[w] = "none"
  BY DEF PoolInv, Serving
<1>9. \A i \in Items : Done(i)' => results'[i][1] = i
  BY <1>3 DEF PoolInv
<1>10. CASE item + 1 \in Items
  <2>1. bpc' = "read" /\ item' = item + 1
    BY <1>10 DEF NextItem
  <2>2. Preparing' => item' \in Items /\ \A i \in Items : i < item' => Done(i)' \/ Waits(i, 0)'
    BY <1>6, <1>10, <2>1
  <2> QED BY <1>7, <1>8, <1>9, <2>1, <2>2 DEF PoolInv, Serving
<1>11. CASE item + 1 \notin Items
  <2>1. bpc' = "serve" /\ item' = 0
    BY <1>11 DEF NextItem
  <2>2. \A i \in Items : i < item + 1
    BY <1>1, <1>11 DEF Items
  <2>3. \A i \in Items : Done(i)' \/ Waits(i, 0)'
    BY <1>6, <2>2
  <2> QED BY <1>7, <1>8, <1>9, <2>1, <2>3 DEF PoolInv, Serving, Preparing
<1> QED BY <1>10, <1>11

\* A job moves from the queue into a worker's hand.
LEMMA SentItem ==
  ASSUME BatchTypeOK, PoolInv, NEW w \in Items, Send(w)
  PROVE  PoolInv'
<1> USE BatchAssumption
<1>1. /\ item \in Nat /\ Len(prepared) \in Nat /\ item + 1 <= Len(prepared)
      /\ DOMAIN prepared = 1..Len(prepared) /\ prepared[item + 1] \in Items
  BY DEF BatchTypeOK, Send
<1>2. /\ worker'[w] = "busy" /\ job'[w] = prepared[item + 1]
      /\ \A v \in Items \ {w} : worker'[v] = worker[v] /\ job'[v] = job[v]
      /\ worker[w] = "ready" /\ bpc = "send" /\ bpc' = "send" /\ item' = item + 1
      /\ prepared' = prepared /\ results' = results
  BY DEF BatchTypeOK, Send
<1>3. \A i \in Items : Done(i)' \/ Waits(i, item)' \/ InHand(i)'
  <2> SUFFICES ASSUME NEW i \in Items
               PROVE  Done(i)' \/ (\E m \in DOMAIN prepared' : item' < m /\ prepared'[m] = i) \/ InHand(i)'
    BY DEF Waits
  <2>1. CASE Done(i)
    BY <2>1, <1>2 DEF Done
  <2>2. CASE InHand(i)
    BY <2>2, <1>2 DEF InHand
  <2>3. CASE Waits(i, item)
    <3>1. PICK m \in DOMAIN prepared : item < m /\ prepared[m] = i
      BY <2>3 DEF Waits
    <3>2. CASE m = item + 1
      BY <3>1, <3>2, <1>2 DEF InHand
    <3>3. CASE m # item + 1
      BY <3>1, <3>3, <1>1, <1>2
    <3> QED BY <3>2, <3>3
  <2> QED BY <2>1, <2>2, <2>3, <1>2 DEF PoolInv, Serving
<1>4. \A v \in Items : worker'[v] = "busy" => job'[v] \in Items
  BY <1>1, <1>2 DEF PoolInv
<1>5. Serving' /\ item' <= Len(prepared') /\ Len(prepared') <= NItems
  BY <1>1, <1>2 DEF PoolInv, Serving
<1>6. \A i \in Items : Done(i)' => results'[i][1] = i
  BY <1>2 DEF PoolInv, Done
<1> QED BY <1>2, <1>3, <1>4, <1>5, <1>6 DEF PoolInv, Preparing

\* A worker stores the result of the item it has in hand.
LEMMA MeasuredItem ==
  ASSUME BatchTypeOK, PoolInv, NEW w \in Items, Measure(w)
  PROVE  PoolInv'
<1> USE BatchAssumption
<1>1. job[w] \in Items /\ Serving /\ worker[w] = "busy"
  BY DEF PoolInv, Measure
<1>2. PICK r \in {"ok", "failed"} : results' = [results EXCEPT ![job[w]] = <<job[w], r>>]
  BY DEF Measure
<1>3. results'[job[w]] = <<job[w], r>> /\ \A i \in Items \ {job[w]} : results'[i] = results[i]
  BY <1>1, <1>2 DEF BatchTypeOK
<1>4. \A i \in Items : Done(i) \/ i = job[w] => Done(i)'
  <2>1. <<job[w], r>> # None
    BY <1>1 DEF Items
  <2> QED BY <1>3, <2>1 DEF Done
<1>5. \A i \in Items : Done(i)' => results'[i][1] = i
  BY <1>3 DEF PoolInv, Done
<1>6. /\ worker'[w] = "ready" /\ \A v \in Items \ {w} : worker'[v] = worker[v] /\ job'[v] = job[v]
      /\ bpc' = bpc /\ item' = item /\ prepared' = prepared
  BY DEF BatchTypeOK, Measure
<1>7. \A i \in Items : Done(i)' \/ Waits(i, item)' \/ InHand(i)'
  <2> SUFFICES ASSUME NEW i \in Items PROVE Done(i)' \/ Waits(i, item)' \/ InHand(i)'
    OBVIOUS
  <2>1. CASE Done(i) \/ i = job[w]
    BY <2>1, <1>4
  <2>2. CASE InHand(i) /\ i # job[w]
    BY <2>2, <1>6 DEF InHand
  <2>3. CASE Waits(i, item)
    BY <2>3, <1>6 DEF Waits
  <2> QED BY <1>1, <2>1, <2>2, <2>3 DEF PoolInv
<1>8. \A v \in Items : worker'[v] = "busy" => job'[v] \in Items
  BY <1>6 DEF PoolInv
<1> QED BY <1>1, <1>5, <1>6, <1>7, <1>8 DEF PoolInv, Preparing, Serving

\* No step forgets an item.
LEMMA NextPoolInv == BatchTypeOK /\ PoolInv /\ BatchStep => PoolInv'
<1> SUFFICES ASSUME BatchTypeOK, PoolInv, BatchStep PROVE PoolInv'
  OBVIOUS
<1> USE BatchAssumption
<1>1. CASE Batch
  <2>1. /\ bpc' = "read" /\ item' = 1 /\ prepared = <<>> /\ prepared' = prepared
        /\ worker' = worker /\ job' = job /\ results' = results
    BY <1>1 DEF Batch, poolVars, PoolInv
  <2>2. 1 \in Items /\ (\A i \in Items : ~(i < 1)) /\ Len(prepared') = 0 /\ 0 <= NItems
    BY <2>1 DEF Items
  <2>3. \A w \in Items : worker'[w] = "none"
    BY <1>1, <2>1 DEF PoolInv, Serving, Batch
  <2> QED BY <2>1, <2>2, <2>3 DEF PoolInv, Preparing, Serving, Done
<1>2. CASE ReadFails \/ Refuse
  BY <1>2, FailedItem DEF ReadFails, Refuse
<1>3. CASE Build
  BY <1>3, FailedItem, PreparedItem DEF Build
<1>4. CASE Read \/ VisitFails \/ Visit \/ Leave
  <2>1. /\ Preparing /\ bpc' \in {"visit", "error", "build"} /\ item' = item
        /\ prepared' = prepared /\ worker' = worker /\ job' = job /\ results' = results
    BY <1>4 DEF Read, VisitFails, Visit, Leave, Preparing, poolVars
  <2> QED BY <2>1 DEF PoolInv, Preparing, Serving, Done, Waits
<1>5. CASE ServeNothing
  <2>1. /\ bpc = "serve" /\ bpc' = "answer" /\ item' = item /\ prepared = <<>>
        /\ prepared' = prepared /\ worker' = worker /\ job' = job /\ results' = results
    BY <1>5 DEF ServeNothing, poolVars
  <2>2. \A i \in Items : Done(i)
    BY <2>1 DEF PoolInv, Waits
  <2> QED BY <2>1, <2>2 DEF PoolInv, Preparing, Serving, Done
<1>6. CASE ServeFails
  BY <1>6 DEF ServeFails, PoolInv, poolVars, Preparing, Serving, Done
<1>7. CASE Serve
  <2>1. /\ bpc = "serve" /\ bpc' = "send" /\ item' = item /\ item = 0
        /\ prepared' = prepared /\ results' = results
        /\ \A w \in Items : worker'[w] # "busy"
        /\ Len(prepared) \in Nat
    BY <1>7 DEF Serve, PoolInv, BatchTypeOK
  <2>2. \A i \in Items : Done(i)' \/ Waits(i, item)'
    BY <2>1 DEF PoolInv, Waits, Done
  <2> QED BY <2>1, <2>2 DEF PoolInv, Preparing, Serving, Done
<1>8. CASE CloseJobs
  BY <1>8 DEF CloseJobs, PoolInv, poolVars, Preparing, Serving, Done, Waits, InHand
<1>9. ASSUME NEW w \in Items, WorkerDone(w) PROVE PoolInv'
  <2>1. /\ worker[w] = "ready" /\ worker'[w] = "none"
        /\ \A v \in Items \ {w} : worker'[v] = worker[v]
        /\ job' = job /\ bpc' = bpc /\ bpc = "wait" /\ item' = item /\ prepared' = prepared
        /\ results' = results
    BY <1>9 DEF WorkerDone, BatchTypeOK
  <2>2. \A i \in Items : InHand(i) => InHand(i)'
    BY <2>1 DEF InHand
  <2> QED BY <2>1, <2>2 DEF PoolInv, Preparing, Serving, Done, Waits
<1>10. CASE Await
  <2>1. /\ bpc = "wait" /\ bpc' = "answer" /\ item' = 0 /\ prepared' = prepared
        /\ worker' = worker /\ job' = job /\ results' = results
        /\ \A w \in Items : worker[w] = "none"
    BY <1>10 DEF Await, poolVars
  <2>2. \A i \in Items : ~InHand(i)
    BY <2>1 DEF InHand
  <2>3. \A i \in Items : ~Waits(i, item)
    BY <2>1 DEF PoolInv, Waits, BatchTypeOK
  <2> QED BY <2>1, <2>2, <2>3 DEF PoolInv, Preparing, Serving, Done
<1>11. CASE Return
  <2>1. /\ bpc \in {"answer", "refused"} /\ bpc' = "idle" /\ item' = item
        /\ prepared' = <<>> /\ worker' = worker /\ job' = job
        /\ \A i \in Items : results'[i] = None
        /\ Len(prepared') = 0 /\ 0 <= NItems
    BY <1>11 DEF Return
  <2> QED BY <2>1 DEF PoolInv, Preparing, Serving, Done
<1>12. CASE UNCHANGED batchVars
  BY <1>12 DEF batchVars, poolVars, PoolInv, Preparing, Serving, Done, Waits, InHand
<1> QED
  BY <1>1, <1>2, <1>3, <1>4, <1>5, <1>6, <1>7, <1>8, <1>9, <1>10, <1>11, <1>12, SentItem,
     MeasuredItem DEF BatchStep, WorkerStep

\* Outside of a search nothing is left of one.
Quiet ==
    /\ ~Searching /\ frames = <<>> /\ selected = <<>>
    /\ \A i \in Outbounds : states[i] = "unvisited"

\* Then SearchInv holds.
LEMMA QuietSearch == Quiet => SearchInv
<1> SUFFICES ASSUME Quiet PROVE SearchInv
  OBVIOUS
<1>1. Reached = {} /\ Visited = {} /\ DOMAIN frames = {} /\ DOMAIN selected = {}
      /\ Len(selected) = 0
  BY DEF Quiet, Reached, Visited
<1>2. ReachInv
  BY <1>1, FS_EmptySet DEF ReachInv, Quiet
<1>3. VisitedInv
  BY <1>1 DEF VisitedInv, Acyclic
<1>4. PathInv
  BY <1>1 DEF PathInv, Quiet
<1>5. RestInv
  BY <1>1 DEF RestInv
<1> QED BY <1>2, <1>3, <1>4, <1>5 DEF SearchInv, Quiet, Searching

\* The needed outbounds contain the target and what they depend on.
LEMMA NeededClosed ==
  ASSUME target \in Outbounds
  PROVE  target \in Needed
         /\ \A i \in Needed : Edges(i) \subseteq Needed
<1>1. target \in Needed
  BY DEF Needed
<1>2. ASSUME NEW i \in Needed, NEW j \in Edges(i) PROVE j \in Needed
  <2> SUFFICES ASSUME NEW S \in SUBSET Outbounds, target \in S, \A k \in S : Edges(k) \subseteq S
               PROVE  j \in S
    BY <1>2 DEF Needed, Edges
  <2>1. i \in S
    BY DEF Needed
  <2> QED BY <2>1, <1>2
<1> QED BY <1>1, <1>2

\* They are the smallest such set.
LEMMA NeededLeast ==
  ASSUME NEW S \in SUBSET Outbounds, target \in S, \A i \in S : Edges(i) \subseteq S
  PROVE  Needed \subseteq S
BY DEF Needed

\* An outbound that depends on a closed acyclic set closes no cycle with it.
LEMMA AcyclicExtends ==
  ASSUME NEW S \in SUBSET Outbounds, Acyclic(S), \A k \in S : Edges(k) \subseteq S,
         NEW i \in Outbounds, i \notin S, Edges(i) \subseteq S
  PROVE  Acyclic(S \cup {i})
<1> SUFFICES ASSUME NEW C \in SUBSET (S \cup {i}), C # {}
             PROVE  \E k \in C : Edges(k) \cap C = {}
  BY DEF Acyclic
<1>1. CASE C \ {i} = {}
  <2>1. i \in C /\ C \cap S = {}
    BY <1>1
  <2>2. Edges(i) \cap C = {}
    BY <2>1
  <2> QED BY <2>1, <2>2
<1>2. CASE C \ {i} # {}
  <2>1. C \ {i} \in (SUBSET S) \ {{}}
    BY <1>2
  <2>2. PICK k \in C \ {i} : Edges(k) \cap (C \ {i}) = {}
    BY <2>1 DEF Acyclic
  <2>3. k \in S /\ i \notin Edges(k)
    OBVIOUS
  <2> QED BY <2>2, <2>3
<1> QED BY <1>1, <1>2

\* A unique tag names its outbound.
LEMMA NamesOne ==
  ASSUME NEW a, NEW i \in Outbounds, Names(a, i)
  PROVE  tag[i] = a /\ \A j \in Outbounds : tag[j] = a => j = i
BY DEF Names, Tagged

\* The search does not change the graph.
LEMMA SameGraph ==
  ASSUME UNCHANGED <<tag, deps, target>>
  PROVE  /\ \A i : Edges(i)' = Edges(i)
         /\ \A i : Resolved(i)' <=> Resolved(i)
         /\ \A a, i : Names(a, i)' <=> Names(a, i)
         /\ Needed' = Needed
         /\ \A S : Acyclic(S)' <=> Acyclic(S)
         /\ Sound' <=> Sound
<1>1. \A i : Edges(i)' = Edges(i)
  BY DEF Edges
<1>2. \A a, i : Names(a, i)' <=> Names(a, i)
  BY DEF Names, Tagged
<1>3. \A i : Resolved(i)' <=> Resolved(i)
  BY DEF Resolved, Ambiguous, Names, Tagged
<1>4. Needed' = Needed
  BY <1>1 DEF Needed
<1>5. \A S : Acyclic(S)' <=> Acyclic(S)
  BY <1>1 DEF Acyclic
<1>6. Sound' <=> Sound
  BY DEF Sound, Acyclic, Needed, Edges, Resolved, Ambiguous, Names, Tagged
<1> QED BY <1>1, <1>2, <1>3, <1>4, <1>5, <1>6

\* What is reached is finite.
LEMMA ReachedFinite == IsFiniteSet(Reached)
<1>1. IsFiniteSet(Outbounds)
  BY BatchAssumption, FS_Interval DEF Outbounds
<1>2. Reached \subseteq Outbounds
  BY DEF Reached
<1> QED BY <1>1, <1>2, FS_Subset

\* The dependencies a frame has yet to see, without the first.
LEMMA TailParts ==
  ASSUME NEW S, NEW r \in Seq(S), r # <<>>
  PROVE  /\ Head(r) \in S /\ Head(r) = r[1] /\ 1 \in DOMAIN r
         /\ \A n \in DOMAIN Tail(r) : \E m \in DOMAIN r : r[m] = Tail(r)[n]
         /\ \A m \in DOMAIN r : r[m] = Head(r) \/ \E n \in DOMAIN Tail(r) : Tail(r)[n] = r[m]
<1>1. /\ Len(r) \in Nat \ {0} /\ DOMAIN r = 1..Len(r) /\ Head(r) = r[1]
      /\ Tail(r) \in Seq(S) /\ Len(Tail(r)) = Len(r) - 1
      /\ DOMAIN Tail(r) = 1..(Len(r) - 1)
      /\ \A n \in 1..(Len(r) - 1) : Tail(r)[n] = r[n + 1]
  BY HeadTailProperties
<1>2. \A n \in DOMAIN Tail(r) : n + 1 \in DOMAIN r /\ Tail(r)[n] = r[n + 1]
  BY <1>1
<1>3. ASSUME NEW m \in DOMAIN r, m # 1
      PROVE  m - 1 \in DOMAIN Tail(r) /\ Tail(r)[m - 1] = r[m]
  BY <1>1, <1>3
<1>4. 1 \in DOMAIN r /\ r[1] \in S
  BY <1>1
<1> QED BY <1>1, <1>2, <1>3, <1>4

\* The next dependency of the top frame.
LEMMA TopDependency ==
  ASSUME BatchTypeOK, PathInv, ReachInv, RestInv, frames # <<>>, Top.rest # <<>>
  PROVE  /\ Top.node \in Outbounds /\ states[Top.node] = "visiting"
         /\ Top.node \in Needed
         /\ \E m \in DOMAIN deps[Top.node] : deps[Top.node][m] = Head(Top.rest)
         /\ \A i \in Outbounds : Names(Head(Top.rest), i) => i \in Edges(Top.node) /\ i \in Needed
<1>1. Top = frames[Len(frames)] /\ Len(frames) \in DOMAIN frames /\ Top.node \in Outbounds
      /\ Top.rest \in Seq(Tags)
  BY StackParts DEF Top, Frame
<1>2. states[Top.node] = "visiting" /\ Top.node \in Needed
  BY <1>1 DEF PathInv, ReachInv, Reached
<1>3. \E m \in DOMAIN deps[Top.node] : deps[Top.node][m] = Head(Top.rest)
  <2>1. Head(Top.rest) = Top.rest[1] /\ 1 \in DOMAIN Top.rest
    BY <1>1, TailParts
  <2> QED BY <1>1, <2>1 DEF RestInv, RestOf
<1>4. ASSUME NEW i \in Outbounds, Names(Head(Top.rest), i)
      PROVE  i \in Edges(Top.node) /\ i \in Needed
  <2>1. tag[i] = Head(Top.rest)
    BY <1>4, NamesOne
  <2>2. i \in Edges(Top.node)
    BY <1>3, <2>1 DEF Edges
  <2> QED BY <1>2, <2>2, NeededClosed DEF BatchTypeOK
<1> QED BY <1>1, <1>2, <1>3, <1>4

\* The search is right to fail.
LEMMA VisitFailsRight ==
  ASSUME BatchTypeOK, SearchInv, VisitFails
  PROVE  ~Sound
<1> USE DEF SearchInv
<1>1. frames # <<>> /\ Top.rest # <<>>
  BY DEF VisitFails
<1>2. CASE Ambiguous(Head(Top.rest))
  <2>1. ~Resolved(Top.node) /\ Top.node \in Needed
    BY <1>1, <1>2, TopDependency DEF Resolved
  <2> QED BY <2>1 DEF Sound
<1>3. ASSUME NEW i \in Outbounds, Names(Head(Top.rest), i), states[i] = "visiting"
      PROVE  ~Sound
  <2>1. PICK k \in DOMAIN frames : frames[k].node = i
    BY <1>3 DEF PathInv
  <2> DEFINE C == {frames[f].node : f \in {g \in DOMAIN frames : k <= g}}
  <2>2. /\ frames \in Seq(Frame) /\ Len(frames) \in Nat \ {0} /\ DOMAIN frames = 1..Len(frames)
        /\ \A f \in DOMAIN frames : frames[f].node \in Outbounds
        /\ k \in Nat
    <3>1. frames \in Seq(Frame)
      BY DEF BatchTypeOK
    <3>2. Len(frames) \in Nat \ {0} /\ DOMAIN frames = 1..Len(frames) /\ k \in Nat
      BY <1>1, <3>1
    <3>3. \A f \in DOMAIN frames : frames[f] \in Frame
      BY <3>1
    <3> QED BY <3>1, <3>2, <3>3 DEF Frame
  <2>3. C \subseteq Needed
    BY <2>2 DEF PathInv, ReachInv, Reached
  <2>4. i \in C
    BY <2>1, <2>2
  <2>5. ASSUME NEW f \in DOMAIN frames, k <= f
        PROVE  \E j \in C : j \in Edges(frames[f].node)
    <3>1. CASE f = Len(frames)
      <4>1. i \in Edges(frames[f].node)
        BY <1>1, <1>3, <3>1, TopDependency DEF Top
      <4> QED BY <2>4, <4>1
    <3>2. CASE f # Len(frames)
      <4>1. f + 1 \in DOMAIN frames /\ k <= f + 1
        BY <2>2, <2>5, <3>2
      <4>2. frames[f + 1].node \in C /\ frames[f + 1].node \in Edges(frames[f].node)
        BY <4>1 DEF PathInv
      <4> QED BY <4>2
    <3> QED BY <3>1, <3>2
  <2>6. \A j \in C : Edges(j) \cap C # {}
    BY <2>5
  <2>7. C \in (SUBSET Needed) \ {{}}
    BY <2>3, <2>4
  <2> HIDE DEF C
  <2> QED BY <2>6, <2>7 DEF Sound, Acyclic
<1> QED BY <1>2, <1>3 DEF VisitFails

\* The search is right to succeed.
LEMMA BuildRight ==
  ASSUME BatchTypeOK, SearchInv, bpc = "build"
  PROVE  /\ Sound
         /\ {selected[n] : n \in DOMAIN selected} = Needed
         /\ Len(selected) = Cardinality(Needed)
<1> USE DEF SearchInv
<1>1. \A i \in Outbounds : states[i] # "visiting"
  BY DEF PathInv
<1>2. Reached = Visited
  BY <1>1 DEF Reached, Visited, BatchTypeOK
<1>3. Needed \subseteq Visited
  <2>1. target \in Visited /\ Visited \in SUBSET Outbounds
    BY <1>2 DEF ReachInv, Searching, Visited
  <2> QED BY <2>1, NeededLeast DEF VisitedInv
<1>4. Reached = Needed
  BY <1>2, <1>3 DEF ReachInv
<1>5. Sound
  BY <1>2, <1>4 DEF Sound, VisitedInv
<1>6. {selected[n] : n \in DOMAIN selected} = Reached
  <2>1. \A n \in DOMAIN selected : selected[n] \in Outbounds
    BY DEF BatchTypeOK
  <2> QED BY <2>1 DEF ReachInv, Reached
<1> QED BY <1>4, <1>5, <1>6 DEF ReachInv

\* What a frame has seen stays seen.
LEMMA SeenKept ==
  ASSUME UNCHANGED <<tag, deps, target>>, NEW f, NEW a, Seen(f, a),
         \A j \in Outbounds : states[j] = "visited" => states'[j] = "visited",
         f + 1 \in DOMAIN frames =>
           f + 1 \in DOMAIN frames' /\ frames'[f + 1].node = frames[f + 1].node
  PROVE  Seen(f, a)'
BY SameGraph DEF Seen

\* The outbound of the next frame is seen.
LEMMA SeenAbove ==
  ASSUME UNCHANGED <<tag, deps, target>>, NEW f, NEW i \in Outbounds,
         f + 1 \in DOMAIN frames', frames'[f + 1].node = i, Names(Head(Top.rest), i)
  PROVE  \A a : a = Head(Top.rest) => Seen(f, a)'
BY SameGraph DEF Seen

\* A frame that is left alone.
LEMMA RestKept ==
  ASSUME UNCHANGED <<tag, deps, target>>, NEW f, RestOf(f), frames'[f] = frames[f],
         \A a : Seen(f, a) => Seen(f, a)'
  PROVE  RestOf(f)'
BY DEF RestOf

\* The top frame, once its next dependency is seen.
LEMMA RestDropped ==
  ASSUME BatchTypeOK, frames # <<>>, Top.rest # <<>>,
         UNCHANGED <<tag, deps, target>>, NEW f, RestOf(f), frames[f] = Top, frames'[f] = Drop,
         \A a : Seen(f, a) \/ a = Head(Top.rest) => Seen(f, a)'
  PROVE  RestOf(f)'
<1>1. Top.rest \in Seq(Tags)
  BY StackParts DEF Frame
<1> DEFINE r == Top.rest
           d == deps[Top.node]
           t == Tail(r)
<1>2. /\ \A n \in DOMAIN t : \E m \in DOMAIN r : r[m] = t[n]
      /\ \A m \in DOMAIN r : r[m] = Head(r) \/ \E n \in DOMAIN t : t[n] = r[m]
  BY <1>1, TailParts
<1>3. /\ \A n \in DOMAIN r : \E m \in DOMAIN d : r[n] = d[m]
      /\ \A m \in DOMAIN d : Seen(f, d[m]) \/ \E n \in DOMAIN r : r[n] = d[m]
  BY DEF RestOf
<1>4. frames'[f].rest = t /\ frames'[f].node = Top.node /\ deps' = deps
  BY DEF Drop
<1> HIDE DEF r, t
<1>5. \A n \in DOMAIN t : \E m \in DOMAIN d : t[n] = d[m]
  BY <1>2, <1>3
<1>6. ASSUME NEW m \in DOMAIN d, NEW a, a = d[m]
      PROVE  Seen(f, a)' \/ \E n \in DOMAIN t : t[n] = a
  BY <1>2, <1>3, <1>6 DEF r
<1> QED BY <1>4, <1>5, <1>6 DEF RestOf

\* An unvisited outbound is entered.
LEMMA EnterSearch ==
  ASSUME BatchTypeOK, SearchInv, frames # <<>>, Top.rest # <<>>, bpc = "visit", bpc' = bpc,
         UNCHANGED <<tag, deps, target>>,
         NEW i \in Outbounds, Names(Head(Top.rest), i), states[i] = "unvisited", Enter(i)
  PROVE  SearchInv'
<1> USE DEF SearchInv
<1> DEFINE L == Len(frames)
<1>1. /\ L \in Nat \ {0} /\ DOMAIN frames = 1..L /\ frames[L] = Top
      /\ frames' \in Seq(Frame) /\ DOMAIN frames' = 1..(L + 1)
      /\ frames'[L + 1].node = i /\ frames'[L + 1].rest = deps[i]
      /\ frames'[L] = Drop
      /\ \A f \in 1..(L - 1) : frames'[f] = frames[f]
  BY StackParts, Entered DEF Enter, Top, BatchTypeOK
<1> HIDE DEF L
<1>2. \A f \in 1..L : frames'[f].node = frames[f].node
  <2>1. Drop.node = Top.node
    BY DEF Drop
  <2>2. \A f \in 1..L : f = L \/ f \in 1..(L - 1)
    BY <1>1
  <2> QED BY <1>1, <2>1, <2>2
<1>3. /\ states'[i] = "visiting"
      /\ \A j \in Outbounds \ {i} : states'[j] = states[j]
      /\ selected' = Append(selected, i)
  BY DEF Enter, BatchTypeOK
<1>4. Visited' = Visited /\ Reached' = Reached \cup {i} /\ i \notin Reached
  BY <1>3 DEF Visited, Reached
<1>5. Top.node \in Outbounds /\ i \in Edges(Top.node) /\ i \in Needed
  BY TopDependency
<1>6. ReachInv'
  <2>1. Reached' \subseteq Needed' /\ (Searching' => target' \in Reached')
    BY <1>4, <1>5, SameGraph DEF ReachInv, Searching
  <2>2. /\ Len(selected) \in Nat /\ DOMAIN selected = 1..Len(selected)
        /\ DOMAIN selected' = 1..(Len(selected) + 1)
        /\ Len(selected') = Len(selected) + 1
        /\ selected'[Len(selected) + 1] = i
        /\ \A n \in 1..Len(selected) : selected'[n] = selected[n]
    BY <1>3, AppendProperties DEF BatchTypeOK
  <2>3. ASSUME NEW j \in Outbounds
        PROVE  j \in Reached' <=> \E n \in DOMAIN selected' : selected'[n] = j
    <3>1. j \in Reached <=> \E n \in 1..Len(selected) : selected[n] = j
      BY <2>2 DEF ReachInv
    <3>2. \A n \in DOMAIN selected' : n = Len(selected) + 1 \/ n \in 1..Len(selected)
      BY <2>2
    <3>3. Len(selected) + 1 \in DOMAIN selected' /\ \A n \in 1..Len(selected) : n \in DOMAIN selected'
      BY <2>2
    <3> QED BY <1>4, <2>2, <3>1, <3>2, <3>3
  <2>4. Len(selected') = Cardinality(Reached')
    <3>1. Cardinality(Reached \cup {i}) = Cardinality(Reached) + 1
      BY <1>4, ReachedFinite, FS_AddElement
    <3> QED BY <1>4, <2>2, <3>1 DEF ReachInv
  <2> QED BY <2>1, <2>3, <2>4 DEF ReachInv
<1>7. VisitedInv'
  BY <1>4, SameGraph DEF VisitedInv, Visited
<1>8. PathInv'
  <2>1. \A f \in DOMAIN frames' : f = L + 1 \/ f \in 1..L
    BY <1>1
  <2>2. L + 1 \in DOMAIN frames' /\ \A f \in 1..L : f \in DOMAIN frames'
    BY <1>1
  <2>3. \A f \in 1..L : frames[f].node # i
    BY <1>1 DEF PathInv
  <2>4. ASSUME NEW j \in Outbounds
        PROVE  states'[j] = "visiting" <=> \E f \in DOMAIN frames' : frames'[f].node = j
    <3>1. CASE j = i
      BY <1>1, <1>3, <2>2, <3>1
    <3>2. CASE j # i
      BY <1>1, <1>2, <1>3, <2>1, <2>2, <3>2 DEF PathInv
    <3> QED BY <3>1, <3>2
  <2>5. ASSUME NEW f \in DOMAIN frames', NEW g \in DOMAIN frames', frames'[f].node = frames'[g].node
        PROVE  f = g
    BY <1>1, <1>2, <2>1, <2>3, <2>5 DEF PathInv
  <2>6. ASSUME NEW f \in DOMAIN frames', f + 1 \in DOMAIN frames'
        PROVE  frames'[f + 1].node \in Edges(frames'[f].node)
    <3>1. CASE f = L
      BY <1>1, <1>2, <1>5, <3>1
    <3>2. CASE f # L
      <4>1. f \in 1..L /\ f + 1 \in 1..L
        BY <1>1, <2>6, <3>2
      <4> QED BY <1>1, <1>2, <4>1 DEF PathInv
    <3> QED BY <3>1, <3>2
  <2> QED BY <2>4, <2>5, <2>6, SameGraph DEF PathInv
<1>9. RestInv'
  <2>1. ASSUME NEW f \in 1..L, NEW a, Seen(f, a) PROVE Seen(f, a)'
    <3>1. \A j \in Outbounds : states[j] = "visited" => states'[j] = "visited"
      BY <1>3
    <3>2. f + 1 \in DOMAIN frames => f + 1 \in DOMAIN frames' /\ frames'[f + 1].node = frames[f + 1].node
      BY <1>1, <1>2
    <3> QED BY <2>1, <3>1, <3>2, SeenKept
  <2>2. ASSUME NEW f \in DOMAIN frames' PROVE RestOf(f)'
    <3>1. CASE f \in 1..(L - 1)
      <4>1. f \in DOMAIN frames /\ f \in 1..L
        BY <1>1, <3>1
      <4> QED BY <1>1, <2>1, <3>1, <4>1, RestKept DEF RestInv
    <3>2. CASE f = L
      <4>1. \A a : a = Head(Top.rest) => Seen(f, a)'
        <5>1. f + 1 \in DOMAIN frames' /\ frames'[f + 1].node = i
          BY <1>1, <3>2
        <5> QED BY <5>1, SeenAbove
      <4>2. f \in DOMAIN frames /\ f \in 1..L /\ frames[f] = Top /\ frames'[f] = Drop
        BY <1>1, <3>2
      <4> QED BY <2>1, <4>1, <4>2, RestDropped DEF RestInv
    <3>3. CASE f = L + 1
      BY <1>1, <3>3 DEF RestOf
    <3> QED BY <1>1, <3>1, <3>2, <3>3
  <2> QED BY <2>2 DEF RestInv
<1>10. frames' # <<>>
  BY <1>1
<1> QED BY <1>6, <1>7, <1>8, <1>9, <1>10 DEF Searching

\* A dependency that is visited is passed over.
LEMMA DropSearch ==
  ASSUME BatchTypeOK, SearchInv, frames # <<>>, Top.rest # <<>>, bpc = "visit", bpc' = bpc,
         UNCHANGED <<tag, deps, target, states, selected>>,
         NEW i \in Outbounds, Names(Head(Top.rest), i), states[i] = "visited",
         frames' = Append(Below, Drop)
  PROVE  SearchInv'
<1> USE DEF SearchInv
<1> DEFINE L == Len(frames)
<1>1. /\ L \in Nat \ {0} /\ DOMAIN frames = 1..L /\ frames[L] = Top
      /\ frames' \in Seq(Frame) /\ DOMAIN frames' = 1..L
      /\ frames'[L] = Drop
      /\ \A f \in 1..(L - 1) : frames'[f] = frames[f]
  <2>1. L \in Nat \ {0} /\ DOMAIN frames = 1..L /\ frames[L] = Top
    BY StackParts DEF Top, BatchTypeOK
  <2>2. /\ frames' \in Seq(Frame) /\ Len(frames') = L /\ frames'[L] = Drop
        /\ \A f \in 1..(L - 1) : frames'[f] = frames[f]
    BY Dropped, Zenon
  <2>3. DOMAIN frames' = 1..L
    BY <2>2
  <2> QED BY <2>1, <2>2, <2>3
<1> HIDE DEF L
<1>2. \A f \in 1..L : frames'[f].node = frames[f].node
  <2>1. Drop.node = Top.node
    BY DEF Drop
  <2>2. \A f \in 1..L : f = L \/ f \in 1..(L - 1)
    BY <1>1
  <2> QED BY <1>1, <2>1, <2>2
<1>3. ReachInv'
  BY SameGraph DEF ReachInv, Reached, Searching
<1>4. VisitedInv'
  BY SameGraph DEF VisitedInv, Visited
<1>5. PathInv'
  <2>1. ASSUME NEW f \in DOMAIN frames', f + 1 \in DOMAIN frames'
        PROVE  frames'[f + 1].node \in Edges(frames'[f].node)
    BY <1>1, <1>2, <2>1 DEF PathInv
  <2> QED BY <1>1, <1>2, <2>1, SameGraph DEF PathInv
<1>6. RestInv'
  <2>1. ASSUME NEW f \in 1..L, NEW a, Seen(f, a) PROVE Seen(f, a)'
    <3>1. f + 1 \in DOMAIN frames => f + 1 \in DOMAIN frames' /\ frames'[f + 1].node = frames[f + 1].node
      BY <1>1, <1>2
    <3> QED BY <2>1, <3>1, SeenKept
  <2>2. ASSUME NEW f \in DOMAIN frames' PROVE RestOf(f)'
    <3>1. CASE f \in 1..(L - 1)
      <4>1. f \in DOMAIN frames /\ f \in 1..L
        BY <1>1, <3>1
      <4> QED BY <1>1, <2>1, <3>1, <4>1, RestKept DEF RestInv
    <3>2. CASE f = L
      <4>1. \A a : a = Head(Top.rest) => Seen(f, a)'
        BY SameGraph DEF Seen
      <4>2. f \in DOMAIN frames /\ f \in 1..L /\ frames[f] = Top /\ frames'[f] = Drop
        BY <1>1, <3>2
      <4> QED BY <2>1, <4>1, <4>2, RestDropped DEF RestInv
    <3> QED BY <1>1, <3>1, <3>2
  <2> QED BY <2>2 DEF RestInv
<1>7. frames' # <<>>
  BY <1>1
<1> QED BY <1>3, <1>4, <1>5, <1>6, <1>7 DEF Searching

\* The top outbound is left: all it depends on is visited.
LEMMA LeaveSearch ==
  ASSUME BatchTypeOK, SearchInv, Leave
  PROVE  SearchInv'
<1> USE DEF SearchInv
<1> DEFINE L == Len(frames)
           t == Top.node
<1>1. frames # <<>> /\ Top.rest = <<>> /\ bpc = "visit" /\ frames' = Below
      /\ UNCHANGED <<tag, deps, target>> /\ selected' = selected
  BY DEF Leave
<1>2. /\ L \in Nat \ {0} /\ DOMAIN frames = 1..L /\ L \in DOMAIN frames /\ frames[L] = Top
      /\ t \in Outbounds
  BY <1>1, StackParts DEF Top, BatchTypeOK, Frame
<1>3. /\ frames' \in Seq(Frame) /\ Len(frames') = L - 1 /\ DOMAIN frames' = 1..(L - 1)
      /\ \A f \in 1..(L - 1) : frames'[f] = frames[f]
  BY <1>1, StackParts
<1>4. states'[t] = "visited" /\ \A j \in Outbounds \ {t} : states'[j] = states[j]
  BY <1>2 DEF Leave, BatchTypeOK
<1>5. states[t] = "visiting"
  BY <1>2 DEF PathInv
<1>6. \A m \in DOMAIN deps[t] :
        \E j \in Outbounds : Names(deps[t][m], j) /\ states[j] = "visited"
  <2>1. L + 1 \notin DOMAIN frames /\ DOMAIN frames[L].rest = {} /\ frames[L].node = t
    BY <1>1, <1>2
  <2>2. RestOf(L)
    BY <1>2 DEF RestInv
  <2>3. \A m \in DOMAIN deps[t] : Seen(L, deps[t][m])
    BY <2>1, <2>2 DEF RestOf
  <2> QED BY <2>1, <2>3 DEF Seen
<1> HIDE DEF L, t
<1>7. t \notin Visited /\ Visited' = Visited \cup {t} /\ Reached' = Reached
      /\ Visited \in SUBSET Outbounds
  BY <1>2, <1>4, <1>5 DEF Visited, Reached
<1>8. Edges(t) \subseteq Visited /\ Resolved(t)
  <2>1. ASSUME NEW j \in Edges(t) PROVE j \in Visited
    <3>1. PICK m \in DOMAIN deps[t] : tag[j] = deps[t][m]
      BY DEF Edges
    <3>2. PICK k \in Outbounds : Names(deps[t][m], k) /\ states[k] = "visited"
      BY <1>6
    <3>3. j \in Outbounds /\ j = k
      BY <3>1, <3>2, NamesOne DEF Edges
    <3> QED BY <3>2, <3>3 DEF Visited
  <2>2. Resolved(t)
    BY <1>6 DEF Resolved, Ambiguous
  <2> QED BY <2>1, <2>2
<1>9. bpc' \in {"visit", "build"}
      /\ (bpc' = "build" <=> frames' = <<>>)
  BY <1>1 DEF Leave
<1>10. ReachInv'
  BY <1>1, <1>7, <1>9, SameGraph DEF ReachInv, Searching
<1>11. VisitedInv'
  <2>1. Acyclic(Visited \cup {t})
    BY <1>2, <1>7, <1>8, AcyclicExtends DEF VisitedInv
  <2>2. \A i \in Visited \cup {t} : Edges(i) \subseteq Visited \cup {t} /\ Resolved(i)
    BY <1>8 DEF VisitedInv
  <2>3. \A S : S = Visited' /\ Acyclic(S) => Acyclic(Visited)'
    BY <1>1, SameGraph DEF Acyclic
  <2>4. Acyclic(Visited)'
    BY <1>7, <2>1, <2>3
  <2> QED BY <1>1, <1>7, <2>2, <2>4, SameGraph DEF VisitedInv
<1>12. PathInv'
  <2>1. \A f \in 1..L : f = L \/ f \in 1..(L - 1)
    BY <1>2
  <2>2. \A f \in 1..(L - 1) : f \in 1..L /\ f # L
    BY <1>2
  <2>3. ASSUME NEW j \in Outbounds
        PROVE  states'[j] = "visiting" <=> \E f \in DOMAIN frames' : frames'[f].node = j
    <3>1. CASE j = t
      <4>1. \A f \in 1..(L - 1) : frames[f].node # t
        BY <1>2, <2>2 DEF PathInv, t
      <4> QED BY <1>3, <1>4, <3>1, <4>1
    <3>2. CASE j # t
      BY <1>2, <1>3, <1>4, <2>1, <2>2, <3>2 DEF PathInv, t
    <3> QED BY <3>1, <3>2
  <2>4. ASSUME NEW f \in DOMAIN frames', NEW g \in DOMAIN frames', frames'[f].node = frames'[g].node
        PROVE  f = g
    BY <1>2, <1>3, <2>2, <2>4 DEF PathInv
  <2>5. ASSUME NEW f \in DOMAIN frames', f + 1 \in DOMAIN frames'
        PROVE  frames'[f + 1].node \in Edges(frames'[f].node)
    BY <1>2, <1>3, <2>2, <2>5 DEF PathInv
  <2> QED BY <1>1, <2>3, <2>4, <2>5, SameGraph DEF PathInv
<1>13. RestInv'
  <2> SUFFICES ASSUME NEW f \in DOMAIN frames' PROVE RestOf(f)'
    BY DEF RestInv
  <2>1. f \in DOMAIN frames /\ f \in 1..(L - 1) /\ f # L /\ frames'[f] = frames[f]
        /\ f + 1 \in DOMAIN frames /\ (f + 1 \in DOMAIN frames' \/ f + 1 = L)
    BY <1>2, <1>3
  <2>2. ASSUME NEW a, Seen(f, a) PROVE Seen(f, a)'
    <3>1. PICK j \in Outbounds : Names(a, j) /\ (states[j] = "visited" \/ frames[f + 1].node = j)
      BY <2>2 DEF Seen
    <3>2. Names(a, j)'
      BY <1>1, <3>1, SameGraph
    <3>3. CASE states[j] = "visited" \/ j = t
      <4>1. states'[j] = "visited"
        BY <1>4, <1>5, <3>3
      <4> QED BY <3>2, <4>1 DEF Seen
    <3>4. CASE frames[f + 1].node = j /\ j # t
      <4>1. f + 1 \in DOMAIN frames' /\ frames'[f + 1].node = j
        BY <1>2, <1>3, <2>1, <3>4 DEF t
      <4> QED BY <3>2, <4>1 DEF Seen
    <3> QED BY <3>1, <3>3, <3>4
  <2> QED BY <1>1, <2>1, <2>2, RestKept DEF RestInv
<1> QED BY <1>9, <1>10, <1>11, <1>12, <1>13 DEF Searching

\* The search begins at the target.
LEMMA ReadSearch ==
  ASSUME BatchTypeOK, SearchInv, Read, BatchTypeOK'
  PROVE  SearchInv'
<1>1. /\ target' \in Outbounds /\ bpc' = "visit"
      /\ \A i \in Outbounds : states[i] = "unvisited"
      /\ selected' = <<target'>>
      /\ frames' = << [node |-> target', rest |-> deps'[target']] >>
  BY DEF Read, SearchInv, Searching, BatchTypeOK
<1>2. states'[target'] = "visiting" /\ \A i \in Outbounds \ {target'} : states'[i] = "unvisited"
  BY <1>1 DEF Read, BatchTypeOK
<1>3. Reached' = {target'} /\ Visited' = {}
  BY <1>1, <1>2 DEF Reached, Visited
<1>4. /\ DOMAIN frames' = {1} /\ frames'[1].node = target' /\ frames'[1].rest = deps'[target']
      /\ 2 \notin DOMAIN frames' /\ frames' # <<>>
  BY <1>1
<1>5. ReachInv'
  <2>1. target' \in Needed'
    BY <1>1 DEF Needed
  <2>2. DOMAIN selected' = {1} /\ selected'[1] = target' /\ Len(selected') = 1
    BY <1>1
  <2>3. Cardinality(Reached') = 1
    BY <1>3, FS_Singleton
  <2> QED BY <1>3, <2>1, <2>2, <2>3 DEF ReachInv
<1>6. VisitedInv'
  BY <1>3 DEF VisitedInv, Acyclic
<1>7. PathInv'
  BY <1>1, <1>2, <1>4 DEF PathInv
<1>8. RestInv'
  BY <1>4 DEF RestInv, RestOf
<1> QED BY <1>1, <1>4, <1>5, <1>6, <1>7, <1>8 DEF SearchInv, Searching

\* A step that leaves the search alone, or gives the verdict that it failed.
LEMMA SameSearch ==
  ASSUME SearchInv, UNCHANGED <<tag, deps, target, states, frames, selected>>,
         bpc' = bpc \/ (bpc = "visit" /\ bpc' = "error" /\ ~Sound)
  PROVE  SearchInv'
<1>1. Sound' <=> Sound
  BY SameGraph
<1>2. ReachInv'
  BY SameGraph DEF SearchInv, ReachInv, Reached, Searching
<1>3. VisitedInv'
  BY SameGraph DEF SearchInv, VisitedInv, Visited
<1>4. PathInv'
  BY SameGraph DEF SearchInv, PathInv
<1>5. RestInv'
  BY SeenKept, RestKept DEF SearchInv, RestInv
<1> QED BY <1>1, <1>2, <1>3, <1>4, <1>5 DEF SearchInv, Searching

\* The search keeps its invariant.
LEMMA NextSearchInv ==
  BatchTypeOK /\ BatchTypeOK' /\ SearchInv /\ BatchStep => SearchInv'
<1> SUFFICES ASSUME BatchTypeOK, BatchTypeOK', SearchInv, BatchStep PROVE SearchInv'
  OBVIOUS
<1>1. Quiet' => SearchInv'
  BY QuietSearch, PTL
<1>2. ASSUME NextItem PROVE SearchInv'
  <2>1. Quiet'
    BY <1>2 DEF NextItem, Quiet, Searching
  <2> QED BY <1>1, <2>1
<1>3. CASE ReadFails \/ Refuse \/ Build
  BY <1>2, <1>3 DEF ReadFails, Refuse, Build, ItemFails
<1>4. CASE Read
  BY <1>4, ReadSearch
<1>5. CASE VisitFails
  <2>1. ~Sound /\ bpc' = "error" /\ bpc = "visit"
        /\ UNCHANGED <<tag, deps, target, states, frames, selected>>
    BY <1>5, VisitFailsRight DEF VisitFails, dfsVars
  <2> QED BY <2>1, SameSearch
<1>6. CASE Visit
  <2>1. frames # <<>> /\ Top.rest # <<>> /\ bpc = "visit" /\ bpc' = bpc
        /\ UNCHANGED <<tag, deps, target>>
    BY <1>6 DEF Visit
  <2>2. PICK i \in Outbounds :
          /\ Names(Head(Top.rest), i)
          /\ \/ states[i] = "unvisited" /\ Enter(i)
             \/ /\ states[i] = "visited"
                /\ frames' = Append(Below, Drop)
                /\ UNCHANGED <<states, selected>>
    BY <1>6, Zenon DEF Visit
  <2> QED BY <2>1, <2>2, EnterSearch, DropSearch
<1>7. CASE Leave
  BY <1>7, LeaveSearch
<1>8. CASE ~Searching /\ ~Searching' /\ UNCHANGED dfsVars
  <2>1. Quiet'
    BY <1>8 DEF SearchInv, Quiet, dfsVars
  <2> QED BY <1>1, <2>1
<1>9. CASE UNCHANGED <<bpc, dfsVars>>
  <2>1. UNCHANGED <<bpc, tag, deps, target, states, frames, selected>>
    BY <1>9 DEF dfsVars
  <2> QED BY <2>1, SameSearch
<1>10. ASSUME NEW w \in Items, WorkerStep(w) PROVE UNCHANGED <<bpc, dfsVars>>
  BY <1>10 DEF WorkerStep, Send, Measure, WorkerDone
<1>11. CASE Batch \/ ServeNothing \/ ServeFails \/ Serve \/ CloseJobs \/ Await \/ Return
  BY <1>8, <1>11 DEF Batch, ServeNothing, ServeFails, Serve, CloseJobs, Await, Return,
     Searching
<1>12. CASE UNCHANGED batchVars
  BY <1>9, <1>12 DEF batchVars
<1> QED
  BY <1>3, <1>4, <1>5, <1>6, <1>7, <1>9, <1>10, <1>11, <1>12 DEF BatchStep

\* The batch starts without items and without a search.
LEMMA BatchInitInv == Init => BatchTypeOK /\ PoolInv /\ SearchInv
<1> SUFFICES ASSUME BatchInit PROVE BatchTypeOK /\ PoolInv /\ SearchInv
  BY DEF Init
<1> USE BatchAssumption
<1>1. Quiet
  BY DEF BatchInit, Quiet, Searching
<1>2. PoolInv
  BY DEF BatchInit, PoolInv, Preparing, Serving, Done
<1>3. BatchTypeOK
  <2>1. <<>> \in Seq(Frame) /\ <<>> \in Seq(Outbounds) /\ <<>> \in Seq(Items)
        /\ <<>> \in DepLists /\ 1 \in Outbounds /\ 0 \in 0..NItems
    BY DEF DepLists, Outbounds
  <2> QED BY <2>1 DEF BatchInit, BatchTypeOK
<1> QED BY <1>1, <1>2, <1>3, QuietSearch

\* The batch's invariants hold beside those of the instances.
LEMMA BatchInductive == Spec => [](BatchTypeOK /\ PoolInv /\ SearchInv)
<1>1. BatchTypeOK /\ PoolInv /\ SearchInv /\ [Next]_vars
        => (BatchTypeOK /\ PoolInv /\ SearchInv)'
  BY StepOfBatch, NextBatchTypes, NextPoolInv, NextSearchInv
<1> QED BY <1>1, BatchInitInv, PTL DEF Spec

\* The items wait in their order, each one once; an item that waits or is in
\* hand has no result yet, and no two workers have the same one.
OnceInv ==
    /\ \A m, n \in DOMAIN prepared : m < n => prepared[m] < prepared[n]
    /\ Preparing => /\ \A m \in DOMAIN prepared : prepared[m] < item
                    /\ \A i \in Items : item <= i => ~Done(i)
    /\ Preparing \/ bpc = "serve" => \A m \in DOMAIN prepared : ~Done(prepared[m])
    /\ Serving => \A m \in DOMAIN prepared :
                    item < m => ~Done(prepared[m]) /\ ~InHand(prepared[m])
    /\ \A w \in Items : worker[w] = "busy" => ~Done(job[w])
    /\ \A v, w \in Items : worker[v] = "busy" /\ worker[w] = "busy" /\ job[v] = job[w]
                           => v = w
    /\ bpc = "idle" => \A i \in Items : ~Done(i)

\* The workers write to the results without a lock (ping_batch.go): each item's
\* result is written once in a batch, and stays until the batch is answered.
ResultsOnce ==
    [][\A i \in Items : Done(i) /\ bpc' # "idle" => results'[i] = results[i]]_vars

\* An item fails: its result is the first it gets.
LEMMA FailedOnce ==
  ASSUME BatchTypeOK, PoolInv, OnceInv, bpc \in {"read", "error", "build"}, ItemFails,
         UNCHANGED <<prepared, worker, job>>
  PROVE  OnceInv' /\ ~Done(item) /\ \A i \in Items : Done(i) => results'[i] = results[i]
<1> USE BatchAssumption
<1>1. item \in Items /\ item \in Nat /\ NItems \in Nat /\ Preparing
  BY DEF PoolInv, Preparing, Items
<1>2. ~Done(item)
  BY <1>1 DEF OnceInv
<1>3. \A i \in Items \ {item} : results'[i] = results[i]
  BY DEF ItemFails, BatchTypeOK
<1>4. \A i \in Items \ {item} : Done(i)' <=> Done(i)
  BY <1>3 DEF Done
<1>5. \A m \in DOMAIN prepared : prepared[m] \in Items /\ prepared[m] # item /\ prepared[m] < item
  BY <1>1 DEF OnceInv, BatchTypeOK, Items
<1>6. \A m \in DOMAIN prepared : ~Done(prepared[m])'
  BY <1>1, <1>4, <1>5 DEF OnceInv
<1>7. \A w \in Items : worker'[w] = "none"
  BY <1>1 DEF PoolInv, Serving, Preparing
<1>8. \A i \in Items : item + 1 <= i => ~Done(i)'
  <2> SUFFICES ASSUME NEW i \in Items, item + 1 <= i PROVE ~Done(i)'
    OBVIOUS
  <2>1. item <= i /\ i # item
    BY <1>1 DEF Items
  <2> QED BY <1>1, <1>4, <2>1 DEF OnceInv
<1>9. \A m \in DOMAIN prepared : prepared[m] < item + 1
  BY <1>1, <1>5 DEF Items
<1>10. \/ bpc' = "read" /\ item' = item + 1
       \/ bpc' = "serve" /\ item' = 0
  BY DEF ItemFails, NextItem
<1>11. OnceInv'
  BY <1>6, <1>7, <1>8, <1>9, <1>10 DEF OnceInv, Preparing, Serving
<1> QED BY <1>2, <1>3, <1>11

\* An item that is prepared waits behind the earlier ones.
LEMMA PreparedOnce ==
  ASSUME BatchTypeOK, PoolInv, OnceInv, bpc = "build", NextItem,
         prepared' = Append(prepared, item), UNCHANGED <<results, worker, job>>
  PROVE  OnceInv'
<1> USE BatchAssumption
<1>1. item \in Items /\ item \in Nat /\ NItems \in Nat /\ Preparing
  BY DEF PoolInv, Preparing, Items
<1>2. /\ prepared' \in Seq(Items) /\ Len(prepared') = Len(prepared) + 1
      /\ \A m \in 1..Len(prepared) : prepared'[m] = prepared[m]
      /\ prepared'[Len(prepared) + 1] = item
      /\ Len(prepared) \in Nat /\ DOMAIN prepared = 1..Len(prepared)
      /\ DOMAIN prepared' = 1..(Len(prepared) + 1)
  BY <1>1, AppendProperties DEF BatchTypeOK
<1>3. \A m \in DOMAIN prepared : prepared[m] \in Items /\ prepared[m] < item
  BY <1>1 DEF OnceInv, BatchTypeOK
<1>4. \A m, n \in DOMAIN prepared' : m < n => prepared'[m] < prepared'[n]
  <2> SUFFICES ASSUME NEW m \in DOMAIN prepared', NEW n \in DOMAIN prepared', m < n
               PROVE  prepared'[m] < prepared'[n]
    OBVIOUS
  <2>1. m \in DOMAIN prepared
    BY <1>2
  <2>2. CASE n = Len(prepared) + 1
    BY <1>2, <1>3, <2>1, <2>2
  <2>3. CASE n # Len(prepared) + 1
    <3>1. n \in DOMAIN prepared
      BY <1>2, <2>3
    <3> QED BY <1>2, <2>1, <3>1 DEF OnceInv
  <2> QED BY <2>2, <2>3
<1>5. \A m \in DOMAIN prepared' : prepared'[m] < item + 1 /\ ~Done(prepared'[m])
  <2> SUFFICES ASSUME NEW m \in DOMAIN prepared'
               PROVE  prepared'[m] < item + 1 /\ ~Done(prepared'[m])
    OBVIOUS
  <2>1. CASE m = Len(prepared) + 1
    BY <1>1, <1>2, <2>1 DEF OnceInv
  <2>2. CASE m # Len(prepared) + 1
    <3>1. m \in DOMAIN prepared /\ prepared'[m] = prepared[m]
      BY <1>2, <2>2
    <3>2. prepared[m] < item /\ prepared[m] \in Nat /\ ~Done(prepared[m])
      BY <1>1, <1>3, <3>1 DEF OnceInv, Items
    <3> QED BY <1>1, <3>1, <3>2
  <2> QED BY <2>1, <2>2
<1>6. \A i : Done(i)' <=> Done(i)
  BY DEF Done
<1>7. \A i \in Items : item + 1 <= i => ~Done(i)
  BY <1>1 DEF OnceInv, Items
<1>8. \A w \in Items : worker'[w] = "none"
  BY <1>1 DEF PoolInv, Serving, Preparing
<1>9. \/ bpc' = "read" /\ item' = item + 1
      \/ bpc' = "serve" /\ item' = 0
  BY DEF NextItem
<1>10. \A m \in DOMAIN prepared' : ~Done(prepared[m])'
  BY <1>5 DEF Done
<1> QED BY <1>4, <1>5, <1>6, <1>7, <1>8, <1>9, <1>10 DEF OnceInv, Preparing, Serving

\* The next item of the queue goes to one worker.
LEMMA SentOnce ==
  ASSUME BatchTypeOK, PoolInv, OnceInv, NEW w \in Items, Send(w)
  PROVE  OnceInv'
<1> USE BatchAssumption
<1>1. /\ item \in Nat /\ Len(prepared) \in Nat /\ item + 1 <= Len(prepared)
      /\ DOMAIN prepared = 1..Len(prepared) /\ \A m \in DOMAIN prepared : prepared[m] \in Items
      /\ item + 1 \in DOMAIN prepared /\ item < item + 1 /\ Serving
  BY DEF BatchTypeOK, Send, Serving
<1>2. /\ worker'[w] = "busy" /\ job'[w] = prepared[item + 1]
      /\ \A v \in Items \ {w} : worker'[v] = worker[v] /\ job'[v] = job[v]
      /\ worker[w] = "ready" /\ bpc = "send" /\ bpc' = "send" /\ item' = item + 1
      /\ prepared' = prepared /\ results' = results
  BY DEF BatchTypeOK, Send
<1> DEFINE next == prepared[item + 1]
<1>3. ~Done(next) /\ ~InHand(next) /\ next \in Items
  BY <1>1 DEF OnceInv
<1>4. \A i : Done(i)' <=> Done(i)
  BY <1>2 DEF Done
<1>5. \A v \in Items : worker[v] = "busy" => job[v] # next
  BY <1>3 DEF InHand
<1>6. \A v \in Items : worker'[v] = "busy" => ~Done(job'[v])
  BY <1>2, <1>3 DEF OnceInv
<1>7. \A v, u \in Items : worker'[v] = "busy" /\ worker'[u] = "busy" /\ job'[v] = job'[u]
                          => v = u
  <2> SUFFICES ASSUME NEW v \in Items, NEW u \in Items, worker'[v] = "busy",
                      worker'[u] = "busy", job'[v] = job'[u], v # u
               PROVE  FALSE
    OBVIOUS
  <2>1. CASE v = w
    BY <1>2, <1>5, <2>1
  <2>2. CASE u = w
    BY <1>2, <1>5, <2>2
  <2>3. CASE v # w /\ u # w
    BY <1>2, <2>3 DEF OnceInv
  <2> QED BY <2>1, <2>2, <2>3
<1>8. \A m \in DOMAIN prepared : item + 1 < m => ~Done(prepared[m]) /\ ~InHand(prepared[m])'
  <2> SUFFICES ASSUME NEW m \in DOMAIN prepared, item + 1 < m
               PROVE  /\ ~Done(prepared[m])
                      /\ ~\E v \in Items : worker'[v] = "busy" /\ job'[v] = prepared'[m]
    BY <1>2 DEF InHand
  <2>1. item < m /\ prepared[m] # next
    BY <1>1 DEF OnceInv, Items
  <2>2. ~Done(prepared[m]) /\ \A v \in Items : worker[v] = "busy" => job[v] # prepared[m]
    BY <1>1, <2>1 DEF OnceInv, InHand
  <2> QED BY <1>2, <2>1, <2>2
<1>9. \A v \in Items : worker'[v] = "busy" => ~Done(job[v])'
  BY <1>2, <1>6 DEF Done
<1> HIDE DEF next
<1> QED BY <1>2, <1>4, <1>7, <1>8, <1>9 DEF OnceInv, Preparing, Serving

\* A worker stores the result of its item, which had none.
LEMMA MeasuredOnce ==
  ASSUME BatchTypeOK, PoolInv, OnceInv, NEW w \in Items, Measure(w)
  PROVE  OnceInv' /\ \A i \in Items : Done(i) => results'[i] = results[i]
<1> USE BatchAssumption
<1>1. job[w] \in Items /\ Serving /\ worker[w] = "busy" /\ ~Done(job[w])
  BY DEF PoolInv, Measure, OnceInv
<1>2. \A i \in Items \ {job[w]} : results'[i] = results[i]
  BY DEF BatchTypeOK, Measure
<1>3. \A i \in Items \ {job[w]} : Done(i)' <=> Done(i)
  BY <1>2 DEF Done
<1>4. /\ worker'[w] = "ready" /\ \A v \in Items \ {w} : worker'[v] = worker[v] /\ job'[v] = job[v]
      /\ bpc' = bpc /\ item' = item /\ prepared' = prepared
  BY DEF BatchTypeOK, Measure
<1>5. \A v \in Items \ {w} : worker[v] = "busy" => job[v] \in Items /\ job[v] # job[w]
  BY <1>1 DEF OnceInv, PoolInv
<1>6. \A v \in Items : worker'[v] = "busy" => ~Done(job[v])'
  <2> SUFFICES ASSUME NEW v \in Items, worker'[v] = "busy"
               PROVE  \A i : i = job'[v] => ~Done(i)'
    BY DEF Done
  <2>1. v # w /\ worker[v] = "busy" /\ job'[v] = job[v]
    BY <1>4
  <2>2. job[v] \in Items /\ job[v] # job[w] /\ ~Done(job[v])
    BY <1>5, <2>1 DEF OnceInv
  <2> QED BY <1>3, <2>1, <2>2
<1>7. \A v, u \in Items : worker'[v] = "busy" /\ worker'[u] = "busy" /\ job'[v] = job'[u]
                          => v = u
  BY <1>4 DEF OnceInv
<1>8. \A m \in DOMAIN prepared : item < m =>
        \A i : i = prepared[m] => ~Done(i)' /\ ~InHand(i)'
  <2> SUFFICES ASSUME NEW m \in DOMAIN prepared, item < m, NEW i, i = prepared[m]
               PROVE  ~Done(i)' /\ ~\E v \in Items : worker'[v] = "busy" /\ job'[v] = i
    BY DEF InHand
  <2>1. i \in Items /\ ~Done(i) /\ ~InHand(i)
    BY <1>1 DEF OnceInv, BatchTypeOK
  <2>2. i # job[w]
    BY <1>1, <2>1 DEF InHand
  <2> QED BY <1>3, <1>4, <2>1, <2>2 DEF InHand
<1>9. bpc # "idle" /\ ~Preparing /\ bpc # "serve"
  BY <1>1 DEF Serving, Preparing
<1>10. \A m \in DOMAIN prepared' : item' < m => ~Done(prepared[m])' /\ ~InHand(prepared[m])'
  BY <1>4, <1>8 DEF Done, InHand
<1>11. OnceInv'
  BY <1>4, <1>6, <1>7, <1>9, <1>10 DEF OnceInv, Preparing, Serving
<1> QED BY <1>1, <1>2, <1>11

\* No step gives an item a second result, except that a new batch starts afresh.
LEMMA NextOnceInv ==
  BatchTypeOK /\ PoolInv /\ OnceInv /\ BatchStep =>
    OnceInv' /\ \A i \in Items : Done(i) /\ bpc' # "idle" => results'[i] = results[i]
<1> SUFFICES ASSUME BatchTypeOK, PoolInv, OnceInv, BatchStep
             PROVE  OnceInv' /\ \A i \in Items : Done(i) /\ bpc' # "idle" => results'[i] = results[i]
  OBVIOUS
<1> USE BatchAssumption
<1> DEFINE Goal == /\ OnceInv'
                   /\ \A i \in Items : Done(i) /\ bpc' # "idle" => results'[i] = results[i]
<1>1. CASE Batch
  <2>1. /\ bpc = "idle" /\ bpc' = "read" /\ item' = 1 /\ prepared = <<>> /\ prepared' = prepared
        /\ worker' = worker /\ job' = job /\ results' = results
    BY <1>1 DEF Batch, poolVars, PoolInv
  <2>2. \A i \in Items : ~Done(i)
    BY <2>1 DEF OnceInv
  <2> QED BY <2>1, <2>2 DEF OnceInv, Preparing, Serving, Done
<1>2. CASE ReadFails \/ Refuse
  BY <1>2, FailedOnce DEF ReadFails, Refuse
<1>3. CASE Build
  BY <1>3, FailedOnce, PreparedOnce DEF Build
<1>4. CASE Read \/ VisitFails \/ Visit \/ Leave
  <2>1. /\ Preparing /\ bpc' \in {"visit", "error", "build"} /\ item' = item
        /\ prepared' = prepared /\ worker' = worker /\ job' = job /\ results' = results
    BY <1>4 DEF Read, VisitFails, Visit, Leave, Preparing, poolVars
  <2> QED BY <2>1 DEF OnceInv, Preparing, Serving, Done
<1>5. CASE ServeNothing \/ ServeFails
  <2>1. /\ bpc' \in {"answer", "refused"} /\ prepared' = prepared
        /\ worker' = worker /\ job' = job /\ results' = results
    BY <1>5 DEF ServeNothing, ServeFails, poolVars
  <2> QED BY <2>1 DEF OnceInv, Preparing, Serving, Done
<1>6. CASE Serve
  <2>1. /\ bpc = "serve" /\ bpc' = "send" /\ prepared' = prepared /\ results' = results
        /\ \A w \in Items : worker'[w] # "busy"
    BY <1>6 DEF Serve
  <2> QED BY <2>1 DEF OnceInv, Preparing, Serving, Done, InHand
<1>7. CASE CloseJobs
  <2>1. /\ bpc = "send" /\ bpc' = "wait" /\ item' = item /\ prepared' = prepared
        /\ worker' = worker /\ job' = job /\ results' = results
    BY <1>7 DEF CloseJobs, poolVars
  <2> QED BY <2>1 DEF OnceInv, Preparing, Serving, Done, InHand
<1>8. ASSUME NEW w \in Items, WorkerDone(w) PROVE Goal
  <2>1. /\ worker'[w] = "none" /\ \A v \in Items \ {w} : worker'[v] = worker[v]
        /\ job' = job /\ bpc' = bpc /\ bpc = "wait" /\ item' = item /\ prepared' = prepared
        /\ results' = results
    BY <1>8 DEF WorkerDone, BatchTypeOK
  <2>2. \A i : InHand(i)' => InHand(i)
    BY <2>1 DEF InHand
  <2> QED BY <2>1, <2>2 DEF OnceInv, Preparing, Serving, Done
<1>9. CASE Await
  <2>1. /\ bpc' = "answer" /\ prepared' = prepared
        /\ worker' = worker /\ job' = job /\ results' = results
    BY <1>9 DEF Await, poolVars
  <2> QED BY <2>1 DEF OnceInv, Preparing, Serving, Done
<1>10. CASE Return
  <2>1. /\ bpc' = "idle" /\ prepared' = <<>> /\ \A i \in Items : results'[i] = None
        /\ \A w \in Items : worker'[w] = "none"
    BY <1>10 DEF Return, PoolInv, Serving
  <2> QED BY <2>1 DEF OnceInv, Preparing, Serving, Done
<1>11. CASE UNCHANGED batchVars
  BY <1>11 DEF batchVars, poolVars, OnceInv, Preparing, Serving, Done, InHand
<1>12. ASSUME NEW w \in Items, Send(w) PROVE Goal
  BY <1>12, SentOnce DEF Send
<1>13. ASSUME NEW w \in Items, Measure(w) PROVE Goal
  BY <1>13, MeasuredOnce
<1> QED
  BY <1>1, <1>2, <1>3, <1>4, <1>5, <1>6, <1>7, <1>8, <1>9, <1>10, <1>11, <1>12, <1>13
  DEF BatchStep, WorkerStep

-----------------------------------------------------------------------------
(* Theorems.                                                               *)

\* Type correctness of the Xray instances.
THEOREM TypeCorrect == Spec => []TypeOK
<1>1. IInv => TypeOK
  BY DEF IInv
<1> QED BY <1>1, Inductive, PTL

\* Every instance that can still be closed is the published one, in the hands
\* of exactly one call, or the batch's while its workers run.
THEOREM InstancesAreOwned == Spec => []NoServerLeak
<1>1. IInv => NoServerLeak
  BY DEF IInv
<1> QED BY <1>1, Inductive, PTL

\* Without an overlapping temporary instance the published instance has the
\* process-wide dialer, whatever runs were refused or failed.
THEOREM DialerIsOwn == Spec => []OwnDialer
<1>1. IInv => OwnDialer
  BY DEF IInv
<1> QED BY <1>1, Inductive, PTL

\* README: "The result array has the same length and order as the input config
\* array." Whatever the items, whichever of them fail and however the workers
\* interleave, an answered batch has every item's own result, and no worker
\* is left that could write one later.
THEOREM BatchIsComplete == Spec => []BatchComplete
<1>1. PoolInv => BatchComplete
  BY DEF PoolInv, BatchComplete, Serving, Done
<1> QED BY <1>1, BatchInductive, PTL

\* However many workers a batch has and in whatever order they finish, no
\* result is overwritten and no two goroutines write to the same one.
THEOREM ResultsAreWrittenOnce == Spec => []OnceInv /\ ResultsOnce
<1>1. Init => OnceInv
  BY BatchAssumption DEF Init, BatchInit, OnceInv, Preparing, Serving, Done
<1>2. BatchTypeOK /\ PoolInv /\ OnceInv /\ [Next]_vars =>
        OnceInv' /\ [\A i \in Items : Done(i) /\ bpc' # "idle" => results'[i] = results[i]]_vars
  BY StepOfBatch, NextOnceInv
<1> QED BY <1>1, <1>2, BatchInductive, PTL DEF Spec, ResultsOnce

\* For every number of outbounds, every assignment of tags and every
\* dependency list, visit refuses a target exactly when what it leads to has
\* an ambiguous reference or a cycle, and otherwise selects each needed
\* outbound once and nothing else.
THEOREM SearchIsExact == Spec => []DependenciesExact
<1>1. BatchTypeOK /\ SearchInv => DependenciesExact
  BY BuildRight DEF DependenciesExact, SearchInv
<1> QED BY <1>1, BatchInductive, PTL

-----------------------------------------------------------------------------
(* The instances, one by one, as EngineLife describes them.               *)

\* A step that moves one instance, or none.
Keeps(e) == \A s \in Servers \ {e} : LifeOf(s)' = LifeOf(s)

\* A step that moves none stutters.
LEMMA LifeStays ==
  ASSUME \A s \in Servers : LifeOf(s)' = LifeOf(s)
  PROVE  UNCHANGED [s \in Servers |-> LifeOf(s)]
OBVIOUS

\* What a move of one instance is to EngineLife.
LEMMA LifeMoves ==
  ASSUME NEW e \in Servers, Keeps(e),
         \/ LifeOf(e) = "free" /\ LifeOf(e)' = "opening"
         \/ /\ LifeOf(e) = "opening" /\ LifeOf(e)' = "running"
            /\ \A s \in Servers : LifeOf(s) # "running"
         \/ LifeOf(e) # "free" /\ LifeOf(e)' = "free"
  PROVE  Life!LifeNext
<1> DEFINE f == [s \in Servers |-> LifeOf(s)]
<1>1. ASSUME NEW v, LifeOf(e)' = v PROVE f' = [f EXCEPT ![e] = v]
  BY <1>1 DEF Keeps
<1>2. \A s \in Servers : f[s] = LifeOf(s)
  OBVIOUS
<1> HIDE DEF f
<1> USE <1>1, <1>2 DEF Life!Move, Life!Open, Life!Publish, Life!Abandon, Life!Withdraw,
   Life!Close, f
<1> QED BY DEF Life!LifeNext

\* Every step moves one instance at most, as EngineLife allows.
LEMMA LifeStep == IInv /\ [Next]_vars => [Life!LifeNext]_([s \in Servers |-> LifeOf(s)])
<1> SUFFICES ASSUME IInv, [Next]_vars
             PROVE  Life!LifeNext \/ UNCHANGED [s \in Servers |-> LifeOf(s)]
  OBVIOUS
<1> USE XrayAssumption DEF IInv, TypeOK
<1> DEFINE Goal == Life!LifeNext \/ UNCHANGED [s \in Servers |-> LifeOf(s)]
<1>1. ASSUME NEW c \in Calls, Call(c) \/ Lock(c) \/ CreateFails(c) PROVE Goal
  BY <1>1, LifeStays DEF Call, Lock, CreateFails, LifeOf
<1>2. ASSUME NEW c \in Calls, Create(c) PROVE Goal
  <2>1. PICK s \in Servers : Fresh(s) /\ open' = open \cup {s}
    BY <1>2 DEF Create
  <2>2. coreServer # s
    BY <2>1 DEF Fresh, NoServerLeak
  <2>3. LifeOf(s) = "free" /\ LifeOf(s)' = "opening" /\ Keeps(s)
    BY <1>2, <2>1, <2>2 DEF Create, Fresh, LifeOf, Keeps
  <2> QED BY <2>3, LifeMoves
<1>3. ASSUME NEW c \in Calls, Start(c), Locks(c) PROVE Goal
  <2>1. mine[c] \in Servers /\ mine[c] \in open /\ coreServer = None
    BY <1>3 DEF Start, HandInv, MutexInv, NoServerLeak
  <2>2. \A s \in Servers : LifeOf(s) # "running"
    BY <2>1 DEF LifeOf
  <2>3. \A s \in Servers : s = mine[c] =>
          LifeOf(s) = "opening" /\ LifeOf(s)' = "running" /\ Keeps(s)
    BY <1>3, <2>1 DEF Start, LifeOf, Keeps
  <2> QED BY <2>1, <2>2, <2>3, LifeMoves
<1>4. ASSUME NEW c \in Calls, Start(c), ~Locks(c) PROVE Goal
  BY <1>4, LifeStays DEF Start, LifeOf
<1>5. ASSUME NEW c \in Calls, StartFails(c) \/ Close(c) PROVE Goal
  <2>1. mine[c] \in open /\ mine[c] # coreServer
    BY <1>5 DEF StartFails, Close, HandInv, NoServerLeak
  <2>2. CASE UNCHANGED <<open, coreServer>>
    BY <2>2, LifeStays DEF LifeOf
  <2>3. CASE open' = open \ {mine[c]} /\ UNCHANGED coreServer
    <3>1. \A s \in Servers : s = mine[c] =>
            LifeOf(s) # "free" /\ LifeOf(s)' = "free" /\ Keeps(s)
      BY <2>1, <2>3 DEF LifeOf, Keeps
    <3> QED BY <2>1, <3>1, LifeMoves
  <2> QED BY <1>5, <2>2, <2>3 DEF StartFails, Close, CloseServer
<1>6. ASSUME NEW c \in Calls, Stop(c) PROVE Goal
  <2>1. coreServer' = None /\ open' = open \ {coreServer}
    BY <1>6 DEF Stop, CloseServer
  <2>2. CASE coreServer = None
    BY <2>1, <2>2, LifeStays DEF LifeOf
  <2>3. CASE coreServer # None
    <3>1. \A s \in Servers : s = coreServer =>
            LifeOf(s) # "free" /\ LifeOf(s)' = "free" /\ Keeps(s)
      BY <2>1, <2>3 DEF LifeOf, Keeps
    <3> QED BY <2>3, <3>1, LifeMoves
  <2> QED BY <2>2, <2>3
<1>7. ASSUME BatchDial, Serve PROVE Goal
  <2>1. "batch" \notin open /\ coreServer # "batch"
    BY <1>7 DEF Serve, NoServerLeak, HandInv
  <2>2. open' = open \cup {"batch"} /\ UNCHANGED coreServer
    BY <1>7 DEF BatchDial, Serve, ServeFails, Return
  <2>3. LifeOf("batch") = "free" /\ LifeOf("batch")' = "opening" /\ Keeps("batch")
    BY <2>1, <2>2 DEF LifeOf, Keeps
  <2> QED BY <2>3, LifeMoves
<1>8. ASSUME BatchDial, ~Serve PROVE Goal
  <2>1. UNCHANGED coreServer /\ (UNCHANGED open \/ open' = open \ {"batch"})
    BY <1>8 DEF BatchDial, CloseServer
  <2>2. CASE UNCHANGED open \/ "batch" \notin open
    BY <2>1, <2>2, LifeStays DEF LifeOf
  <2>3. CASE open' = open \ {"batch"} /\ "batch" \in open
    <3>1. LifeOf("batch") # "free" /\ LifeOf("batch")' = "free" /\ Keeps("batch")
      BY <2>1, <2>3 DEF LifeOf, Keeps, HandInv
    <3> QED BY <3>1, LifeMoves
  <2> QED BY <2>1, <2>2, <2>3
<1>9. CASE (Batch /\ UNCHANGED xrayVars) \/ BatchAlone \/ UNCHANGED vars
  <2>1. UNCHANGED xrayVars
    BY <1>9 DEF BatchAlone, vars
  <2> QED BY <2>1, LifeStays DEF LifeOf, xrayVars
<1> QED
  BY <1>1, <1>2, <1>3, <1>4, <1>5, <1>6, <1>7, <1>8, <1>9 DEF Next, CallStep

\* RunXray and StopXray, under coreServerMu, keep the promise of EngineLife: a
\* running instance is never replaced, and neither the temporary instances of
\* ping, testXray and pingBatch nor one whose start failed become it.
THEOREM XrayImplementsLife == Spec => ImplementsLife
<1>1. Init => Life!LifeInit
  BY XrayAssumption DEF Init, Life!LifeInit, LifeOf
<1> QED BY <1>1, LifeStep, Inductive, PTL DEF Spec, ImplementsLife, Life!LifeSpec
=============================================================================
