----------------------------- MODULE PingBatch -----------------------------
(***************************************************************************)
(* PingBatch of libxray/xray/ping_batch.go: every item's outbounds are     *)
(* read, the target and the outbounds it depends on are collected by a     *)
(* depth-first search and renamed, one temporary Xray instance is started  *)
(* with all of them, and a pool of workers measures the items and stores   *)
(* the results by index. The recursion of visit is a stack of frames.      *)
(***************************************************************************)
EXTENDS Naturals, Sequences, FiniteSets

CONSTANTS
    NItems,     \* configs of the request
    NOutbounds, \* outbounds of a config
    Tags,       \* outbound tags; "proxy" is the default target's
    None

ASSUME BatchAssumption ==
    /\ NItems \in 1..5         \* maxPingBatchConfigs
    /\ NOutbounds \in Nat \ {0}
    /\ None \notin Tags \cup ((1..NItems) \X {"ok", "failed"})

Items == 1..NItems
Outbounds == 1..NOutbounds

VARIABLES
    bpc,        \* where the call stands
    item,       \* the item being prepared, later the number of jobs sent
    tag, deps, target,  \* its outbounds' tags and dependency tags, its target
    states, frames, selected,   \* of collectPingOutboundDependencies
    prepared,   \* the items that go to the workers
    worker,     \* what each worker does
    job,        \* the item it has in hand, or 0
    results     \* results by index

dfsVars == <<tag, deps, target, states, frames, selected>>
poolVars == <<prepared, worker, job, results>>
batchVars == <<bpc, item, dfsVars, poolVars>>

BatchInit ==
    /\ bpc = "idle" /\ item = 0
    /\ tag = [i \in Outbounds |-> None] /\ deps = [i \in Outbounds |-> <<>>]
    /\ target = 1
    /\ states = [i \in Outbounds |-> "unvisited"]
    /\ frames = <<>> /\ selected = <<>>
    /\ prepared = <<>>
    /\ worker = [i \in Items |-> "none"] /\ job = [i \in Items |-> 0]
    /\ results = [i \in Items |-> None]

\* pingOutboundDependencyTags: dialerProxy, then proxySettings.tag.
DepLists == {<<>>} \cup {<<a>> : a \in Tags} \cup {<<a, b>> : a \in Tags, b \in Tags}

\* tagIndexes and duplicateTags: only a tag that names one outbound is used.
Tagged(a) == {i \in Outbounds : tag[i] = a}
Names(a, i) == Tagged(a) = {i}
Ambiguous(a) == \A i \in Outbounds : ~Names(a, i)

\* validatePingBatchRequest passes.
Batch ==
    /\ bpc = "idle"
    /\ bpc' = "read" /\ item' = 1
    /\ UNCHANGED <<dfsVars, poolVars>>

NextItem ==
    /\ bpc' = IF item + 1 \in Items THEN "read" ELSE "serve"
    /\ item' = IF item + 1 \in Items THEN item + 1 ELSE 0
    /\ tag' = [i \in Outbounds |-> None] /\ deps' = [i \in Outbounds |-> <<>>]
    /\ target' = 1
    /\ states' = [i \in Outbounds |-> "unvisited"]
    /\ frames' = <<>> /\ selected' = <<>>

ItemFails == results' = [results EXCEPT ![item] = <<item, "failed">>] /\ NextItem

\* readPingOutbounds fails, or the requested tag is duplicate or missing.
ReadFails ==
    /\ bpc = "read"
    /\ ItemFails
    /\ UNCHANGED <<prepared, worker, job>>

\* The target is the requested outbound, "proxy" or the first one; visit is
\* entered for it.
Read ==
    /\ bpc = "read"
    /\ tag' \in [Outbounds -> Tags \cup {None}]
    /\ deps' \in [Outbounds -> DepLists]
    /\ \/ \E a \in Tags, i \in Outbounds : Names(a, i)' /\ target' = i
       \/ Tagged("proxy")' = {} /\ target' = 1
    /\ bpc' = "visit"
    /\ states' = [states EXCEPT ![target'] = "visiting"]
    /\ selected' = <<target'>>
    /\ frames' = << [node |-> target', rest |-> deps'[target']] >>
    /\ UNCHANGED <<item, poolVars>>

Top == frames[Len(frames)]
Below == SubSeq(frames, 1, Len(frames) - 1)
Drop == [node |-> Top.node, rest |-> Tail(Top.rest)]

Enter(i) ==
    /\ states' = [states EXCEPT ![i] = "visiting"]
    /\ selected' = Append(selected, i)
    /\ frames' = Append(Append(Below, Drop), [node |-> i, rest |-> deps[i]])

\* The dependency is duplicate or missing, or closes a cycle.
VisitFails ==
    /\ bpc = "visit" /\ frames # <<>> /\ Top.rest # <<>>
    /\ \/ Ambiguous(Head(Top.rest))
       \/ \E i \in Outbounds : Names(Head(Top.rest), i) /\ states[i] = "visiting"
    /\ bpc' = "error"
    /\ UNCHANGED <<item, dfsVars, poolVars>>

\* Mutant: an outbound two others depend on is selected twice.
VisitRepeats ==
    /\ bpc = "visit" /\ frames # <<>> /\ Top.rest # <<>>
    /\ \E i \in Outbounds :
         /\ Names(Head(Top.rest), i) /\ states[i] # "visiting"
         /\ Enter(i)
    /\ UNCHANGED <<bpc, item, tag, deps, target, poolVars>>

\* visit(dependencyIndex) enters an unvisited outbound or returns at once.
Visit ==
    /\ bpc = "visit" /\ frames # <<>> /\ Top.rest # <<>>
    /\ \E i \in Outbounds :
         /\ Names(Head(Top.rest), i)
         /\ \/ states[i] = "unvisited" /\ Enter(i)
            \/ /\ states[i] = "visited"
               /\ frames' = Append(Below, Drop)
               /\ UNCHANGED <<states, selected>>
    /\ UNCHANGED <<bpc, item, tag, deps, target, poolVars>>

\* All dependencies of the top outbound are there.
Leave ==
    /\ bpc = "visit" /\ frames # <<>> /\ Top.rest = <<>>
    /\ states' = [states EXCEPT ![Top.node] = "visited"]
    /\ frames' = Below
    /\ bpc' = IF Below = <<>> THEN "build" ELSE "visit"
    /\ UNCHANGED <<item, tag, deps, target, selected, poolVars>>

\* The renamed outbounds build, or one of them does not.
Build ==
    /\ bpc = "build"
    /\ \/ prepared' = Append(prepared, item) /\ NextItem /\ UNCHANGED results
       \/ ItemFails /\ UNCHANGED prepared
    /\ UNCHANGED <<worker, job>>

\* Mutant: a refused item is read again.
RefuseRetries ==
    /\ bpc = "error"
    /\ bpc' = "read"
    /\ states' = [i \in Outbounds |-> "unvisited"]
    /\ UNCHANGED <<item, tag, deps, target, frames, selected, poolVars>>

Refuse ==
    /\ bpc = "error"
    /\ ItemFails
    /\ UNCHANGED <<prepared, worker, job>>

\* No item is left: the failed results are the answer.
ServeNothing ==
    /\ bpc = "serve" /\ prepared = <<>>
    /\ bpc' = "answer"
    /\ UNCHANGED <<item, dfsVars, poolVars>>

\* startPingBatchServer fails: there is no result at all.
ServeFails ==
    /\ bpc = "serve" /\ prepared # <<>>
    /\ bpc' = "refused"
    /\ UNCHANGED <<item, dfsVars, poolVars>>

\* The temporary instance runs; one worker for each prepared item.
Serve ==
    /\ bpc = "serve" /\ prepared # <<>>
    /\ bpc' = "send"
    /\ worker' = [w \in Items |-> IF w <= Len(prepared) THEN "ready" ELSE "none"]
    /\ UNCHANGED <<item, dfsVars, prepared, job, results>>

\* jobs has no buffer: the send meets a worker that receives.
Send(w) ==
    /\ bpc = "send" /\ item < Len(prepared)
    /\ worker[w] = "ready"
    /\ worker' = [worker EXCEPT ![w] = "busy"]
    /\ job' = [job EXCEPT ![w] = prepared[item + 1]]
    /\ item' = item + 1
    /\ UNCHANGED <<bpc, dfsVars, prepared, results>>

\* close(jobs) after the last one.
CloseJobs ==
    /\ bpc = "send" /\ item = Len(prepared)
    /\ bpc' = "wait"
    /\ UNCHANGED <<item, dfsVars, poolVars>>

\* measureOutboundDelay ends, by its timeout at the latest.
Measure(w) ==
    /\ worker[w] = "busy"
    /\ \E r \in {"ok", "failed"} :
         results' = [results EXCEPT ![job[w]] = <<job[w], r>>]
    /\ worker' = [worker EXCEPT ![w] = "ready"] /\ job' = [job EXCEPT ![w] = 0]
    /\ UNCHANGED <<bpc, item, dfsVars, prepared>>

\* The worker's range over jobs ends.
WorkerDone(w) ==
    /\ bpc = "wait" /\ worker[w] = "ready"
    /\ worker' = [worker EXCEPT ![w] = "none"]
    /\ UNCHANGED <<bpc, item, dfsVars, prepared, job, results>>

\* Mutant: nobody waits for the workers.
AwaitNobody ==
    /\ bpc = "wait"
    /\ bpc' = "answer" /\ item' = 0
    /\ UNCHANGED <<dfsVars, poolVars>>

\* workers.Wait() returns.
Await ==
    /\ bpc = "wait" /\ \A w \in Items : worker[w] = "none"
    /\ bpc' = "answer" /\ item' = 0
    /\ UNCHANGED <<dfsVars, poolVars>>

Return ==
    /\ bpc \in {"answer", "refused"}
    /\ bpc' = "idle"
    /\ prepared' = <<>> /\ results' = [i \in Items |-> None]
    /\ UNCHANGED <<item, dfsVars, worker, job>>

WorkerStep(w) == Send(w) \/ Measure(w) \/ WorkerDone(w)

-----------------------------------------------------------------------------
(* What the search should find, without a search.                          *)

Resolved(i) == \A n \in DOMAIN deps[i] : ~Ambiguous(deps[i][n])

Edges(i) == {j \in Outbounds : \E n \in DOMAIN deps[i] : tag[j] = deps[i][n]}

\* The smallest set with the target that is closed under dependencies.
Needed ==
    {i \in Outbounds :
       \A S \in SUBSET Outbounds :
         target \in S /\ (\A j \in S : Edges(j) \subseteq S) => i \in S}

\* Every non-empty set of outbounds has one that depends on none of it.
Acyclic(S) == \A C \in (SUBSET S) \ {{}} : \E i \in C : Edges(i) \cap C = {}

Sound == Acyclic(Needed) /\ \A i \in Needed : Resolved(i)

-----------------------------------------------------------------------------
(* Properties.                                                             *)

\* README: "Outbound dependencies referenced by dialerProxy or
\* proxySettings.tag are included automatically." The search accepts a
\* target exactly when everything it leads to is unambiguous and free of
\* cycles, and selects each needed outbound once and nothing else, so that
\* every rewritten reference names an outbound of the same item.
DependenciesExact ==
    /\ bpc = "error" => ~Sound
    /\ bpc = "build" =>
         /\ Sound
         /\ {selected[n] : n \in DOMAIN selected} = Needed
         /\ Len(selected) = Cardinality(Needed)

\* README: "The result array has the same length and order as the input
\* config array." When the call answers, every item has its own result and no
\* worker is left to write one later.
BatchComplete ==
    bpc = "answer" => \A i \in Items :
                        worker[i] = "none" /\ results[i] # None /\ results[i][1] = i
=============================================================================
