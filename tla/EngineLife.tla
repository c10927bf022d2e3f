----------------------------- MODULE EngineLife -----------------------------
(***************************************************************************)
(* What every start and stop interface of the repository promises about    *)
(* the engines it creates, whatever its callers do at the same time: an    *)
(* engine is opened by one call and published at most once, only while no  *)
(* other is published; a published one is never replaced, only withdrawn   *)
(* or closed in place; and a withdrawn or failed one is never published    *)
(* again before it is closed, when its name may stand for a new engine.    *)
(*                                                                         *)
(* An engine is a session object: a UsqueSession under one ID, a URnetwork *)
(* session, an AmneziaWG tunnel or an Xray instance.                       *)
(***************************************************************************)
CONSTANT Engines

VARIABLE life

LifeInit == life = [e \in Engines |-> "free"]

Move(e, to) == life' = [life EXCEPT ![e] = to]

\* A call begins to build the engine.
Open(e) == life[e] = "free" /\ Move(e, "opening")

\* The start succeeds and the engine becomes the one others find.
Publish(e) ==
    /\ life[e] = "opening"
    /\ \A d \in Engines : life[d] # "running"
    /\ Move(e, "running")

\* The start fails, or the engine was temporary.
Abandon(e) == life[e] = "opening" /\ Move(e, "closing")

\* A stop takes the published engine away from the others.
Withdraw(e) == life[e] = "running" /\ Move(e, "closing")

\* The last of its resources is released.
Close(e) == life[e] # "free" /\ Move(e, "free")

LifeNext ==
    \E e \in Engines : Open(e) \/ Publish(e) \/ Abandon(e) \/ Withdraw(e) \/ Close(e)

LifeSpec == LifeInit /\ [][LifeNext]_life
=============================================================================
