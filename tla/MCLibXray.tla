----------------------------- MODULE MCLibXray -----------------------------
(***************************************************************************)
(* Model checking of LibXray: every dependency graph of three outbounds    *)
(* with two tags for the first of two items, and two callers that overlap  *)
(* with the batch. The search touches nothing of the instances: a          *)
(* behaviour with callers has outbounds without dependencies and measures  *)
(* one item.                                                               *)
(***************************************************************************)
EXTENDS LibXray

VARIABLE side

MCInit == Init /\ side \in {"search", "instances"}

MCNext ==
    /\ \/ side = "search" /\ pc' = pc /\ (item = 2 => tag' = tag /\ deps' = deps)
       \/ side = "instances" /\ tag' = tag /\ deps' = deps
    /\ Next
    /\ side = "instances" => Len(prepared') <= 1 /\ (item' = 2 => bpc' # "visit")
    /\ UNCHANGED side

MCSpec == MCInit /\ [][MCNext]_<<vars, side>> /\ WF_vars(BatchDial \/ BatchAlone)
=============================================================================
