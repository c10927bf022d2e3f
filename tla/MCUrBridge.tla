----------------------------- MODULE MCUrBridge -----------------------------
(***************************************************************************)
(* Model checking of UrBridge, without symmetry since its run checks       *)
(* liveness. A start opens its session while none is registered and every  *)
(* other call holds one at most, so as many Sessions as Callers never run  *)
(* out.                                                                    *)
(***************************************************************************)
EXTENDS UrBridge
=============================================================================
