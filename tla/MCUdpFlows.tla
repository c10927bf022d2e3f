----------------------------- MODULE MCUdpFlows -----------------------------
(***************************************************************************)
(* Model checking of UdpFlows. The run checks liveness, so Keys, Conns and *)
(* Workers are model values without symmetry.                              *)
(***************************************************************************)
EXTENDS UdpFlows
=============================================================================
