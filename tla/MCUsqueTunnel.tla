--------------------------- MODULE MCUsqueTunnel ---------------------------
(***************************************************************************)
(* Model checking of UsqueTunnel. Two slots let one pump of an old cycle   *)
(* overlap with the next; the configurations choose the transport and      *)
(* whether the tunnel waits for traffic before it reconnects.              *)
(***************************************************************************)
EXTENDS UsqueTunnel
=============================================================================
