-------------------------- MODULE MCPsiphonBridge --------------------------
(***************************************************************************)
(* Model checking of PsiphonBridge: three names for tunnels, two of them   *)
(* to the same server, and one worker, which dials again while runTunnels  *)
(* handles its last tunnel. A behaviour has two callers and the default    *)
(* pool of one tunnel, or one caller and a pool of two: the calls do not   *)
(* look at the size of the pool. failedTunnels holds the larger pool, as   *)
(* MAX_TUNNEL_POOL_SIZE does in the code, connectedTunnels one tunnel.     *)
(***************************************************************************)
EXTENDS PsiphonBridge

CONSTANTS t1, t2, t3, c1, c2

MCServer == (t1 :> "a") @@ (t2 :> "a") @@ (t3 :> "b")

MCNext ==
    /\ tunnelPoolSize' = tunnelPoolSize
    /\ Next
    /\ tunnelPoolSize = 2 => call'[c2] = call[c2]

MCSpec == Init /\ [][MCNext]_vars /\ Fairness
=============================================================================
