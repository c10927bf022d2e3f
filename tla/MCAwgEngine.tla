---------------------------- MODULE MCAwgEngine ----------------------------
(***************************************************************************)
(* Model checking of AwgEngine: two callers, two names for the published   *)
(* tunnel (the old one's accept loop may still hold a connection), two     *)
(* inner hosts, and two probes that take turns at the semaphore. AwgPing   *)
(* shares no variable of the code with the other calls, so a behaviour has *)
(* either callers or probes.                                               *)
(***************************************************************************)
EXTENDS AwgEngine

VARIABLE side       \* the processes of this behaviour

MCInit == Init /\ side \in {Calls, Probes}

MCNext ==
    /\ Next
    /\ \A p \in Procs \ side : pc'[p] = pc[p]
    /\ UNCHANGED side

MCSpec == MCInit /\ [][MCNext]_<<vars, side>> /\ Fairness
=============================================================================
