---------------------------- MODULE SessionLink ----------------------------
(***************************************************************************)
(* What the owner of a USQUE session is promised about its link, whatever  *)
(* the tunnel supervisor does inside: the session reports "ready" only     *)
(* between a completed CONNECT-IP handshake and the next reported error,   *)
(* the link goes away for good only after the session's context ended, and *)
(* a link that ended is never replaced.                                    *)
(***************************************************************************)
VARIABLES
    link,     \* "down": no handshake stands; "up": one does; "done": given up
    ready,    \* what PRUsqueStatus / PRUsqueIsReady answer
    stopped,  \* the session was stopped
    ended     \* the session's context is cancelled

linkVars == <<link, ready, stopped, ended>>

LinkInit ==
    /\ link = "down"
    /\ ready = FALSE
    /\ stopped = FALSE
    /\ ended = FALSE

\* A handshake completes: the only step that makes the session ready. It may
\* be reported just after the context ended.
Handshake ==
    /\ link = "down"
    /\ link' = "up"
    /\ ready' = TRUE
    /\ UNCHANGED <<stopped, ended>>

\* The standing link fails; the session stops being ready in the same step.
LinkLost ==
    /\ link = "up"
    /\ link' = "down"
    /\ ready' = FALSE
    /\ UNCHANGED <<stopped, ended>>

\* Stop is requested: readiness is withdrawn before anything is torn down.
StopRequested ==
    /\ ~stopped
    /\ stopped' = TRUE
    /\ ready' = FALSE
    /\ UNCHANGED <<link, ended>>

\* The context is cancelled, by the stop or by the parent's deadline.
ContextEnds ==
    /\ ~ended
    /\ ended' = TRUE
    /\ UNCHANGED <<link, ready, stopped>>

\* The supervisor gives up, only with no link standing and a cancelled context.
GiveUp ==
    /\ link = "down"
    /\ ended
    /\ link' = "done"
    /\ UNCHANGED <<ready, stopped, ended>>

LinkNext ==
    \/ Handshake \/ LinkLost
    \/ StopRequested \/ ContextEnds \/ GiveUp

LinkSpec == LinkInit /\ [][LinkNext]_linkVars
=============================================================================
