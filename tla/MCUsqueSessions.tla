-------------------------- MODULE MCUsqueSessions --------------------------
(***************************************************************************)
(* Model checking of UsqueSessions.                                        *)
(***************************************************************************)
EXTENDS UsqueSessions, TLC

\* Callers, sessions and relays are interchangeable.
Perms == Permutations(Callers) \cup Permutations(Sess) \cup Permutations(Relays)
=============================================================================
