--------------------------- MODULE MCProofStream ---------------------------
(***************************************************************************)
(* An instance of ProofStream for TLC: two tabs of one browser, and fewer  *)
(* feeds than there are sessions.                                          *)
(***************************************************************************)
EXTENDS ProofStream

\* The last answer comes after a feed was dropped for the limit, before a restart, and
\* when no other is awaited.
LastAfterDrop == done = MaxTraces => evicted # {} /\ restarts = 0 /\ pending = {}
=============================================================================
