--------------------------- MODULE MCRateLimiter ---------------------------
(***************************************************************************)
(* The instance of RateLimiter that TLC checks.  The callers are           *)
(* interchangeable: no definition of RateLimiter or SlidingWindow chooses  *)
(* among them.                                                             *)
(***************************************************************************)
EXTENDS RateLimiter

Symmetry == Permutations(Callers)
=============================================================================
