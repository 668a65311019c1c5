--------------------------- MODULE MCRateLimiter ---------------------------
(***************************************************************************)
(* Four requests from two addresses, two of which may pass per window.     *)
(***************************************************************************)
EXTENDS RateLimiter, TLC

Symmetry == Permutations(Request) \cup Permutations(Key)
=============================================================================
