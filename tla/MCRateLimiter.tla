---------------------------- MODULE MCRateLimiter ----------------------------
(***************************************************************************)
(* RateLimiter for model checking.                                         *)
(***************************************************************************)
EXTENDS RateLimiter, TLC

\* Clients are interchangeable.
Symmetry == Permutations(Keys)

=============================================================================
