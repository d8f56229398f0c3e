--------------------------- MODULE MCRateLimiter ---------------------------
(***************************************************************************)
(* An instance of RateLimiter for TLC: two users, who are interchangeable. *)
(***************************************************************************)
EXTENDS RateLimiter

CONSTANTS u1, u2

TwoUsers == {u1, u2}
Symmetry == Permutations(TwoUsers)
=============================================================================
