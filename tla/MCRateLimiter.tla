--------------------------- MODULE MCRateLimiter ---------------------------
(***************************************************************************)
(* Small instances of RateLimiter: two callers, an hour of six ticks and   *)
(* a minute of two.                                                        *)
(***************************************************************************)
EXTENDS RateLimiter, TLC

MCSymmetry == Permutations(Callers)
=============================================================================
