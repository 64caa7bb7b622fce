---------------------------- MODULE MCRateLimit ----------------------------
(* Threads are interchangeable.                                             *)
EXTENDS RateLimit, TLC

Symmetry == Permutations(Call)
=============================================================================
