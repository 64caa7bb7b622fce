----------------------------- MODULE MCAnswers ------------------------------
(* Two users of two orgs, for TLC.                                          *)
EXTENDS Answers, TLC

CONSTANTS u1, u2, o1, o2

TwoOrgs == (u1 :> o1) @@ (u2 :> o2)

Symmetry == Permutations(Stream)
=============================================================================
