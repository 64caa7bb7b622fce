------------------------------ MODULE MCAccess ------------------------------
(* Calls and tokens are interchangeable.                         *)
EXTENDS Access, TLC

CONSTANTS g1

MCAcl == {{"public-to-org"}, {g1}}

Symmetry == Permutations(Call) \cup Permutations(Token)
=============================================================================
