----------------------------- MODULE MCMembers ------------------------------
(* Users, groups and requests are interchangeable.                          *)
EXTENDS Members, TLC

Symmetry == Permutations(User) \cup Permutations(Group) \cup Permutations(Request)
=============================================================================
