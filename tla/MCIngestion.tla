---------------------------- MODULE MCIngestion -----------------------------
(* Small orgs for TLC.                                                      *)
EXTENDS Ingestion, TLC

\* Nothing tells paths, texts, ACLs, uploads or drains apart but their names.
Symmetry ==
    Permutations(Path) \cup Permutations(Text) \cup Permutations(Acl)
      \cup Permutations(Request) \cup Permutations(Drain)
=============================================================================
