---------------------------- MODULE MCJobQueue ------------------------------
(* Small queues for TLC.                                                    *)
EXTENDS JobQueue, TLC

\* Drains are interchangeable, and keys differ only in the order of arrival.
Symmetry == Permutations(Drain) \cup Permutations(Key)
=============================================================================
