------------------------------ MODULE MCWorker ------------------------------
(* One API process with a few requests, for TLC.  Its liveness is checked, so *)
(* its threads and requests are not declared symmetric.                       *)
EXTENDS Worker
=============================================================================
