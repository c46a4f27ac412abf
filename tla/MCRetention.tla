---------------------------- MODULE MCRetention -----------------------------
(* Instances of Retention for TLC.                                         *)
EXTENDS Retention

CONSTANTS cam1, cam2, worker1, worker2

\* Without a worker the first job of the first round is never taken, and
\* purge hangs in its send: the runs need one.
ASSUME Workers # {}
=============================================================================
