------------------------------ MODULE MCExpiry ------------------------------
(* Instances of Expiry for TLC.                                            *)
EXTENDS Expiry

\* What the names of files and rows rest on.
ASSUME FragmentDividesDay /\ FragmentIsWhole

\* A retention that is kept, and one that wraps.
ASSUME \E days \in Retentions : FitsDuration(days)
ASSUME \E days \in Retentions : ~FitsDuration(days)
=============================================================================
