--------------------------- MODULE MCFrameWriter ----------------------------
(* Instances of FrameWriter for TLC.                                       *)
EXTENDS FrameWriter

\* The configuration of the runs: the fragment is of whole seconds and divides
\* the day, so that the last exception of IndexNamesTheFile does not apply.
ASSUME FragmentDividesDay /\ FragmentIsWhole
=============================================================================
