----------------------------- MODULE MCPipeline -----------------------------
(* Instances of Pipeline for TLC.                                          *)
EXTENDS Pipeline

CONSTANTS p1, p2, cam1

\* One camera, switched off and on again: every pipeline has the same topic.
SameCamera == [p \in Pipelines |-> cam1]
=============================================================================
