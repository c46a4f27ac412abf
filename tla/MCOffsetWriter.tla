--------------------------- MODULE MCOffsetWriter ---------------------------
(* Instances of OffsetWriter for TLC: two files of one camera.             *)
EXTENDS OffsetWriter

CONSTANTS file1, file2
=============================================================================
