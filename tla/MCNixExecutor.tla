--------------------------- MODULE MCNixExecutor ---------------------------
(* Instances of NixExecutor for TLC.                                       *)
EXTENDS NixExecutor

CONSTANTS t1, t2
=============================================================================
