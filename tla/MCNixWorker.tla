---------------------------- MODULE MCNixWorker ----------------------------
(* Instances of NixWorker for TLC.                                         *)
EXTENDS NixWorker, TLC

CONSTANTS t1, t2

Symmetry == Permutations({t1, t2})
=============================================================================
