------------------------ MODULE MCOperationReceipts ------------------------
(* Instances of OperationReceipts for TLC.                                 *)
EXTENDS OperationReceipts

CONSTANTS input, cancel, put, lab, nix
=============================================================================
