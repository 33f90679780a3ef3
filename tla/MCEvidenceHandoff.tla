------------------------- MODULE MCEvidenceHandoff -------------------------
(* Instances of EvidenceHandoff for TLC.                                   *)
EXTENDS EvidenceHandoff

CONSTANTS log, output
=============================================================================
