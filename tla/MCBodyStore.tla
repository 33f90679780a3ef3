---------------------------- MODULE MCBodyStore ----------------------------
(* Instances of BodyStore for TLC.                                         *)
EXTENDS BodyStore, TLC

CONSTANTS w1, w2, w3, b1, b2

\* Two rows (stdin packets, repeated intents) have the same content.
SharedContent == (w1 :> b1) @@ (w2 :> b1) @@ (w3 :> b2)
=============================================================================
