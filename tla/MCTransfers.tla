---------------------------- MODULE MCTransfers ----------------------------
(* An instance of Transfers for TLC: the manifests.                        *)
EXTENDS Transfers
CONSTANTS a, b

Declared(objects, closure) == [objects |-> objects, closure |-> closure]

\* One object, two of them, and a cache that is not closed.
MCManifests == {Declared({a}, TRUE), Declared({a, b}, TRUE),
                Declared({a}, FALSE)}
=============================================================================
