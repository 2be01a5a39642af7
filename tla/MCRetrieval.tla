---------------------------- MODULE MCRetrieval ----------------------------
(***************************************************************************)
(* Small instances of Retrieval.                                            *)
(***************************************************************************)
EXTENDS Retrieval, TLC

CONSTANTS public, internal

MCLookups == {<<public>>, <<public, internal>>, <<internal, public>>}

Symmetry == Permutations(Calls) \cup Permutations(Clients)
=============================================================================
