---------------------------- MODULE MCDataSources ----------------------------
(***************************************************************************)
(* Constants for model-checking DataSources.                               *)
(***************************************************************************)
EXTENDS DataSources, TLC

CONSTANTS c1, c2

TwoClients == {c1, c2}

\* The clients are interchangeable.
ClientSymmetry == Permutations(TwoClients)

=============================================================================
