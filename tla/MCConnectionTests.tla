-------------------------- MODULE MCConnectionTests --------------------------
(***************************************************************************)
(* Constants for model-checking ConnectionTests.                           *)
(***************************************************************************)
EXTENDS ConnectionTests

CONSTANTS j1, j2, m1, m2, m3

OneJob        == {j1}
TwoJobs       == {j1, j2}
TwoMessages   == {m1, m2}
ThreeMessages == {m1, m2, m3}

=============================================================================
