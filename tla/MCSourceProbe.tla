---------------------------- MODULE MCSourceProbe ----------------------------
(***************************************************************************)
(* Constants for model-checking SourceProbe.                               *)
(***************************************************************************)
EXTENDS SourceProbe

FourAddresses == 1..4
TwoSafe == {2, 4}

=============================================================================
