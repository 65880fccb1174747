---------------------------- MODULE MCAuditChain ----------------------------
(***************************************************************************)
(* Constants for model-checking AuditChain.                                *)
(***************************************************************************)
EXTENDS AuditChain, TLC

CONSTANTS w1, w2

TwoWriters == {w1, w2}

\* The writers are interchangeable.
WriterSymmetry == Permutations(TwoWriters)

=============================================================================
