---------------------------- MODULE MCTenantPools ----------------------------
(***************************************************************************)
(* Constants for model-checking TenantPools.                               *)
(***************************************************************************)
EXTENDS TenantPools, TLC

CONSTANTS c1, c2, o, t1, t2, none

TwoCallers == {c1, c2}
TwoTenants == {t1, t2}

\* The tracked one, and one that each caller and the operator holds.
EngineNumbers == 1..4

\* Callers and tenants are interchangeable.
PoolSymmetry == Permutations(TwoCallers) \cup Permutations(TwoTenants)

=============================================================================
