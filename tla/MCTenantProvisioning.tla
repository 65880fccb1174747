------------------------ MODULE MCTenantProvisioning ------------------------
(***************************************************************************)
(* Constants for model-checking TenantProvisioning.                        *)
(***************************************************************************)
EXTENDS TenantProvisioning

CONSTANTS o1, o2, acme

TwoOperators == {o1, o2}
OneSlug      == {acme}

=============================================================================
