------------------------ MODULE AuthenticatedRequests ------------------------
(***************************************************************************)
(* A request from its token to its answer: the verifier's keys (SigningKeys) *)
(* and the tenant's sessions (TenantAccess), as the dependencies of          *)
(* api/deps.py compose them.                                                *)
(***************************************************************************)
EXTENDS TenantAccess

vars == <<keyVars, accessVars>>

TypeOK ==
    /\ KeysTypeOK /\ AccessTypeOK
    /\ \A r \in Requests : verify[r].pc # "idle" <=> request[r].pc = "verifying"

Init == KeysInit /\ AccessInit

\* get_tenant_context with a bearer token.
Arrive(r, token) == Present(r, token.kid) /\ Receive(r, token)

\* jwt.decode of a token whose key was found: its claims hold, or do not.
Decode(r) ==
    /\ verify[r].pc = "key" /\ Forget(r)
    /\ Authenticated(r) \/ Unauthenticated(r)

Refuse(r) == verify[r].pc = "rejected" /\ Forget(r) /\ Unauthenticated(r)

Step(r) ==
    \/ Resolve(r) /\ UNCHANGED accessVars
    \/ Decode(r) \/ Refuse(r)
    \/ Serve(r) /\ UNCHANGED keyVars

Next ==
    \/ \E r \in Requests :
        \/ \E token \in Tokens : Arrive(r, token)
        \/ Step(r)
        \/ Cancel(r)
    \/ Environment /\ UNCHANGED accessVars
    \/ Administer

Spec == Init /\ [][Next]_vars

=============================================================================
