----------------------- MODULE MCAuthenticatedRequests -----------------------
(***************************************************************************)
(* Constants for model-checking AuthenticatedRequests.                     *)
(***************************************************************************)
EXTENDS AuthenticatedRequests, TLC

CONSTANTS r1, r2, k1, k2, ann, bob, carol, acme, zeta, platform, admin, viewer, composed, c1

TwoRequests == {r1, r2}
TwoKids == {k1, k2}
OneKid == {k1}
ThreeUsers == {ann, bob, carol}
TwoUsers == {ann, bob}
TwoTenants == {acme, zeta}
OneConnection == {c1}

Catalogue ==
    (platform :> {"platform.tenant.provision", "tenant.read", "membership.read"})
    @@ (admin :> {"tenant.read", "membership.read"}) @@ (viewer :> {"tenant.read"})
    @@ (composed :> {"membership.read"})

ThreeShipped == {platform, admin, viewer}

\* ann is platform staff in one tenant and a viewer in the other, bob is in one with a
\* composed role, carol is unknown.
SomeMemberships ==
    (<<ann, acme>> :> platform) @@ (<<ann, zeta>> :> viewer) @@ (<<bob, zeta>> :> composed)

SomeTokens ==
    {[kid |-> k1, user |-> ann, tenant |-> acme],
     [kid |-> k2, user |-> ann, tenant |-> None], [kid |-> k1, user |-> bob, tenant |-> None],
     [kid |-> k1, user |-> carol, tenant |-> acme]}

\* Requests are interchangeable.
RequestSymmetry == Permutations(TwoRequests)

=============================================================================
