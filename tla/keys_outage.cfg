SPECIFICATION Spec
CONSTANTS
    r1 = r1
    r2 = r2
    k1 = k1
    k2 = k2
    ann = ann
    bob = bob
    carol = carol
    acme = acme
    zeta = zeta
    platform = platform
    admin = admin
    viewer = viewer
    composed = composed
    c1 = c1
    None = None
    Requests <- TwoRequests
    Kids <- TwoKids
    Initial <- OneKid
    Users <- ThreeUsers
    Enabled <- TwoUsers
    Tenants <- TwoTenants
    Roles <- Catalogue
    Shipped <- ThreeShipped
    PlatformAdmin <- platform
    Tokens <- SomeTokens
    Connections <- OneConnection
    Memberships <- SomeMemberships
    MaxChanges = 2
SYMMETRY RequestSymmetry
INVARIANT OutagesSpareCachedKeys
