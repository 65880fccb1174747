SPECIFICATION Spec
CONSTANTS
    c1 = c1
    c2 = c2
    o = o
    t1 = t1
    t2 = t2
    none = none
    Callers <- TwoCallers
    Operator <- o
    Tenants <- TwoTenants
    Engines <- EngineNumbers
    None <- none
    MaxTenants = 1
    MaxVersions = 2
    MaxDropped = 1
    MaxFaults = 1
SYMMETRY PoolSymmetry
INVARIANTS
    PoolsAreBounded
    NoEngineLeaks
    WarmPoolsAreCurrent
    DeprovisionedHaveNoPool
