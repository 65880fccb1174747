SPECIFICATION RetrySpec
CONSTANTS
    o1 = o1
    o2 = o2
    acme = acme
    None = None
    Operators <- TwoOperators
    Slugs <- OneSlug
    MaxFaults = 3
INVARIANTS
    TypeOK
    CredentialMatchesRole
    TrailIsConsistent
    ReadyAnswersAreTrue
PROPERTIES
    OnlyTheOwnerRotates
    ImplementsProvisionOnce
    EventuallyReady
