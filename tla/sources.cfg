SPECIFICATION FairSpec
CONSTANTS
    c1 = c1
    c2 = c2
    Clients <- TwoClients
    MaxEditions = 4
    MaxFaults = 2
CHECK_DEADLOCK FALSE
INVARIANTS
    CredentialAvailable
    NoOrphans
PROPERTIES
    EventuallyDestroyed
    ImplementsSourceLife
