SPECIFICATION FairSpec
CONSTANTS
    w1 = w1
    w2 = w2
    Workers <- TwoWorkers
    Messages <- ThreeMessages
    Tenants <- TwoTenants
    Owner <- FirstHasTwo
    NeedsBroker <- SecondNeeds
    BatchSize = 2
    Limit = 1
    MaxFaults = 1
INVARIANTS
    BatchesAreDisjoint
PROPERTIES
    DuplicatesComeFromFailures
    ImplementsTransactionalOutbox
    EverythingIsRelayed
    MaintenanceIsDone
