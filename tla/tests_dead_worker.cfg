SPECIFICATION FairSpec
CONSTANTS
    j1 = j1
    j2 = j2
    m1 = m1
    m2 = m2
    m3 = m3
    None = None
    Jobs <- OneJob
    Messages <- TwoMessages
    Threads = 2
    Cap = 2
    MaxRetries = 3
    MaxEditions = 2
    MaxFaults = 1
CHECK_DEADLOCK FALSE
PROPERTIES
    DeadWorkersAreReplaced
