SPECIFICATION FairSpec
CONSTANTS
    j1 = j1
    j2 = j2
    m1 = m1
    m2 = m2
    m3 = m3
    None = None
    Jobs <- TwoJobs
    Messages <- ThreeMessages
    Threads = 2
    Cap = 1
    MaxRetries = 1
    MaxEditions = 3
    MaxFaults = 1
CHECK_DEADLOCK FALSE
INVARIANTS
    NothingForgotten
    CapRespected
    ResultAnswersRequest
    OneProber
PROPERTIES
    ResultIsFinal
    AnsweredOrDropped
