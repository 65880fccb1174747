SPECIFICATION Spec
CONSTANTS
    c1 = c1
    c2 = c2
    Clients <- TwoClients
    MaxEditions = 4
    MaxFaults = 0
CHECK_DEADLOCK FALSE
SYMMETRY ClientSymmetry
PROPERTIES
    WritesAreOptimistic
