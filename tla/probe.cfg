SPECIFICATION Spec
CONSTANTS
    Addresses <- FourAddresses
    Safe <- TwoSafe
    Garbage = Garbage
    Host = Host
    Unparsable = Unparsable
    None = None
    Raised = Raised
CHECK_DEADLOCK FALSE
INVARIANTS
    ResultsAreWellFormed
    DialsOnlyPermitted
    OneAddressDialled
    SecretNeedsCurrentPeer
    NothingLeftOpen
