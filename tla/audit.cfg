SPECIFICATION Spec
CONSTANTS
    w1 = w1
    w2 = w2
    None = None
    Writers <- TwoWriters
    MaxEvents = 5
    MaxDamages = 1
CHECK_DEADLOCK FALSE
SYMMETRY WriterSymmetry
INVARIANTS
    HonestChainVerifies
    BrokenLinksAreReported
    LossIsReportedAtFirst
