SPECIFICATION QuerySpec
CONSTANTS
    r1 = r1
    s1 = s1
    s2 = s2
    crm = crm
    erp = erp
    first = first
    grown = grown
    revised = revised
    broken = broken
    None = None
    Readers <- OneReader
    Seeders <- TwoSeeders
    Sources <- TwoSources
    Editions <- FourEditions
    Content <- Contents
    MaxVersion = 3
    MaxSeeds = 2
    MaxChanges = 4
SYMMETRY BothSymmetries
INVARIANTS
    AnswersAreWhole
    ReseedingSparesReaders
    HealthWasObserved
