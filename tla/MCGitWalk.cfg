SPECIFICATION Spec
CONSTANTS
    N = 3
    MaxDate = 2
    Zero = 0
    Oid <- MCOid
    Histories <- MCHistories
    Dates <- MCDates
    Stores <- MCStores
    TipSets <- MCTipSets
    Ceilings = {0, 1, 2}
INVARIANTS
    TypeOK
    CompleteUnlessTruncated
    CeilingHonest
    KeptOnce
    NewestKept
    MissingIsNamed
    ReachableExact
CHECK_DEADLOCK FALSE
