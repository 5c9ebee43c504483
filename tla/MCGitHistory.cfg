SPECIFICATION HistSpec
CONSTANTS
    Zero = 0
    None = None
    Oid <- MCOid
    Histories <- MCHistories
    Dates <- MCDates
    Stores <- MCStores
    TipSets <- MCTipSets
    Ceilings = {0, 2}
    Worlds <- MCWorlds
    Settings <- MCSettings
INVARIANTS
    NoDanglingEdge
    EdgesAccounted
    SilenceMeansComplete
    RebasesApart
CHECK_DEADLOCK FALSE
