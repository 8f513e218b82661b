CONSTANTS
    r1 = r1
    r2 = r2
    s1 = s1
    g1 = g1
    v1 = v1
    v2 = v2
    AA = AA
    Null = Null
    LastPeriod = 2
    Requests <- MCRequests
    Faulty <- MCFaulty
    Slots <- MCSlots
    Rows <- MCRows
    Scores <- MCScores
    Statuses <- MCStatuses
    Configs <- MCConfigs
    Results <- MCResults
SPECIFICATION Spec
SYMMETRY Symmetry
INVARIANTS
    TypeOK
    NoFutureResults
    ChangesAreTold
PROPERTIES
    ClosedIsFrozen
    PendingFromFailure
    WindowsAreKept
