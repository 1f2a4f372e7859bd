CONSTANTS
    r1 = r1
    r2 = r2
    Altered = Altered
    Absent = Absent
    Callers <- MCCallers
    Accounts <- MCAccounts
    Days <- MCDays
    Weekday <- MondayFirst
    Paths <- MCPaths
    Results <- TwoResults
    Contents <- TwoContents
    ExportRank <- MCExportRank
    StartTimes = 1
    LastDay = 2
    MaxFaults = 1
    MaxManual = 1
    MaxDamage = 1
SPECIFICATION Spec
SYMMETRY ResultSymmetry
INVARIANTS
    PairAtomic
    ExportBackedByLedger
    SuccessMeansAudited
    QuietWhileHealthy
    ChainWellFormed
PROPERTIES
    DamagedHistoryStops
    LostHeadIsFinal
    MissedDaysStay
