CONSTANTS
    r1 = r1
    r2 = r2
    Altered = Altered
    Absent = Absent
    Callers <- MCCallers
    Accounts <- MCAccounts
    Days <- MCDays
    Weekday <- TuesdayFirst
    Paths <- MCPaths
    Results <- TwoResults
    Contents <- TwoContents
    ExportRank <- MCExportRank
    StartTimes = 3
    LastDay = 1
    MaxFaults = 2
    MaxManual = 1
    MaxDamage = 0
SPECIFICATION FairSpec
PROPERTIES
    AuditSpec
    AttemptsEnd
    UndisturbedRunsComplete
