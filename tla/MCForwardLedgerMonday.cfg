CONSTANTS
    r1 = r1
    r2 = r2
    Altered = Altered
    Absent = Absent
    Callers <- MCCallers
    Accounts <- MCAccounts
    Days <- MCDays
    Weekday <- MondayFirst
    Paths <- MCPaths
    Results <- OneResult
    Contents <- OneContent
    ExportRank <- MCExportRank
    StartTimes = 3
    LastDay = 1
    MaxFaults = 0
    MaxManual = 0
    MaxDamage = 0
SPECIFICATION Spec
INVARIANTS
    BusinessDaysAreAttempted
