SPECIFICATION Spec
CONSTANTS
    x = x
    y = y
    NoBar = NoBar
    NoTerms = NoTerms
    Symbols <- MCSymbols
    Modes <- MCModes
    Terms <- MCTerms
    Days <- MCDays
    Calendars <- MCCalendars
    FlowSets <- MCFlows
    MaxIncidents = 1
    Policy <- MCPolicy
    Selection <- MCSelection
    Base = 20
    Fee = 1
    HalfSpread = 1
    Slip = 0
    InitialCash = 120
    LotSize = 2
    MaxPositions = 2
    RiskRate = 3
    OpenRiskRate = 5
    NotionalRate = 10
    SectorRate = 15
    GroupRate = 15
    Leverage = 2
    WarningBuffer = 1
INVARIANTS
    Reconciles
    EntriesKeepLimits
    BreachForcesAll
PROPERTIES
    FinancingOncePerDay
    OpenedOnFacts
CHECK_DEADLOCK FALSE
