SPECIFICATION Spec
CONSTANTS
    a = a
    f = f
    NoBar = NoBar
    NoRate = NoRate
    Symbols <- MCSymbols
    Foreign <- MCForeign
    Sector <- MCSector
    Days <- MCDays
    ActionSets <- MCActions
    LastSession = 3
    MaxIncidents = 1
    Base = 20
    Fee = 1
    NoCosts = NoCosts
    Costs <- MCCosts
    TierCosts <- MCTierCosts
    FixedCosts <- Wide
    TurnoverCosts = TRUE
    StopLoss = 4
    TakeProfit = 4
    InitialCash = 400
    LotSize = 5
    MaxPositions = 2
    MaxHold = 2
    PositionRate = 8
    SectorRate = 16
    RiskRate = 2
    OpenRiskRate = 2
    MaxDrawdown = 4
    LossThreshold = 2
    CooldownSessions = 1
INVARIANTS
    CashReconciles
    BlockedAreHeld
    NoMissedExit
    PaidWhenDue
    OpenRiskStaysNear
CHECK_DEADLOCK FALSE
