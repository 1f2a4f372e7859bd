SPECIFICATION Spec
CONSTANTS
    None = None
    Missing = Missing
    Master <- MCMaster
    u1 = u1
    u2 = u2
    c1 = c1
    c2 = c2
    Users = {u1, u2}
    Requests <- ClaimRequests
    Versions <- MCVersions
    Items <- MCItems
    Domestic = {"A"}
    Covered <- MCCovered
    Analysed <- MCAnalysed
    MaxCalls = 2
    MaxPrices = 2
SYMMETRY Symmetry
INVARIANT FormalPeriodOnce
CHECK_DEADLOCK FALSE
