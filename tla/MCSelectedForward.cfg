CONSTANTS
    u1 = u1
    u2 = u2
    q1 = q1
    q2 = q2
    NoRequest = NoRequest
    Users <- MCUsers
    Requests <- MCRequests
    Versions <- MCVersions
    Closes <- MCCloses
    MaxVersion = 2
    LastDay = 2
    MaxCalls = 4
SYMMETRY Symmetry
SPECIFICATION Spec
INVARIANTS
    RowsFollowActivation
    SupersededTakesNoSignals
    HistoryIsCarried
