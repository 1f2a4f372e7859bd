SPECIFICATION Spec
CONSTANTS
    r1 = r1
    r2 = r2
    Runs = {r1, r2}
    TrackOrder <- MCTrackOrder
    MinTrain <- MCMinTrain
    TestSessions = 2
    LastSession = 5
    MaxChanges = 2
    NoRun = NoRun
    NoFile = NoFile
SYMMETRY Processes
INVARIANTS
    EvaluatedIsRegistered
    OneRulePerWindow
    ForwardStaysUnseen
