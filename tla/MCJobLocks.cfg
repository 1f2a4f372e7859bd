CONSTANTS
    standard1 = standard1
    standard2 = standard2
    selected = selected
    heavy = heavy
    NoJob = NoJob
    Jobs <- MCJobs
    Locks <- MCLocks
    Needs <- MCNeeds
SPECIFICATION Spec
INVARIANTS
    MutualExclusion
    OwnerFileNamesTheRunner
    RejectedByOneAhead
