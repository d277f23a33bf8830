SPECIFICATION HistorySpec
CONSTANTS
    f1 = f1
    f2 = f2
    m1 = m1
    m2 = m2
    None = None
    Fingerprints <- MCFingerprints
    Minions <- MCMinions
    MinionOf <- MCMinionOf
    Severities <- MCSeverities
    ResolveAfter = 2
    Generations = 3
INVARIANTS
    ResolutionIsEarned
    UntoldIncidentsAreDue
    RowRemembersDelivery
