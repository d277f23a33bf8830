SPECIFICATION DeliverySpec
CONSTANTS
    f1 = f1
    f2 = f2
    m1 = m1
    w1 = w1
    None = None
    Fingerprints <- MCTwo
    Minions <- MCOneMinion
    MinionOf <- MCSameMinion
    Severities <- MCWarning
    ResolveAfter = 1
    Generations = 2
    Workers <- MCOneWorker
    MaxPending = 2
    Changing <- MCTwo
    SaltChecks <- MCNone
    Faults = {"abort", "astray", "poll", "crash"}
    MaxFaults = 1
INVARIANT
    AlertsAreRemembered
PROPERTY
    CooldownIsRespected
