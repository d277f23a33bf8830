SPECIFICATION DeliverySpec
CONSTANTS
    f1 = f1
    f2 = f2
    m1 = m1
    w1 = w1
    None = None
    Fingerprints <- MCOne
    Minions <- MCOneMinion
    MinionOf <- MCSameMinion
    Severities <- MCSeverities
    ResolveAfter = 2
    Generations = 3
    Workers <- MCOneWorker
    MaxPending = 1
    Changing <- MCOne
    SaltChecks <- MCOne
    Faults = {"abort", "astray", "poll", "crash", "salt"}
    MaxFaults = 2
INVARIANTS
    TypeOK
    JobsAreOfOpenIncidents
    AlertsAreRemembered
PROPERTIES
    EmittedMeansDelivered
    PersistentAnomalyIsReported
    RecoveryIsResolved
