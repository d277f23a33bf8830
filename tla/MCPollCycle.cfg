SPECIFICATION Spec
CONSTANTS
    web = web
    db = db
    None = None
    Maintainer = maintainer
    FailureThreshold = 1
    RecoveryTimeout = 1
    Minions <- MCMinions
    Order <- MCOrder
    Severities <- MCSeverities
    Constant <- Nobody
    Scenarios <- MCScenarios
    MaxFaults = 2
    Interval = 1
    RefreshInterval = 2
    Grace = 2
    ReadyAge = 2
    ResolveAfter = 2
    Generations = 1
INVARIANTS
    TypeOK
    ChainNeedsEdge
    ChainReplacesSymptom
PROPERTIES
    OnlyPolledMinionsChange
    InventoryCatchesUp
    PersistentSymptomIsOpen
    ReadyRecovers
