SPECIFICATION SaltSpec
CONSTANTS
    s1 = s1
    s2 = s2
    maintainer = maintainer
    Callers <- MCTwoCallers
    Maintainer = maintainer
    MaxSaltCalls = 1
    FailureThreshold = 1
    RecoveryTimeout = 1
    MaxFaults = 1
    MaxExpiries = 2
INVARIANTS
    MasterIsProtected
PROPERTIES
    OnlyDeadlinesLoseTheProbe
    ExpiryIsInvisible
    InspectionsEnd
    SessionIsRestored
