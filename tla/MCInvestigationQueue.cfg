SPECIFICATION QueueSpec
CONSTANTS
    f1 = f1
    f2 = f2
    f3 = f3
    f4 = f4
    w1 = w1
    w2 = w2
    p1 = p1
    None = None
    Fingerprints <- MCFingerprints
    Severities <- MCSeverities
    Payloads <- MCPayloads
    Workers <- MCWorkers
    MaxPending = 2
INVARIANTS
    OneInvestigationPerIncident
    WorkIsBounded
    NoLostWakeup
    ClosedMeansStopped
PROPERTIES
    NoOvertaking
    CloseCompletes
    CriticalWorkIsServed
    KeepsContract
