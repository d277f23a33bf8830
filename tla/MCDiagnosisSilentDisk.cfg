SPECIFICATION Spec
CONSTANTS
    web = web
    job = job
    backup = backup
    root = root
    data = data
    db = db
    None = None
    Roles <- MCRoles
    Thresholds <- MCThresholds
    Ignored <- MCIgnored
    Units <- MCUnits
    Waits <- MCWaits
    Referencing <- MCReferencing
    Edges <- MCEdges
    Usual <- MCUsual
    Unusual <- MCUnusual
    Scenes <- MCScenes
    Texts <- MCTexts
    MaxEvidenceAge = 0
    MinSupport = 1
    LlmSeconds = 1
    MaxTrouble = 2
    FailureThreshold = 1
    RecoveryTimeout = 1
INVARIANT FailuresProveNothing
