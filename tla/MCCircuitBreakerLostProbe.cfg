SPECIFICATION CircuitSpec
CONSTANTS
    c1 = c1
    c2 = c2
    c3 = c3
    Calls <- MCCalls
    Cancellable <- MCCalls
    FailureThreshold = 2
    RecoveryTimeout = 2
    ExternalReports = FALSE
PROPERTIES
    RecoveryAdmitsProbe
