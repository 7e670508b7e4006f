SPECIFICATION Spec
CONSTANTS
    Conns = {n1, n2}
    NoConn = NoConn
    DegradedAfter <- Degraded20s
    TimeoutAfter <- Timeout45s
INVARIANT LivenessTypeOK
PROPERTIES OnlyStaleVerdictHides GoneIsOffline ConnectedIsOnline
