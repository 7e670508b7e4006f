SPECIFICATION DeliverySafety
CONSTANTS
    Commands = {1}
    Undecodable = {}
    Processes = {p1}
    MaxAttempts = 2
    MaxStops = 1
    MaxErrors = 0
    MaxTime = 0
    Conns = {n1, n2}
    NoConn = NoConn
    Predefined = {}
    Clearing = {}
    Large = {}
    Unstored = {1}
    Supabase = FALSE
    SyncLimit = 1
    Cap = 2
    MaxBreaks = 0
    MaxRestarts = 1
SYMMETRY ConnSymmetry
CHECK_DEADLOCK FALSE
INVARIANTS DeliveryTypeOK AckedIsReceived OutcomeIsReal AuditIsReal
PROPERTIES RelayTerminalIsFinal
