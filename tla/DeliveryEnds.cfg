SPECIFICATION DeliverySpec
CONSTANTS
    Commands = {1}
    Undecodable = {}
    Processes = {p1}
    MaxAttempts = 1
    MaxStops = 0
    MaxErrors = 0
    MaxTime = 0
    Conns = {n1, n2}
    NoConn = NoConn
    Predefined = {}
    Clearing = {}
    Large = {}
    Unstored = {1}
    Supabase = FALSE
    SyncLimit = 4
    Cap = 4
    MaxBreaks = 1
    MaxRestarts = 0
CHECK_DEADLOCK FALSE
PROPERTIES PendingIsFlushed OutcomeReachesRelay
