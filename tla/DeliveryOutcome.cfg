SPECIFICATION DeliverySpec
CONSTANTS
    Commands = {1}
    Undecodable = {}
    Processes = {p1}
    MaxAttempts = 1
    MaxStops = 1
    MaxErrors = 0
    MaxTime = 0
    Conns = {n1, n2}
    NoConn = NoConn
    Predefined = {}
    Clearing = {}
    Large = {}
    Unstored = {}
    Supabase = FALSE
    SyncLimit = 4
    Cap = 2
    MaxBreaks = 0
    MaxRestarts = 0
CHECK_DEADLOCK FALSE
PROPERTIES OutcomeReachesRelay
