SPECIFICATION DeliverySafety
CONSTANTS
    Commands = {1}
    Undecodable = {}
    Processes = {p1}
    MaxAttempts = 2
    MaxStops = 0
    MaxErrors = 0
    MaxTime = 0
    Conns = {n1, n2}
    NoConn = NoConn
    Predefined = {}
    Clearing = {}
    Large = {}
    Unstored = {}
    Supabase = FALSE
    SyncLimit = 4
    Cap = 2
    MaxBreaks = 2
    MaxRestarts = 0
SYMMETRY ConnSymmetry
CHECK_DEADLOCK FALSE
INVARIANTS SyncedIsReceived
