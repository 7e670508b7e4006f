SPECIFICATION DeliverySafety
CONSTANTS
    Commands = {1, 2}
    Undecodable = {}
    Processes = {p1}
    MaxAttempts = 1
    MaxStops = 0
    MaxErrors = 0
    MaxTime = 0
    Conns = {n1, n2}
    NoConn = NoConn
    Predefined = {2}
    Clearing = {2}
    Large = {2}
    Unstored = {}
    Supabase = FALSE
    SyncLimit = 4
    Cap = 2
    MaxBreaks = 0
    MaxRestarts = 0
SYMMETRY ConnSymmetry
CHECK_DEADLOCK FALSE
INVARIANTS PendingIsScheduled OutcomeIsReal EndsOnlyWhenHandled
PROPERTIES CancelledIsNotTaken
