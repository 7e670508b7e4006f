SPECIFICATION Safety
CONSTANTS
    Commands = {1, 2}
    Undecodable = {2}
    Processes = {p1, p2}
    MaxAttempts = 2
    MaxStops = 1
    MaxErrors = 1
    MaxTime = 0
INVARIANTS ExecutionsBounded ClaimsAreExclusive ReportedIsSaved FailedIsExhausted CompletedHasSuccess
