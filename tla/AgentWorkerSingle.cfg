SPECIFICATION Spec
CONSTANTS
    Commands = {1, 2}
    Undecodable = {}
    Processes = {p1}
    MaxAttempts = 2
    MaxStops = 2
    MaxErrors = 1
    MaxTime = 1
INVARIANTS TypeOK SuccessIsLast
PROPERTIES ImplementsCommandJob FirstAttemptsInOrder EventuallySettled
