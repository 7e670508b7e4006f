SPECIFICATION RoutingSafety
CONSTANTS
    Conns = {n1, n2}
    NoConn = NoConn
    u1 = u1
    Users = {u1, u2}
    NoUser = NoUser
    Invalid = {bad}
    Configured = {u1}
    k1 = k1
    k2 = k2
    Controllers = {k1, k2}
    AccountOf <- MCAccountOf
    list = list
    read1 = read1
    read2 = read2
    write = write
    create = create
    delete = delete
    kill = kill
    query = query
    Requests = {read1, read2, list, write}
    Oversized = {}
    Type <- MCType
    From <- MCFrom
    Cap = 2
    MaxBreaks = 1
    MaxSetups = 0
    MaxAsked = 2
    MaxChanges = 1
    StartKinds = {"file"}
SYMMETRY ConnSymmetry
CHECK_DEADLOCK FALSE
INVARIANTS RoutingTypeOK
PROPERTIES OnlyOldConnectionsRewind
