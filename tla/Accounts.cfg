SPECIFICATION RoutingSpec
CONSTANTS
    Conns = {n1, n2}
    NoConn = NoConn
    u1 = u1
    Users = {u1, u2}
    NoUser = NoUser
    Invalid = {bad}
    Configured = {u1, bad}
    k1 = k1
    k2 = k2
    Controllers = {k1}
    AccountOf <- MCAccountOf
    list = list
    read1 = read1
    read2 = read2
    write = write
    create = create
    delete = delete
    kill = kill
    query = query
    Requests = {read1, delete, create, kill, query}
    Oversized = {create}
    Type <- MCType
    From <- MCFrom
    Cap = 1
    MaxBreaks = 1
    MaxSetups = 1
    MaxAsked = 1
    MaxChanges = 0
    StartKinds = {"file", "large"}
CHECK_DEADLOCK FALSE
INVARIANTS AccountsAgree
PROPERTIES ImplementsRemoteOperation EndsConnected LiveRequestsAreAnswered
