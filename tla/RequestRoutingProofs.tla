------------------------ MODULE RequestRoutingProofs ------------------------
(***************************************************************************)
(* RequestRouting for every set of connections, controllers, accounts and  *)
(* requests, every capacity of the channels and every number of faults:    *)
(* its types, the accounts, and that it implements RemoteOperation.        *)
(***************************************************************************)
EXTENDS RequestRouting, SequenceTheorems, TLAPS

\* A handler that found the agent holds a connection of the device.
FoundIsConn == \A r \in Requests : pc[r] = "found" => target[r] \in Conns

\* A request is in the channels to the agent once: routeToAgent sends it once, and
\* what the agent reads or a closed connection drops is gone.
InFlightOnce ==
    \A n, m \in Conns : \A i \in 1 .. Len(down[n]), j \in 1 .. Len(down[m]) :
        down[n][i] \in Requests /\ down[n][i] = down[m][j] => n = m /\ i = j

\* A request on its way was sent and not handled yet.
InFlightIsFresh ==
    \A n \in Conns : \A i \in 1 .. Len(down[n]) :
        down[n][i] \in Requests => runs[down[n][i]] = 0 /\ pc[down[n][i]] \in {"sent", "left"}

\* What the agent has handled was granted and sent, and is handled once.
HandledWasSent ==
    \A r \in Requests : runs[r] <= 1 /\ (runs[r] > 0 => pc[r] \in {"sent", "left", "dropped"})

\* A response on its way, or one that was routed, is of a handled request.
ResponsesAreOfRuns ==
    /\ \A i \in 1 .. Len(asend) : runs[asend[i].req] > 0
    /\ \A n \in Conns : \A i \in 1 .. Len(up[n]) : runs[up[n][i].req] > 0
    /\ \A r \in reported : runs[r] > 0

\* AuditLogs has the audited requests whose responses were routed.
AuditIsOfReports == audit = reported \cap Audited

RouteInv ==
    /\ InFlightOnce /\ InFlightIsFresh /\ HandledWasSent /\ ResponsesAreOfRuns
    /\ AuditIsOfReports

-----------------------------------------------------------------------------
(* Types.                                                                  *)

\* Appending to, or dropping the first of, the messages of one connection.
LEMMA QueueTypes ==
    ASSUME NEW S, NEW q \in [Conns -> Seq(S)], NEW n \in Conns
    PROVE  /\ \A m \in S : [q EXCEPT ![n] = Append(@, m)] \in [Conns -> Seq(S)]
           /\ q[n] # << >> => [q EXCEPT ![n] = Tail(@)] \in [Conns -> Seq(S)]
           /\ [q EXCEPT ![n] = << >>] \in [Conns -> Seq(S)]
<1>1. \A m \in S : Append(q[n], m) \in Seq(S)
  BY AppendProperties
<1>2. q[n] # << >> => Tail(q[n]) \in Seq(S)
  BY HeadTailProperties
<1>3. << >> \in Seq(S)
  BY EmptySeq
<1> QED
  BY <1>1, <1>2, <1>3

\* The channels to the agent hold messages of the protocol, at most Cap each.
DownOK == down \in [Conns -> Seq(ToAgent)] /\ \A n \in Conns : Len(down[n]) <= Cap

\* Client.Send keeps them so.
LEMMA SentTypes ==
    ASSUME RegistryTypeOK, NEW n \in Conns, NEW m \in ToAgent, down' = Sent(n, m)
    PROVE  DownOK'
<1> USE DEF RegistryTypeOK, DownOK
<1>1. CASE link[n] /\ Len(down[n]) < Cap
  <2>1. down' = [down EXCEPT ![n] = Append(@, m)]
    BY <1>1 DEF Sent
  <2>2. down' \in [Conns -> Seq(ToAgent)]
    BY <2>1, QueueTypes
  <2>3. Len(Append(down[n], m)) = Len(down[n]) + 1 /\ Len(down[n]) \in Nat
    BY AppendProperties, LenProperties
  <2> QED
    BY <1>1, <2>1, <2>2, <2>3, RegistryBounds
<1>2. CASE ~ (link[n] /\ Len(down[n]) < Cap)
  BY <1>2 DEF Sent
<1> QED
  BY <1>1, <1>2

\* The agent reads a message.
LEMMA ReadTypes ==
    ASSUME RegistryTypeOK, NEW n \in Conns, down[n] # << >>,
           down' = [down EXCEPT ![n] = Tail(@)]
    PROVE  DownOK'
<1> USE DEF RegistryTypeOK, DownOK
<1>1. down' \in [Conns -> Seq(ToAgent)]
  BY QueueTypes
<1>2. Len(Tail(down[n])) = Len(down[n]) - 1 /\ Len(down[n]) \in Nat
  BY HeadTailProperties, LenProperties
<1> QED
  BY <1>1, <1>2, RegistryBounds

\* connectAndServe returns.
LEMMA ClosedTypes ==
    ASSUME RegistryTypeOK, Closed
    PROVE  /\ aconn' \in Conns \cup {NoConn} /\ serving' \in BOOLEAN
           /\ link' \in [Conns -> BOOLEAN] /\ DownOK'
<1> USE DEF RegistryTypeOK, DownOK, Closed
<1>1. << >> \in Seq(ToAgent) /\ Len(<< >>) = 0
  BY EmptySeq
<1>2. DownOK'
  BY <1>1, RegistryBounds
<1> QED
  BY <1>2

\* GetUserByToken, BindDeviceToUser and UpsertDevice write accounts.
LEMMA AccountTypes ==
    ASSUME RegistryTypeOK, NEW n \in Conns
    PROVE  Authenticated(n) \in Accounts /\ UpsertDevice(n) \in Accounts
BY DEF RegistryTypeOK, Authenticated, UpsertDevice, GetUserByToken, Accounts

\* The steps of a readPump of the relay keep the types.
LEMMA ReaderTypes ==
    ASSUME RegistryTypeOK, NEW n \in Conns,
           Register(n) \/ SendAuthAck(n) \/ Unregister(n)
    PROVE  RegistryTypeOK'
<1> USE DEF RegistryTypeOK, DownOK
<1> /\ "AUTH_ACK" \in ToAgent /\ "AUTH_FAIL" \in ToAgent
    /\ NoUser \in Tokens /\ NoUser \in Accounts
  BY DEF ToAgent, Tokens, Accounts
<1>1. CASE Register(n)
  <2>1. DownOK'
    BY <1>1, SentTypes DEF Register
  <2>2. link' \in [Conns -> BOOLEAN]
    BY <1>1 DEF Register
  <2>3. /\ cur' \in Conns \cup {NoConn} /\ owner' \in Accounts
        /\ reader' \in [Conns -> {"closed", "auth", "registered", "open"}]
        /\ connUser' \in [Conns -> Accounts] /\ auth' \in [Conns -> Tokens]
    BY <1>1, AccountTypes DEF Register
  <2> QED
    BY <1>1, <2>1, <2>2, <2>3 DEF Register, agentState, faults
<1>2. CASE SendAuthAck(n)
  <2>1. DownOK'
    BY <1>2, SentTypes DEF SendAuthAck
  <2> QED
    BY <1>2, <2>1 DEF SendAuthAck, agentState, faults
<1>3. CASE Unregister(n)
  <2>1. up' \in [Conns -> Seq(Responses)]
    BY <1>3, QueueTypes DEF Unregister
  <2>2. link' \in [Conns -> BOOLEAN]
    BY <1>3 DEF Unregister
  <2> QED
    BY <1>3, <2>1, <2>2 DEF Unregister, agentState, faults
<1> QED
  BY <1>1, <1>2, <1>3

\* The death of the relay process keeps the types.
LEMMA DeathTypes ==
    ASSUME RegistryTypeOK, RelayDies
    PROVE  RegistryTypeOK'
<1>1. << >> \in Seq(Responses)
  BY EmptySeq
<1>2. NoUser \in Tokens /\ NoUser \in Accounts
  BY DEF Tokens, Accounts
<1> QED
  BY <1>1, <1>2 DEF RegistryTypeOK, RelayDies, agentState, faults

\* The agent's netclient, the installer and the network keep the types.
LEMMA ClientTypes ==
    ASSUME RegistryTypeOK,
           \/ \E n \in Conns : Dial(n) \/ Break(n)
           \/ ReadAuthAck \/ Disconnect \/ WritePump
           \/ \E t \in Tokens : Setup(t)
    PROVE  RegistryTypeOK'
<1> USE DEF RegistryTypeOK, DownOK
<1>1. ASSUME NEW n \in Conns, Dial(n) PROVE RegistryTypeOK'
  <2>1. DownOK'
    <3>1. << >> \in Seq(ToAgent) /\ Len(<< >>) = 0
      BY EmptySeq
    <3> QED
      BY <1>1, <3>1, RegistryBounds DEF Dial
  <2>2. link' \in [Conns -> BOOLEAN]
    BY <1>1 DEF Dial
  <2> QED
    BY <1>1, <2>1, <2>2 DEF Dial, faults
<1>2. ASSUME NEW n \in Conns, Break(n) PROVE RegistryTypeOK'
  <2>1. link' \in [Conns -> BOOLEAN]
    BY <1>2 DEF Break
  <2> QED
    BY <1>2, <2>1 DEF Break, hubState, agentState
<1>3. CASE ReadAuthAck
  <2>1. DownOK'
    BY <1>3, ReadTypes, ClosedTypes DEF ReadAuthAck
  <2>2. /\ aconn' \in Conns \cup {NoConn} /\ serving' \in BOOLEAN
        /\ link' \in [Conns -> BOOLEAN]
    BY <1>3, ClosedTypes DEF ReadAuthAck
  <2> QED
    BY <1>3, <2>1, <2>2 DEF ReadAuthAck, hubState, faults
<1>4. CASE Disconnect
  <2>1. asend' \in Seq(Responses) /\ Len(asend') <= Cap
    <3>1. asend # << >> => /\ Tail(asend) \in Seq(Responses) /\ Len(Tail(asend)) = Len(asend) - 1
                           /\ Len(asend) \in Nat
      BY HeadTailProperties, LenProperties
    <3>2. asend' = asend \/ (asend # << >> /\ asend' = Tail(asend))
      BY <1>4 DEF Disconnect
    <3>3. CASE asend' = asend
      BY <3>3
    <3>4. CASE asend # << >> /\ asend' = Tail(asend)
      BY <3>1, <3>4, RegistryBounds
    <3> QED
      BY <3>2, <3>3, <3>4
  <2> QED
    BY <1>4, <2>1, ClosedTypes DEF Disconnect, hubState, faults
<1>5. CASE WritePump
  <2>1. /\ Head(asend) \in Responses /\ Tail(asend) \in Seq(Responses)
        /\ Len(Tail(asend)) = Len(asend) - 1 /\ Len(asend) \in Nat
    BY <1>5, HeadTailProperties, LenProperties DEF WritePump
  <2>2. up' \in [Conns -> Seq(Responses)]
    BY <1>5, <2>1, QueueTypes DEF WritePump
  <2>3. asend' \in Seq(Responses) /\ Len(asend') <= Cap
    BY <1>5, <2>1, RegistryBounds DEF WritePump
  <2> QED
    BY <1>5, <2>2, <2>3 DEF WritePump, hubState, faults
<1>6. ASSUME NEW t \in Tokens, Setup(t) PROVE RegistryTypeOK'
  <2>1. asend' \in Seq(Responses) /\ Len(asend') <= Cap
    BY <1>6, EmptySeq, RegistryBounds DEF Setup
  <2>2. /\ aconn' \in Conns \cup {NoConn} /\ serving' \in BOOLEAN
        /\ link' \in [Conns -> BOOLEAN] /\ DownOK'
    BY <1>6, ClosedTypes DEF Setup
  <2>3. token' = t /\ setups' \in Nat /\ UNCHANGED <<cur, owner, ctrls, reader, connUser, auth, up, breaks>>
    BY <1>6 DEF Setup, hubState
  <2> QED
    BY <2>1, <2>2, <2>3
<1> QED
  BY <1>1, <1>2, <1>3, <1>4, <1>5, <1>6

\* A controller that connects or leaves keeps the types.
LEMMA SessionTypes ==
    ASSUME RegistryTypeOK, NEW k \in Controllers, Join(k) \/ Leave(k)
    PROVE  RegistryTypeOK'
BY DEF RegistryTypeOK, Join, Leave, wires, agentState, faults

\* What is at the path, and what a response says of it, has its type.
LEMMA DiskTypes ==
    ASSUME RoutingTypeOK, NEW r \in Requests
    PROVE  Performed(r) \in [kind : Kinds, ver : Nat] /\ Response(r) \in Responses
<1>1. disk.kind \in Kinds /\ disk.ver \in Nat /\ disk.ver + 1 \in Nat
  BY DEF RoutingTypeOK
<1>2. Performed(r) \in [kind : Kinds, ver : Nat]
  BY <1>1 DEF RoutingTypeOK, Performed, WriteFile, DeleteFile, Kinds
<1>3. Body(r) \in {"none", "some", "large"}
  BY DEF Body, ListDirectory, ReadFile
<1> QED
  BY <1>1, <1>2, <1>3 DEF Response, Responses

\* The steps of routeToAgent keep the types.
LEMMA RouteTypes ==
    ASSUME RoutingTypeOK, FoundIsConn, NEW r \in Requests,
           Check(r) \/ Lookup(r) \/ AnswerOffline(r) \/ Forward(r)
    PROVE  RoutingTypeOK' /\ FoundIsConn'
<1> USE DEF Handling, FoundIsConn
<1>1. CASE Check(r)
  <2>1. RegistryTypeOK'
    BY <1>1 DEF Check, regVars, hubState, wires, agentState, faults, RegistryTypeOK, RoutingTypeOK
  <2> QED
    BY <1>1, <2>1 DEF Check, RoutingTypeOK
<1>2. CASE Lookup(r)
  <2>1. RegistryTypeOK'
    BY <1>2 DEF Lookup, regVars, hubState, wires, agentState, faults, RegistryTypeOK, RoutingTypeOK
  <2>2. cur \in Conns \cup {NoConn}
    BY DEF RoutingTypeOK, RegistryTypeOK
  <2> QED
    BY <1>2, <2>1, <2>2 DEF Lookup, RoutingTypeOK
<1>3. CASE AnswerOffline(r)
  <2>1. RegistryTypeOK'
    BY <1>3 DEF AnswerOffline, regVars, hubState, wires, agentState, faults, RegistryTypeOK,
                RoutingTypeOK
  <2> QED
    BY <1>3, <2>1 DEF AnswerOffline, RoutingTypeOK
<1>4. CASE Forward(r)
  <2>1. RegistryTypeOK
    BY DEF RoutingTypeOK
  <2>2. RegistryTypeOK'
    <3>1. CASE RelayDies
      BY <2>1, <3>1, DeathTypes
    <3>2. CASE ~ RelayDies
      <4>1. target[r] \in Conns /\ down' = Sent(target[r], r)
        BY <1>4, <3>2 DEF Forward
      <4>2. r \in ToAgent
        BY DEF ToAgent
      <4>3. DownOK'
        BY <2>1, <4>1, <4>2, SentTypes
      <4> QED
        BY <1>4, <2>1, <3>2, <4>3 DEF Forward, hubState, agentState, faults, RegistryTypeOK, DownOK
    <3> QED
      BY <3>1, <3>2
  <2>3. pc' \in [Requests -> {"new", "denied", "cached", "offline", "sent", "dropped", "left", "lost"}
                           \cup Handling]
    BY <1>4 DEF Forward, RoutingTypeOK
  <2> QED
    BY <1>4, <2>2, <2>3 DEF Forward, RoutingTypeOK
<1> QED
  BY <1>1, <1>2, <1>3, <1>4

\* The agent's handling of a request keeps the types.
LEMMA HandleTypes ==
    ASSUME RoutingTypeOK, FoundIsConn, HandleRequest
    PROVE  RoutingTypeOK' /\ FoundIsConn'
<1>1. RegistryTypeOK
  BY DEF RoutingTypeOK
<1> DEFINE r == Head(down[aconn])
<1>2. r \in Requests /\ aconn \in Conns /\ down[aconn] # << >>
  BY <1>1 DEF HandleRequest, RegistryTypeOK
<1>3. DownOK'
  BY <1>1, <1>2, ReadTypes DEF HandleRequest
<1>4. asend' \in Seq(Responses) /\ Len(asend') <= Cap
  <2>1. Response(r) \in Responses /\ asend \in Seq(Responses) /\ Len(asend) \in Nat
    BY <1>1, <1>2, DiskTypes, LenProperties DEF RegistryTypeOK
  <2>2. /\ Append(asend, Response(r)) \in Seq(Responses)
        /\ Len(Append(asend, Response(r))) = Len(asend) + 1
    BY <2>1, AppendProperties
  <2>3. asend' = Answers(r) /\ Len(asend) <= Cap
    BY <1>1 DEF HandleRequest, RegistryTypeOK
  <2> QED
    BY <2>1, <2>2, <2>3, RegistryBounds DEF Answers
<1>5. RegistryTypeOK'
  BY <1>1, <1>3, <1>4 DEF HandleRequest, RegistryTypeOK, DownOK, hubState, faults
<1>6. /\ disk' \in [kind : Kinds, ver : Nat]
      /\ runs' \in [Requests -> Nat]
  BY <1>2, DiskTypes DEF HandleRequest, RoutingTypeOK
<1>7. pc' \in [Requests -> {"new", "denied", "cached", "offline", "sent", "dropped", "left", "lost"}
                           \cup Handling]
  BY <1>2 DEF HandleRequest, RoutingTypeOK, Handling
<1>8. FoundIsConn'
  BY <1>2 DEF HandleRequest, RoutingTypeOK, FoundIsConn
<1> QED
  BY <1>5, <1>6, <1>7, <1>8 DEF HandleRequest, RoutingTypeOK

\* The routing of a response keeps the types.
LEMMA ReportTypes ==
    ASSUME RoutingTypeOK, FoundIsConn, NEW n \in Conns, RouteToControllers(n)
    PROVE  RoutingTypeOK' /\ FoundIsConn'
<1>1. RegistryTypeOK
  BY DEF RoutingTypeOK
<1> DEFINE m == Head(up[n])
<1>2. m \in Responses
  BY <1>1, HeadTailProperties DEF RouteToControllers, RegistryTypeOK
<1>3. m.req \in Requests /\ m.ver \in Nat
  BY <1>2 DEF Responses
<1>4. cache' \in [kind : {"none", "dir", "file"}, files : Nat, content : Nat]
  BY <1>3 DEF RouteToControllers, RoutingTypeOK, Cached, CacheDirectoryListing, CacheFileContent
<1>5. up' \in [Conns -> Seq(Responses)]
  BY <1>1, QueueTypes DEF RouteToControllers, RegistryTypeOK
<1>6. RegistryTypeOK'
  BY <1>1, <1>5 DEF RouteToControllers, RegistryTypeOK, hubState, agentState, faults
<1>7. audit' \subseteq Requests /\ reported' \subseteq Requests /\ answered' \subseteq Requests
  BY <1>3 DEF RouteToControllers, RoutingTypeOK
<1> QED
  BY <1>4, <1>6, <1>7 DEF RouteToControllers, RoutingTypeOK, FoundIsConn

\* Every step of the system keeps the types.
LEMMA TypesKept ==
    ASSUME RoutingTypeOK, FoundIsConn, [RoutingNext]_vars
    PROVE  RoutingTypeOK' /\ FoundIsConn'
<1>1. RegistryTypeOK
  BY DEF RoutingTypeOK
<1>2. ASSUME RegistryTypeOK', UNCHANGED routeVars PROVE RoutingTypeOK' /\ FoundIsConn'
  BY <1>2 DEF RoutingTypeOK, FoundIsConn, routeVars
<1>3. ASSUME NEW n \in Conns, RelayStep(n) PROVE RoutingTypeOK' /\ FoundIsConn'
  BY <1>1, <1>2, <1>3, ReaderTypes DEF RelayStep
<1>4. ASSUME NEW k \in Controllers, Join(k), UNCHANGED routeVars
      PROVE  RoutingTypeOK' /\ FoundIsConn'
  BY <1>1, <1>2, <1>4, SessionTypes
<1>5. CASE (ReadAuthAck \/ Disconnect \/ WritePump) /\ UNCHANGED routeVars
  BY <1>1, <1>2, <1>5, ClientTypes
<1>6. CASE Environment
  BY <1>1, <1>2, <1>6, ClientTypes DEF Environment
<1>7. CASE AgentDials
  <2>1. RegistryTypeOK'
    BY <1>1, <1>7, ClientTypes DEF AgentDials
  <2>2. PICK n \in Conns :
          /\ \A r \in Requests : pc[r] = "found" => target[r] # n
          /\ target' = [r \in Requests |-> IF target[r] = n THEN NoConn ELSE target[r]]
    BY <1>7 DEF AgentDials
  <2>3. target' \in [Requests -> Conns \cup {NoConn}] /\ FoundIsConn'
    BY <1>7, <2>2 DEF AgentDials, RoutingTypeOK, FoundIsConn
  <2> QED
    BY <1>7, <2>1, <2>3 DEF AgentDials, RoutingTypeOK
<1>8. ASSUME NEW k \in Controllers, SessionEnds(k) PROVE RoutingTypeOK' /\ FoundIsConn'
  <2>1. RegistryTypeOK'
    BY <1>1, <1>8, SessionTypes DEF SessionEnds
  <2> QED
    BY <1>8, <2>1 DEF SessionEnds, RoutingTypeOK, FoundIsConn
<1>9. CASE LocalChange
  <2>1. RegistryTypeOK'
    BY <1>1, <1>9 DEF LocalChange, regVars, hubState, wires, agentState, faults, RegistryTypeOK
  <2>2. disk' \in [kind : Kinds, ver : Nat]
    BY <1>9 DEF LocalChange, RoutingTypeOK
  <2> QED
    BY <1>9, <2>1, <2>2 DEF LocalChange, RoutingTypeOK, FoundIsConn
<1>10. CASE UNCHANGED vars
  <2>1. RegistryTypeOK'
    BY <1>1, <1>10 DEF vars, regVars, hubState, wires, agentState, faults, RegistryTypeOK
  <2> QED
    BY <1>2, <1>10, <2>1 DEF vars
<1> QED
  BY <1>3, <1>4, <1>5, <1>6, <1>7, <1>8, <1>9, <1>10, RouteTypes, HandleTypes, ReportTypes
     DEF RoutingNext

\* What holds at first.
LEMMA InitTypes ==
    ASSUME RoutingInit
    PROVE  RoutingTypeOK /\ FoundIsConn
<1>1. << >> \in Seq(ToAgent) /\ << >> \in Seq(Responses) /\ Len(<< >>) = 0
  BY EmptySeq
<1>2. Configured \subseteq Tokens /\ NoUser \in Tokens /\ NoUser \in Accounts
  BY RegistryAssumption DEF Tokens, Accounts
<1>3. RegistryTypeOK
  <2> USE DEF RoutingInit, RegistryInit
  <2>1. /\ down \in [Conns -> Seq(ToAgent)] /\ up \in [Conns -> Seq(Responses)]
        /\ asend \in Seq(Responses)
        /\ Len(asend) <= Cap /\ \A n \in Conns : Len(down[n]) <= Cap
    BY <1>1, RegistryBounds
  <2>2. link \in [Conns -> BOOLEAN] /\ serving \in BOOLEAN
    OBVIOUS
  <2> QED
    BY <1>2, <2>1, <2>2 DEF RegistryTypeOK
<1>4. disk \in [kind : Kinds, ver : Nat]
  BY RoutingAssumption DEF RoutingInit
<1>5. cache \in [kind : {"none", "dir", "file"}, files : Nat, content : Nat]
  BY DEF RoutingInit, NoRow
<1> QED
  BY <1>3, <1>4, <1>5 DEF RoutingInit, RoutingTypeOK, FoundIsConn

\* Whatever the agent, the controllers and the network do, the registry, the
\* channels and the table hold values of their types: in particular no send channel
\* of the relay or of the agent ever holds more than its capacity.
THEOREM RoutingTypes == RoutingSafety => []RoutingTypeOK
<1>1. RoutingInit => RoutingTypeOK /\ FoundIsConn
  BY InitTypes
<1>2. (RoutingTypeOK /\ FoundIsConn) /\ [RoutingNext]_vars => (RoutingTypeOK /\ FoundIsConn)'
  BY TypesKept
<1> QED
  BY <1>1, <1>2, PTL DEF RoutingSafety

-----------------------------------------------------------------------------
(* The accounts.                                                           *)

\* Only handleAuth changes the account of a device or the one of its connection,
\* and it writes both.
LEMMA AgreementKept ==
    ASSUME RoutingTypeOK, FoundIsConn, AccountsAgree, [RoutingNext]_vars
    PROVE  AccountsAgree'
<1> USE DEF AccountsAgree, RoutingTypeOK, RegistryTypeOK
<1>1. ASSUME NEW n \in Conns, RelayStep(n) PROVE AccountsAgree'
  <2>1. CASE Register(n)
    <3>1. CASE auth[n] \in Invalid
      BY <2>1, <3>1 DEF Register
    <3>2. CASE auth[n] \notin Invalid
      <4>1. cur' = n /\ connUser'[n] = Authenticated(n) /\ owner' = UpsertDevice(n)
        BY <2>1, <3>2 DEF Register
      <4>2. UpsertDevice(n) = Authenticated(n)
        BY DEF UpsertDevice, Authenticated
      <4> QED
        BY <4>1, <4>2
    <3> QED
      BY <3>1, <3>2
  <2>2. CASE SendAuthAck(n)
    BY <2>2 DEF SendAuthAck
  <2>3. CASE Unregister(n)
    BY <2>3 DEF Unregister
  <2> QED
    BY <1>1, <2>1, <2>2, <2>3 DEF RelayStep
<1>2. ASSUME NEW r \in Requests, Forward(r) PROVE AccountsAgree'
  BY <1>2 DEF Forward, RelayDies, hubState
<1>3. ASSUME UNCHANGED <<cur, owner, connUser>> PROVE AccountsAgree'
  BY <1>3
<1>4. ASSUME NEW n \in Conns, RouteToControllers(n) PROVE AccountsAgree'
  BY <1>3, <1>4 DEF RouteToControllers, hubState
<1>5. ASSUME NEW r \in Requests, Check(r) \/ Lookup(r) \/ AnswerOffline(r) PROVE AccountsAgree'
  BY <1>3, <1>5 DEF Check, Lookup, AnswerOffline, regVars, hubState
<1>6. CASE AgentDials
  BY <1>3, <1>6 DEF AgentDials, Dial
<1>7. CASE ReadAuthAck \/ Disconnect \/ WritePump \/ HandleRequest
  BY <1>3, <1>7 DEF ReadAuthAck, Disconnect, WritePump, HandleRequest, hubState
<1>8. ASSUME NEW k \in Controllers, Join(k) \/ SessionEnds(k) PROVE AccountsAgree'
  BY <1>3, <1>8 DEF Join, SessionEnds, Leave
<1>9. CASE Environment \/ LocalChange \/ UNCHANGED vars
  BY <1>3, <1>9 DEF Environment, Setup, Break, LocalChange, vars, regVars, hubState
<1> QED
  BY <1>1, <1>2, <1>4, <1>5, <1>6, <1>7, <1>8, <1>9 DEF RoutingNext

\* The account of a device's connection (Client.userID) and the one of its row
\* (Devices.UserId) are the same, for any number of connections, tokens and
\* readPumps that register or unregister late.
THEOREM AccountsAlwaysAgree == RoutingSafety => []AccountsAgree
<1>1. RoutingInit => RoutingTypeOK /\ FoundIsConn
  BY InitTypes
<1>2. RoutingInit => AccountsAgree
  BY DEF RoutingInit, RegistryInit, AccountsAgree
<1>3. (RoutingTypeOK /\ FoundIsConn /\ AccountsAgree) /\ [RoutingNext]_vars
        => (RoutingTypeOK /\ FoundIsConn /\ AccountsAgree)'
  BY TypesKept, AgreementKept
<1> QED
  BY <1>1, <1>2, <1>3, PTL DEF RoutingSafety

-----------------------------------------------------------------------------
(* Requests and responses in flight.                                       *)

\* The requests in the channel of n after a step were there before it, k places
\* further.
Carries(n, k) ==
    \A i \in 1 .. Len(down'[n]) :
        down'[n][i] \in Requests => i + k \in 1 .. Len(down[n]) /\ down'[n][i] = down[n][i + k]

\* No step but that of a Forward brings a request into a channel.
NothingNew == \A n \in Conns : \E k \in Nat : Carries(n, k)

\* A channel that is left alone, emptied, read from, or sent a message of handleAuth.
LEMMA CarriesCases ==
    ASSUME RoutingTypeOK, NEW n \in Conns,
           \/ down'[n] = down[n]
           \/ down'[n] = << >>
           \/ down[n] # << >> /\ down'[n] = Tail(down[n])
           \/ \E m \in ToAgent \ Requests : down'[n] = Append(down[n], m)
    PROVE  \E k \in Nat : Carries(n, k)
<1>1. down[n] \in Seq(ToAgent) /\ Len(down[n]) \in Nat
  BY LenProperties DEF RoutingTypeOK, RegistryTypeOK
<1>2. CASE down'[n] = down[n]
  BY <1>1, <1>2 DEF Carries
<1>3. CASE down'[n] = << >>
  BY <1>3, EmptySeq DEF Carries
<1>4. CASE down[n] # << >> /\ down'[n] = Tail(down[n])
  <2>1. /\ Len(down'[n]) = Len(down[n]) - 1
        /\ \A i \in 1 .. Len(down'[n]) : down'[n][i] = down[n][i + 1]
    BY <1>1, <1>4, HeadTailProperties
  <2>2. Carries(n, 1)
    BY <1>1, <2>1 DEF Carries
  <2> QED
    BY <2>2
<1>5. CASE \E m \in ToAgent \ Requests : down'[n] = Append(down[n], m)
  <2>1. PICK m \in ToAgent \ Requests : down'[n] = Append(down[n], m)
    BY <1>5
  <2>2. /\ Len(down'[n]) = Len(down[n]) + 1
        /\ \A i \in 1 .. Len(down[n]) : down'[n][i] = down[n][i]
        /\ down'[n][Len(down[n]) + 1] = m
    BY <1>1, <2>1, AppendProperties
  <2>3. Carries(n, 0)
    BY <1>1, <2>2 DEF Carries
  <2> QED
    BY <2>3
<1> QED
  BY <1>2, <1>3, <1>4, <1>5

\* Such a step keeps every request in one place, and those in flight were so before.
LEMMA NothingNewKeeps ==
    ASSUME RoutingTypeOK, RoutingTypeOK', InFlightOnce, InFlightIsFresh, NothingNew
    PROVE  /\ InFlightOnce'
           /\ \A n \in Conns : \A i \in 1 .. Len(down'[n]) :
                 down'[n][i] \in Requests => /\ runs[down'[n][i]] = 0
                                             /\ pc[down'[n][i]] \in {"sent", "left"}
<1>1. \A n \in Conns : Len(down[n]) \in Nat /\ Len(down'[n]) \in Nat
  BY LenProperties DEF RoutingTypeOK, RegistryTypeOK
<1>2. InFlightOnce'
  <2> SUFFICES ASSUME NEW n \in Conns, NEW m \in Conns,
                      NEW i \in 1 .. Len(down'[n]), NEW j \in 1 .. Len(down'[m]),
                      down'[n][i] \in Requests, down'[n][i] = down'[m][j]
               PROVE  n = m /\ i = j
    BY DEF InFlightOnce
  <2>1. PICK k \in Nat : Carries(n, k)
    BY DEF NothingNew
  <2>2. PICK l \in Nat : Carries(m, l) /\ (n = m => l = k)
    BY <2>1 DEF NothingNew
  <2>3. /\ i + k \in 1 .. Len(down[n]) /\ down'[n][i] = down[n][i + k]
        /\ j + l \in 1 .. Len(down[m]) /\ down'[m][j] = down[m][j + l]
    BY <2>1, <2>2 DEF Carries
  <2>4. ASSUME NEW a \in 1 .. Len(down[n]), NEW b \in 1 .. Len(down[m]),
               down[n][a] \in Requests, down[n][a] = down[m][b]
        PROVE  n = m /\ a = b
    BY <2>4 DEF InFlightOnce
  <2>5. n = m /\ i + k = j + l
    <3>1. down[n][i + k] \in Requests /\ down[n][i + k] = down[m][j + l]
      BY <2>3
    <3> QED
      BY <2>3, <2>4, <3>1
  <2>6. i \in Int /\ j \in Int
    OBVIOUS
  <2> QED
    BY <2>2, <2>5, <2>6
<1> QED
  BY <1>2 DEF NothingNew, Carries, InFlightIsFresh

\* Every step but Forward brings no request into a channel.
LEMMA OnlyForwardSends ==
    ASSUME RoutingTypeOK, FoundIsConn, [RoutingNext]_vars,
           \A r \in Requests : ~ Forward(r)
    PROVE  NothingNew
<1> DEFINE Case(n) == \/ down'[n] = down[n]
                      \/ down'[n] = << >>
                      \/ down[n] # << >> /\ down'[n] = Tail(down[n])
                      \/ \E m \in ToAgent \ Requests : down'[n] = Append(down[n], m)
<1> SUFFICES \A n \in Conns : Case(n)
  BY CarriesCases DEF NothingNew
<1> USE DEF RoutingTypeOK, RegistryTypeOK
<1>1. "AUTH_ACK" \in ToAgent \ Requests /\ "AUTH_FAIL" \in ToAgent \ Requests
  BY RegistryAssumption DEF ToAgent
<1>2. ASSUME down' = down PROVE \A n \in Conns : Case(n)
  BY <1>2
<1>3. ASSUME NEW n \in Conns, NEW m \in ToAgent \ Requests, down' = Sent(n, m)
      PROVE  \A o \in Conns : Case(o)
  BY <1>3 DEF Sent
<1>4. ASSUME NEW n \in Conns, RelayStep(n) PROVE \A o \in Conns : Case(o)
  BY <1>1, <1>2, <1>3, <1>4 DEF RelayStep, Register, SendAuthAck, Unregister
<1>5. ASSUME Closed PROVE \A n \in Conns : Case(n)
  BY <1>5 DEF Closed
<1>6. ASSUME aconn \in Conns, down[aconn] # << >>, down' = [down EXCEPT ![aconn] = Tail(@)]
      PROVE  \A n \in Conns : Case(n)
  BY <1>6
<1>7. CASE AgentDials
  BY <1>7 DEF AgentDials, Dial
<1>8. CASE ReadAuthAck \/ Disconnect \/ WritePump \/ HandleRequest
  BY <1>2, <1>5, <1>6, <1>8 DEF ReadAuthAck, Disconnect, WritePump, HandleRequest
<1>9. CASE Environment
  BY <1>2, <1>5, <1>9 DEF Environment, Setup, Break
<1>10. ASSUME \/ \E n \in Conns : RouteToControllers(n)
              \/ \E r \in Requests : Check(r) \/ Lookup(r) \/ AnswerOffline(r)
              \/ LocalChange
              \/ \E k \in Controllers : Join(k) \/ SessionEnds(k)
              \/ UNCHANGED vars
       PROVE  \A n \in Conns : Case(n)
  <2>1. down' = down
    BY <1>10 DEF RouteToControllers, Check, Lookup, AnswerOffline, LocalChange, Join,
                 SessionEnds, Leave, vars, regVars, wires
  <2> QED
    BY <1>2, <2>1
<1> QED
  BY <1>4, <1>7, <1>8, <1>9, <1>10 DEF RoutingNext

\* A response that the agent or a connection holds.
OnItsWay(m) ==
    \/ \E i \in 1 .. Len(asend) : m = asend[i]
    \/ \E n \in Conns : \E i \in 1 .. Len(up[n]) : m = up[n][i]

\* Only the agent's handlers make responses: every other step moves or loses them.
LEMMA OnlyHandlersAnswer ==
    ASSUME RoutingTypeOK, [RoutingNext]_vars, ~ HandleRequest
    PROVE  /\ \A i \in 1 .. Len(asend') : OnItsWay(asend'[i])
           /\ \A n \in Conns : \A i \in 1 .. Len(up'[n]) : OnItsWay(up'[n][i])
<1> DEFINE Moved == /\ \A i \in 1 .. Len(asend') : OnItsWay(asend'[i])
                    /\ \A n \in Conns : \A i \in 1 .. Len(up'[n]) : OnItsWay(up'[n][i])
<1>1. /\ asend \in Seq(Responses) /\ Len(asend) \in Nat
      /\ \A n \in Conns : up[n] \in Seq(Responses) /\ Len(up[n]) \in Nat
      /\ aconn \in Conns \cup {NoConn} /\ up \in [Conns -> Seq(Responses)]
  BY LenProperties DEF RoutingTypeOK, RegistryTypeOK
<1>2. ASSUME \A i \in 1 .. Len(asend') : OnItsWay(asend'[i]), UNCHANGED up PROVE Moved
  BY <1>2 DEF OnItsWay
<1>3. ASSUME UNCHANGED <<asend, up>> PROVE Moved
  BY <1>3 DEF OnItsWay
<1>4. ASSUME asend # << >>, asend' = Tail(asend)
      PROVE  \A i \in 1 .. Len(asend') : OnItsWay(asend'[i])
  BY <1>1, <1>4, HeadTailProperties DEF OnItsWay
<1>5. ASSUME asend' = << >> PROVE \A i \in 1 .. Len(asend') : OnItsWay(asend'[i])
  BY <1>5, EmptySeq
<1>6. CASE WritePump
  <2>1. \A i \in 1 .. Len(asend') : OnItsWay(asend'[i])
    BY <1>4, <1>6 DEF WritePump
  <2>2. Len(asend) # 0 /\ Head(asend) = asend[1] /\ Head(asend) \in Responses
    BY <1>1, <1>6, EmptySeq, HeadTailProperties DEF WritePump
  <2>3. ASSUME NEW n \in Conns, NEW i \in 1 .. Len(up'[n]) PROVE OnItsWay(up'[n][i])
    <3>1. CASE up'[n] = up[n]
      BY <3>1 DEF OnItsWay
    <3>2. CASE up'[n] # up[n]
      <4>1. up'[n] = Append(up[n], Head(asend))
        BY <1>1, <1>6, <3>2 DEF WritePump
      <4>2. /\ Len(up'[n]) = Len(up[n]) + 1
            /\ \A j \in 1 .. Len(up[n]) : up'[n][j] = up[n][j]
            /\ up'[n][Len(up[n]) + 1] = asend[1]
        BY <1>1, <2>2, <4>1, AppendProperties
      <4> QED
        BY <1>1, <2>2, <4>2 DEF OnItsWay
    <3> QED
      BY <3>1, <3>2
  <2> QED
    BY <2>1, <2>3
<1>7. CASE Disconnect
  BY <1>2, <1>3, <1>4, <1>7 DEF Disconnect
<1>8. CASE Environment
  BY <1>2, <1>3, <1>5, <1>8 DEF Environment, Setup, Break, agentState
<1>9. ASSUME UNCHANGED asend, \A n \in Conns : up'[n] = up[n] \/ up'[n] = << >> PROVE Moved
  BY <1>9, EmptySeq DEF OnItsWay
<1>10. ASSUME NEW n \in Conns, RelayStep(n) PROVE Moved
  BY <1>1, <1>3, <1>9, <1>10 DEF RelayStep, Register, SendAuthAck, Unregister, agentState
<1>11. ASSUME NEW r \in Requests, Forward(r) PROVE Moved
  BY <1>1, <1>3, <1>9, <1>11 DEF Forward, RelayDies, agentState
<1>12. ASSUME NEW n \in Conns, RouteToControllers(n) PROVE Moved
  <2>1. \A i \in 1 .. Len(asend') : OnItsWay(asend'[i])
    BY <1>12 DEF RouteToControllers, agentState, OnItsWay
  <2>2. ASSUME NEW o \in Conns, NEW i \in 1 .. Len(up'[o]) PROVE OnItsWay(up'[o][i])
    <3>1. CASE o # n
      BY <1>1, <1>12, <2>2, <3>1 DEF RouteToControllers, OnItsWay
    <3>2. CASE o = n
      <4>1. up[n] # << >> /\ up'[n] = Tail(up[n])
        BY <1>1, <1>12 DEF RouteToControllers
      <4>2. /\ Len(up'[n]) = Len(up[n]) - 1
            /\ \A j \in 1 .. Len(up'[n]) : up'[n][j] = up[n][j + 1]
        BY <1>1, <4>1, HeadTailProperties
      <4>3. i + 1 \in 1 .. Len(up[n]) /\ up'[o][i] = up[n][i + 1]
        BY <1>1, <2>2, <3>2, <4>2
      <4> QED
        BY <4>3 DEF OnItsWay
    <3> QED
      BY <3>1, <3>2
  <2> QED
    BY <2>1, <2>2
<1>13. ASSUME \/ \E r \in Requests : Check(r) \/ Lookup(r) \/ AnswerOffline(r)
              \/ AgentDials \/ ReadAuthAck \/ LocalChange
              \/ \E k \in Controllers : Join(k) \/ SessionEnds(k)
              \/ UNCHANGED vars
       PROVE  Moved
  <2>1. UNCHANGED <<asend, up>>
    BY <1>13 DEF Check, Lookup, AnswerOffline, AgentDials, Dial, ReadAuthAck, LocalChange, Join,
                 SessionEnds, Leave, vars, regVars, wires, agentState
  <2> QED
    BY <1>3, <2>1
<1> QED
  BY <1>6, <1>7, <1>8, <1>10, <1>11, <1>12, <1>13 DEF RoutingNext

\* The responses that every step but HandleRequest leaves are of handled requests.
LEMMA ResponsesKept ==
    ASSUME RoutingTypeOK, ResponsesAreOfRuns, [RoutingNext]_vars, ~ HandleRequest,
           UNCHANGED <<runs, reported>>
    PROVE  ResponsesAreOfRuns'
<1>1. \A m : OnItsWay(m) => runs[m.req] > 0
  BY DEF OnItsWay, ResponsesAreOfRuns
<1> QED
  BY <1>1, OnlyHandlersAnswer DEF ResponsesAreOfRuns

\* A step that sends, handles and reports nothing keeps the invariant.
LEMMA QuietKeeps ==
    ASSUME RoutingTypeOK, RoutingTypeOK', FoundIsConn, RouteInv, [RoutingNext]_vars,
           \A r \in Requests : ~ Forward(r),
           ~ HandleRequest,
           UNCHANGED <<runs, reported, audit>>,
           \A r \in Requests : \/ pc'[r] = pc[r]
                               \/ pc[r] = "sent" /\ pc'[r] = "left"
                               \/ pc[r] \in {"new"} \cup Handling
    PROVE  RouteInv'
<1>1. ResponsesAreOfRuns' /\ AuditIsOfReports'
  BY ResponsesKept DEF RouteInv, AuditIsOfReports
<1>2. HandledWasSent'
  BY DEF RouteInv, HandledWasSent, Handling, RoutingTypeOK
<1>3. InFlightOnce' /\ InFlightIsFresh'
  BY OnlyForwardSends, NothingNewKeeps DEF RouteInv, InFlightIsFresh, Handling
<1> QED
  BY <1>1, <1>2, <1>3 DEF RouteInv

\* routeToAgent sends a request that is nowhere yet.
LEMMA ForwardKeeps ==
    ASSUME RoutingTypeOK, RoutingTypeOK', FoundIsConn, RouteInv, [RoutingNext]_vars,
           NEW r \in Requests, Forward(r), ~ HandleRequest
    PROVE  RouteInv'
<1>1. \A n \in Conns : Len(down[n]) \in Nat /\ down[n] \in Seq(ToAgent)
  BY LenProperties DEF RoutingTypeOK, RegistryTypeOK
<1>2. ResponsesAreOfRuns' /\ AuditIsOfReports'
  BY ResponsesKept DEF RouteInv, AuditIsOfReports, Forward
<1>3. pc[r] = "found" /\ runs[r] = 0 /\ runs' = runs
  BY DEF Forward, RouteInv, HandledWasSent, RoutingTypeOK
<1>4. CASE down' = down
  <2>1. \A q \in Requests : pc[q] \in {"sent", "left", "dropped"} => pc'[q] = pc[q]
    BY <1>3 DEF Forward, Handling, RoutingTypeOK
  <2>2. InFlightOnce' /\ InFlightIsFresh'
    BY <1>3, <1>4, <2>1 DEF RouteInv, InFlightOnce, InFlightIsFresh
  <2>3. HandledWasSent'
    BY <1>3, <2>1 DEF RouteInv, HandledWasSent
  <2> QED
    BY <1>2, <2>2, <2>3 DEF RouteInv
<1>5. CASE down' # down
  <2> DEFINE n == target[r]
  <2>1. n \in Conns /\ down' = Sent(n, r) /\ pc' = [pc EXCEPT ![r] = "sent"]
    BY <1>3, <1>5 DEF Forward, RelayDies, FoundIsConn
  <2>2. down' = [down EXCEPT ![n] = Append(@, r)] /\ down \in [Conns -> Seq(ToAgent)]
    BY <1>5, <2>1 DEF Sent, RoutingTypeOK, RegistryTypeOK
  <2>3. /\ Len(down'[n]) = Len(down[n]) + 1
        /\ \A i \in 1 .. Len(down[n]) : down'[n][i] = down[n][i]
        /\ down'[n][Len(down[n]) + 1] = r
    <3>1. r \in ToAgent /\ down'[n] = Append(down[n], r)
      BY <2>1, <2>2 DEF ToAgent
    <3> HIDE DEF n
    <3> QED
      BY <1>1, <2>1, <3>1, AppendProperties
  <2>4. \A m \in Conns \ {n} : down'[m] = down[m]
    BY <2>2
  <2>5. \A m \in Conns : \A i \in 1 .. Len(down[m]) : down[m][i] # r
    BY <1>3 DEF RouteInv, InFlightIsFresh
  <2>6. ASSUME NEW m \in Conns, NEW i \in 1 .. Len(down'[m]), down'[m][i] \in Requests
        PROVE  \/ down'[m][i] = r /\ m = n /\ i = Len(down[n]) + 1
               \/ i \in 1 .. Len(down[m]) /\ down'[m][i] = down[m][i] /\ down[m][i] # r
    <3> HIDE DEF n
    <3> QED
      BY <1>1, <2>1, <2>3, <2>4, <2>5, <2>6
  <2> HIDE DEF n
  <2>7. InFlightOnce'
    BY <2>6 DEF RouteInv, InFlightOnce
  <2>8. InFlightIsFresh'
    <3> SUFFICES ASSUME NEW m \in Conns, NEW i \in 1 .. Len(down'[m]), down'[m][i] \in Requests
                 PROVE  runs'[down'[m][i]] = 0 /\ pc'[down'[m][i]] \in {"sent", "left"}
      BY DEF InFlightIsFresh
    <3>1. CASE down'[m][i] = r
      BY <1>3, <2>1, <3>1 DEF RoutingTypeOK
    <3>2. CASE down'[m][i] # r
      <4>1. i \in 1 .. Len(down[m]) /\ down'[m][i] = down[m][i]
        BY <2>6, <3>2
      <4>2. runs[down[m][i]] = 0 /\ pc[down[m][i]] \in {"sent", "left"}
        BY <4>1 DEF RouteInv, InFlightIsFresh
      <4> QED
        BY <1>3, <2>1, <3>2, <4>1, <4>2 DEF RoutingTypeOK
    <3> QED
      BY <3>1, <3>2
  <2>9. HandledWasSent'
    BY <1>3, <2>1 DEF RouteInv, HandledWasSent, RoutingTypeOK
  <2> QED
    BY <1>2, <2>7, <2>8, <2>9 DEF RouteInv
<1> QED
  BY <1>4, <1>5

\* The agent handles a request that it has not handled before.
LEMMA HandleKeeps ==
    ASSUME RoutingTypeOK, RoutingTypeOK', FoundIsConn, RouteInv, [RoutingNext]_vars,
           HandleRequest
    PROVE  /\ RouteInv'
           /\ LET r == Head(down[aconn]) IN
                r \in Requests /\ runs[r] = 0 /\ pc[r] \in {"sent", "left"}
<1> DEFINE r == Head(down[aconn])
<1>1. /\ aconn \in Conns /\ down[aconn] \in Seq(ToAgent) /\ down[aconn] # << >>
      /\ down[aconn][1] = r /\ Len(down[aconn]) \in Nat \ {0} /\ r \in Requests
  BY EmptySeq, HeadTailProperties DEF HandleRequest, RoutingTypeOK, RegistryTypeOK
<1>2. runs[r] = 0 /\ pc[r] \in {"sent", "left"}
  BY <1>1 DEF RouteInv, InFlightIsFresh
<1>3. /\ runs' = [runs EXCEPT ![r] = 1]
      /\ pc' = [pc EXCEPT ![r] = IF Len(asend) < Cap THEN @ ELSE "dropped"]
  BY <1>1, <1>2 DEF HandleRequest, RoutingTypeOK
<1>4. /\ down' = [down EXCEPT ![aconn] = Tail(@)]
      /\ Len(Tail(down[aconn])) = Len(down[aconn]) - 1
      /\ \A i \in 1 .. Len(Tail(down[aconn])) : Tail(down[aconn])[i] = down[aconn][i + 1]
  BY <1>1, HeadTailProperties DEF HandleRequest
<1>5. ASSUME NEW n \in Conns, NEW i \in 1 .. Len(down'[n]), down'[n][i] \in Requests
      PROVE  /\ \E j \in 1 .. Len(down[n]) : down'[n][i] = down[n][j] /\ (n = aconn => j # 1)
             /\ down'[n][i] # r
  <2>1. PICK j \in 1 .. Len(down[n]) : down'[n][i] = down[n][j] /\ (n = aconn => j # 1)
    <3>1. CASE n = aconn
      <4>1. i \in 1 .. Len(Tail(down[aconn])) /\ down'[n][i] = Tail(down[aconn])[i]
        BY <1>4, <1>5, <3>1 DEF RoutingTypeOK, RegistryTypeOK
      <4>2. i + 1 \in 1 .. Len(down[n]) /\ down'[n][i] = down[n][i + 1] /\ i + 1 # 1
        BY <1>1, <1>4, <3>1, <4>1
      <4> QED
        BY <4>2
    <3>2. CASE n # aconn
      BY <1>4, <1>5, <3>2 DEF RoutingTypeOK, RegistryTypeOK
    <3> QED
      BY <3>1, <3>2
  <2>2. down[n][j] = down[aconn][1] => n = aconn /\ j = 1
    BY <1>1, <1>5, <2>1 DEF RouteInv, InFlightOnce
  <2> QED
    BY <1>1, <2>1, <2>2
<1> HIDE DEF r
<1>6. InFlightOnce'
  <2>1. \A q \in Requests : ~ Forward(q)
    BY <1>1, <1>2, <1>3 DEF Forward, RoutingTypeOK
  <2> QED
    BY <2>1, OnlyForwardSends, NothingNewKeeps DEF RouteInv
<1>7. InFlightIsFresh'
  <2> SUFFICES ASSUME NEW n \in Conns, NEW i \in 1 .. Len(down'[n]), down'[n][i] \in Requests
               PROVE  runs'[down'[n][i]] = 0 /\ pc'[down'[n][i]] \in {"sent", "left"}
    BY DEF InFlightIsFresh
  <2>1. runs[down'[n][i]] = 0 /\ pc[down'[n][i]] \in {"sent", "left"}
    BY <1>5 DEF RouteInv, InFlightIsFresh
  <2> QED
    BY <1>1, <1>3, <1>5, <2>1 DEF RoutingTypeOK
<1>8. HandledWasSent'
  BY <1>1, <1>2, <1>3 DEF RouteInv, HandledWasSent, RoutingTypeOK
<1>9. ResponsesAreOfRuns' /\ AuditIsOfReports'
  <2>1. \A q \in Requests : runs[q] > 0 => runs'[q] > 0
    BY <1>1, <1>3 DEF RoutingTypeOK
  <2>2. /\ asend \in Seq(Responses) /\ Len(asend) \in Nat
        /\ \A i \in 1 .. Len(asend) : asend[i].req \in Requests
        /\ \A n \in Conns : \A i \in 1 .. Len(up[n]) : up[n][i].req \in Requests
    <3>1. asend \in Seq(Responses) /\ \A n \in Conns : up[n] \in Seq(Responses)
      BY DEF RoutingTypeOK, RegistryTypeOK
    <3>2. \A m \in Responses : m.req \in Requests
      BY DEF Responses
    <3> QED
      BY <3>1, <3>2, ElementOfSeq, LenProperties
  <2>3. \A i \in 1 .. Len(asend') : runs'[asend'[i].req] > 0
    <3>1. asend' = asend \/ asend' = Append(asend, Response(r))
      BY DEF HandleRequest, Answers, r
    <3>2. CASE asend' = asend
      BY <2>1, <2>2, <3>2 DEF RouteInv, ResponsesAreOfRuns
    <3>3. CASE asend' = Append(asend, Response(r))
      <4>1. Response(r) \in Responses /\ Response(r).req = r
        BY <1>1, DiskTypes DEF Response
      <4>2. /\ Len(asend') = Len(asend) + 1
            /\ \A i \in 1 .. Len(asend) : asend'[i] = asend[i]
            /\ asend'[Len(asend) + 1].req = r
        BY <2>2, <3>3, <4>1, AppendProperties
      <4>3. runs'[r] > 0
        BY <1>1, <1>3 DEF RoutingTypeOK
      <4>4. \A i \in 1 .. Len(asend) : runs'[asend[i].req] > 0
        BY <2>1, <2>2 DEF RouteInv, ResponsesAreOfRuns
      <4> QED
        BY <2>2, <4>2, <4>3, <4>4
    <3> QED
      BY <3>1, <3>2, <3>3
  <2>4. up' = up /\ reported' = reported /\ audit' = audit
    BY DEF HandleRequest
  <2> QED
    BY <2>1, <2>2, <2>3, <2>4 DEF RouteInv, ResponsesAreOfRuns, AuditIsOfReports, RoutingTypeOK
<1> QED
  BY <1>1, <1>2, <1>6, <1>7, <1>8, <1>9 DEF RouteInv, r

\* routeToControllers handles a response of a handled request.
LEMMA ReportKeeps ==
    ASSUME RoutingTypeOK, RoutingTypeOK', FoundIsConn, RouteInv, [RoutingNext]_vars,
           NEW n \in Conns, RouteToControllers(n)
    PROVE  /\ RouteInv'
           /\ Head(up[n]).req \in Requests /\ runs[Head(up[n]).req] > 0
<1> DEFINE m == Head(up[n])
<1>1. /\ up[n] \in Seq(Responses) /\ up[n] # << >> /\ m = up[n][1] /\ m \in Responses
      /\ Len(up[n]) \in Nat \ {0}
  BY EmptySeq, HeadTailProperties DEF RouteToControllers, RoutingTypeOK, RegistryTypeOK
<1>2. m.req \in Requests /\ runs[m.req] > 0
  BY <1>1 DEF Responses, RouteInv, ResponsesAreOfRuns
<1>3. UNCHANGED <<pc, runs, down>> /\ reported' = reported \cup {m.req}
      /\ audit' = audit \cup ({m.req} \cap Audited)
  BY DEF RouteToControllers
<1>4. InFlightOnce' /\ InFlightIsFresh' /\ HandledWasSent'
  BY <1>3 DEF RouteInv, InFlightOnce, InFlightIsFresh, HandledWasSent
<1>5. ResponsesAreOfRuns'
  <2>1. ~ HandleRequest
    <3>1. down[aconn] # << >> /\ aconn \in Conns => Tail(down[aconn]) # down[aconn]
      BY EmptySeq, HeadTailProperties DEF RoutingTypeOK, RegistryTypeOK
    <3> QED
      BY <1>3, <3>1 DEF HandleRequest, RoutingTypeOK, RegistryTypeOK
  <2>2. \A x : OnItsWay(x) => runs[x.req] > 0
    BY DEF OnItsWay, RouteInv, ResponsesAreOfRuns
  <2>3. \A r \in reported' : runs'[r] > 0
    BY <1>2, <1>3 DEF RouteInv, ResponsesAreOfRuns
  <2> QED
    BY <1>3, <2>1, <2>2, <2>3, OnlyHandlersAnswer DEF ResponsesAreOfRuns
<1>6. AuditIsOfReports'
  BY <1>3 DEF RouteInv, AuditIsOfReports
<1> QED
  BY <1>2, <1>4, <1>5, <1>6 DEF RouteInv

\* Every step keeps the invariant.
LEMMA RouteInvKept ==
    ASSUME RoutingTypeOK, RoutingTypeOK', FoundIsConn, RouteInv, [RoutingNext]_vars
    PROVE  RouteInv'
<1>1. CASE \E r \in Requests : Forward(r)
  BY <1>1, ForwardKeeps, HandleKeeps
<1>2. CASE HandleRequest
  BY <1>2, HandleKeeps
<1>3. CASE \E n \in Conns : RouteToControllers(n)
  BY <1>3, ReportKeeps
<1>4. CASE /\ \A r \in Requests : ~ Forward(r)
           /\ ~ HandleRequest
           /\ \A n \in Conns : ~ RouteToControllers(n)
  <2>1. \/ UNCHANGED routeVars
        \/ \E r \in Requests : Check(r) \/ Lookup(r) \/ AnswerOffline(r)
        \/ AgentDials \/ LocalChange
        \/ \E k \in Controllers : SessionEnds(k)
    BY <1>4 DEF RoutingNext, RelayStep, Environment, vars
  <2>2. UNCHANGED <<runs, reported, audit>>
    BY <2>1 DEF routeVars, Check, Lookup, AnswerOffline, AgentDials, LocalChange, SessionEnds
  <2>3. \A r \in Requests : \/ pc'[r] = pc[r]
                            \/ pc[r] = "sent" /\ pc'[r] = "left"
                            \/ pc[r] \in {"new"} \cup Handling
    BY <2>1 DEF routeVars, Check, Lookup, AnswerOffline, AgentDials, LocalChange, SessionEnds,
                RoutingTypeOK, Handling
  <2> QED
    BY <1>4, <2>2, <2>3, QuietKeeps
<1> QED
  BY <1>1, <1>2, <1>3, <1>4

-----------------------------------------------------------------------------
(* The refinement of RemoteOperation.                                      *)

op == [r \in Requests |-> Operation(r)]

\* A step that leaves every request where it is.
LEMMA Stutter ==
    ASSUME \A r \in Requests : Operation(r)' = Operation(r), UNCHANGED <<runs, audit, owner>>
    PROVE  UNCHANGED Promise!opVars
BY DEF Promise!opVars

\* The steps of routeToAgent grant a request or refuse it.
LEMMA RouteRefines ==
    ASSUME RoutingTypeOK, RouteInv, NEW r \in Requests,
           Check(r) \/ Lookup(r) \/ AnswerOffline(r) \/ Forward(r)
    PROVE  [Promise!OperationNext]_(Promise!opVars)
<1>1. \A q \in Requests : pc[q] \notin {"sent", "left", "dropped"} => runs[q] = 0 /\ q \notin reported
  BY DEF RoutingTypeOK, RouteInv, HandledWasSent, ResponsesAreOfRuns
<1>2. UNCHANGED <<runs, audit, reported>>
  BY DEF Check, Lookup, AnswerOffline, Forward
<1>3. CASE Check(r)
  <2>1. /\ pc[r] = "new" /\ owner' = owner
        /\ pc' = [pc EXCEPT ![r] = IF Owned(r) THEN "granted" ELSE "denied"]
    BY <1>3 DEF Check, regVars, hubState
  <2>2. Operation(r) = "idle" /\ Operation(r)' = IF Owned(r) THEN "granted" ELSE "refused"
    BY <1>1, <1>2, <2>1 DEF Operation, RoutingTypeOK
  <2>3. \A q \in Requests \ {r} : Operation(q)' = Operation(q)
    BY <1>2, <2>1 DEF Operation, RoutingTypeOK
  <2>4. op[r] = "idle" /\ op' = [op EXCEPT ![r] = IF Owned(r) THEN "granted" ELSE "refused"]
    BY <2>2, <2>3 DEF op
  <2>5. Owned(r) <=> Promise!MayAsk(r)
    BY DEF Owned, Promise!MayAsk
  <2>6. Promise!Grant(r) \/ Promise!Refuse(r)
    BY <1>2, <2>1, <2>4, <2>5 DEF Promise!Grant, Promise!Refuse, op
  <2> QED
    BY <2>6 DEF Promise!OperationNext
<1>4. CASE AnswerOffline(r)
  <2>1. /\ pc[r] = "away" /\ owner' = owner
        /\ pc' = [pc EXCEPT ![r] = IF InCache(r) THEN "cached" ELSE "offline"]
    BY <1>4 DEF AnswerOffline, regVars, hubState
  <2>2. Operation(r) = "granted" /\ Operation(r)' = "refused"
    BY <1>1, <1>2, <2>1 DEF Operation, RoutingTypeOK
  <2>3. \A q \in Requests \ {r} : Operation(q)' = Operation(q)
    BY <1>2, <2>1 DEF Operation, RoutingTypeOK
  <2>4. op[r] = "granted" /\ op' = [op EXCEPT ![r] = "refused"]
    BY <2>2, <2>3 DEF op
  <2>5. Promise!Refuse(r)
    BY <1>2, <2>1, <2>4 DEF Promise!Refuse, op
  <2> QED
    BY <2>5 DEF Promise!OperationNext
<1>5. CASE Lookup(r) \/ Forward(r)
  <2>1. owner' = owner
    BY <1>5 DEF Lookup, Forward, RelayDies, regVars, hubState
  <2>2. \A q \in Requests : \/ pc'[q] = pc[q]
                            \/ pc[q] \in Handling /\ pc'[q] \in {"found", "away", "sent", "dropped", "lost"}
    BY <1>5 DEF Lookup, Forward, RoutingTypeOK, Handling
  <2>3. \A q \in Requests : Operation(q)' = Operation(q)
    BY <1>1, <1>2, <2>2 DEF Operation, Handling
  <2> QED
    BY <1>2, <2>1, <2>3, Stutter
<1> QED
  BY <1>3, <1>4, <1>5

\* The agent performs a request that was granted and not performed.
LEMMA HandleRefines ==
    ASSUME RoutingTypeOK, RoutingTypeOK', FoundIsConn, RouteInv, [RoutingNext]_vars,
           HandleRequest
    PROVE  [Promise!OperationNext]_(Promise!opVars)
<1>1. PICK r \in Requests : /\ r = Head(down[aconn])
                            /\ runs[r] = 0 /\ pc[r] \in {"sent", "left"} /\ r \notin reported
  BY HandleKeeps DEF RouteInv, ResponsesAreOfRuns
<1>2. /\ runs' = [runs EXCEPT ![r] = @ + 1] /\ UNCHANGED <<reported, audit, owner>>
      /\ pc' = [pc EXCEPT ![r] = IF Len(asend) < Cap THEN @ ELSE "dropped"]
  BY <1>1 DEF HandleRequest, hubState
<1>3. Operation(r) = "granted" /\ Operation(r)' = "performed"
  BY <1>1, <1>2 DEF Operation, RoutingTypeOK
<1>4. \A q \in Requests \ {r} : Operation(q)' = Operation(q)
  BY <1>1, <1>2 DEF Operation, RoutingTypeOK
<1>5. op[r] = "granted" /\ op' = [op EXCEPT ![r] = "performed"]
  BY <1>1, <1>3, <1>4 DEF op
<1>6. Promise!Perform(r)
  BY <1>2, <1>5 DEF Promise!Perform, op
<1> QED
  BY <1>1, <1>6 DEF Promise!OperationNext

\* The first response of a request reports it; another one changes nothing.
LEMMA ReportRefines ==
    ASSUME RoutingTypeOK, RoutingTypeOK', FoundIsConn, RouteInv, [RoutingNext]_vars,
           NEW n \in Conns, RouteToControllers(n)
    PROVE  [Promise!OperationNext]_(Promise!opVars)
<1>1. PICK r \in Requests : r = Head(up[n]).req /\ runs[r] > 0
  BY ReportKeeps
<1>2. pc[r] \in {"sent", "left", "dropped"}
  BY <1>1 DEF RouteInv, HandledWasSent
<1>3. /\ UNCHANGED <<pc, runs, owner>> /\ reported' = reported \cup {r}
      /\ audit' = audit \cup ({r} \cap Audited)
  BY <1>1 DEF RouteToControllers, hubState
<1>4. \A q \in Requests \ {r} : Operation(q)' = Operation(q)
  BY <1>3 DEF Operation
<1>5. CASE r \in reported
  <2>1. Operation(r)' = Operation(r)
    BY <1>3, <1>5 DEF Operation
  <2>2. audit' = audit
    BY <1>3, <1>5 DEF RouteInv, AuditIsOfReports
  <2> QED
    BY <1>3, <1>4, <2>1, <2>2, Stutter
<1>6. CASE r \notin reported
  <2>1. Operation(r) = "performed" /\ Operation(r)' = "reported"
    BY <1>1, <1>2, <1>3, <1>6 DEF Operation
  <2>2. op[r] = "performed" /\ op' = [op EXCEPT ![r] = "reported"]
    BY <1>1, <1>4, <2>1 DEF op
  <2>3. Promise!Report(r)
    BY <1>3, <2>2 DEF Promise!Report, op
  <2> QED
    BY <1>1, <2>3 DEF Promise!OperationNext
<1> QED
  BY <1>5, <1>6

\* handleAuth keeps the account of the device or binds it to that of the token.
LEMMA RelayRefines ==
    ASSUME RoutingTypeOK, NEW n \in Conns, RelayStep(n)
    PROVE  [Promise!OperationNext]_(Promise!opVars)
<1>1. UNCHANGED <<pc, runs, reported, audit>>
  BY DEF RelayStep, routeVars
<1>2. \A r \in Requests : Operation(r)' = Operation(r)
  BY <1>1 DEF Operation
<1>3. owner' = owner \/ owner' \in Users
  BY DEF RelayStep, Register, SendAuthAck, Unregister, UpsertDevice, Authenticated, GetUserByToken
<1>4. CASE owner' = owner
  BY <1>1, <1>2, <1>4, Stutter
<1>5. CASE owner' \in Users
  <2>1. Promise!Bind(owner')
    BY <1>1, <1>2 DEF Promise!Bind
  <2> QED
    BY <1>5, <2>1 DEF Promise!OperationNext
<1> QED
  BY <1>3, <1>4, <1>5

\* Every step is one of RemoteOperation or leaves its variables alone.
LEMMA StepRefines ==
    ASSUME RoutingTypeOK, RoutingTypeOK', FoundIsConn, RouteInv, [RoutingNext]_vars
    PROVE  [Promise!OperationNext]_(Promise!opVars)
<1>1. ASSUME UNCHANGED <<runs, reported, audit, owner>>,
             \A r \in Requests : pc'[r] = pc[r] \/ (pc[r] = "sent" /\ pc'[r] = "left")
      PROVE  [Promise!OperationNext]_(Promise!opVars)
  <2>1. \A r \in Requests : Operation(r)' = Operation(r)
    BY <1>1 DEF Operation
  <2> QED
    BY <1>1, <2>1, Stutter
<1>2. CASE \/ AgentDials \/ LocalChange \/ Environment \/ UNCHANGED vars
           \/ (ReadAuthAck \/ Disconnect \/ WritePump) /\ UNCHANGED routeVars
           \/ \E k \in Controllers : (Join(k) /\ UNCHANGED routeVars) \/ SessionEnds(k)
  <2>1. UNCHANGED <<runs, reported, audit>>
    BY <1>2 DEF AgentDials, LocalChange, Environment, SessionEnds, vars, routeVars
  <2>2. owner' = owner
    BY <1>2 DEF AgentDials, Dial, LocalChange, Environment, Setup, Break, ReadAuthAck, Disconnect,
                WritePump, Join, SessionEnds, Leave, vars, regVars, hubState
  <2>3. \A r \in Requests : pc'[r] = pc[r] \/ (pc[r] = "sent" /\ pc'[r] = "left")
    BY <1>2 DEF AgentDials, LocalChange, Environment, SessionEnds, vars, routeVars
  <2> QED
    BY <1>1, <2>1, <2>2, <2>3
<1> QED
  BY <1>2, RouteRefines, HandleRefines, ReportRefines, RelayRefines DEF RoutingNext

\* The initial states map to the initial state.
LEMMA InitRefines ==
    ASSUME RoutingInit
    PROVE  RouteInv /\ Promise!OperationInit
<1>1. RouteInv
  BY EmptySeq DEF RoutingInit, RegistryInit, RouteInv, InFlightOnce, InFlightIsFresh, HandledWasSent,
                  ResponsesAreOfRuns, AuditIsOfReports
<1>2. \A r \in Requests : Operation(r) = "idle"
  BY DEF RoutingInit, Operation
<1> QED
  BY <1>1, <1>2 DEF RoutingInit, RegistryInit, Promise!OperationInit

\* routeToAgent, the agent's handlers and routeToControllers implement
\* RemoteOperation: over any number of connections, reconnections, broken
\* connections, full channels and deaths of the relay, a request is granted
\* against the account the device has, performed at most once and never after a
\* refusal, and AuditLogs records it only after the agent has performed it.
THEOREM RoutingImplementsRemoteOperation == RoutingSafety => ImplementsRemoteOperation
<1> DEFINE Inv == RoutingTypeOK /\ FoundIsConn /\ RouteInv
<1>1. RoutingInit => Inv /\ Promise!OperationInit
  BY InitTypes, InitRefines
<1>2. Inv /\ [RoutingNext]_vars => Inv'
  BY TypesKept, RouteInvKept
<1>3. Inv /\ Inv' /\ [RoutingNext]_vars => [Promise!OperationNext]_(Promise!opVars)
  BY StepRefines
<1> QED
  BY <1>1, <1>2, <1>3, PTL DEF RoutingSafety, ImplementsRemoteOperation, Promise!OperationSpec
=============================================================================
