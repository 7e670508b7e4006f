--------------------------- MODULE FileCacheProofs ---------------------------
(***************************************************************************)
(* When the CloudFileCache of RequestRouting may go back to an older       *)
(* version, for every set of connections and requests and every number of  *)
(* faults: the responses of an agent reach the cache in the order in which *)
(* they were made, but for those of a replaced connection.                 *)
(***************************************************************************)
EXTENDS RequestRoutingProofs

\* AUTH_ACK is on its way on connection n.
Acked(n) == \E i \in 1 .. Len(down[n]) : down[n][i] = "AUTH_ACK"

\* A connection on which the relay has accepted the device, as the relay, the
\* channel or the agent shows.
Greeted(n) ==
    \/ reader[n] = "registered"
    \/ Acked(n)
    \/ serving /\ aconn = n

\* Of the accepted connections only the device's own still carries messages:
\* handleAuth closes the one it replaces.
OneLiveConn == \A n \in Conns : Greeted(n) /\ link[n] => cur = n

\* A connection starts with nothing sent on it, in either direction.
FreshConns ==
    /\ aconn = NoConn => ~ serving
    /\ \A n \in Conns :
          /\ reader[n] = "closed" => ~ link[n]
          /\ reader[n] = "auth" => ~ Greeted(n)
          /\ reader[n] \in {"closed", "auth"} => up[n] = << >>

ConnInv == OneLiveConn /\ FreshConns

\* Versions in a channel and around it.
Ordered(q) == \A i, j \in 1 .. Len(q) : i <= j => q[i].ver <= q[j].ver
UpTo(q, v) == \A i \in 1 .. Len(q) : q[i].ver <= v
Since(v, q) == \A i \in 1 .. Len(q) : v <= q[i].ver
Precedes(p, q) == \A i \in 1 .. Len(p) : Since(p[i].ver, q)

\* The responses are in the channels in the order in which the agent made them: what
\* is on a connection is older than what is still to be sent, and what is on
\* a replaced connection older than what is on the device's.
ResponsesInOrder ==
    /\ Ordered(asend) /\ UpTo(asend, disk.ver)
    /\ \A n \in Conns : Ordered(up[n]) /\ UpTo(up[n], disk.ver) /\ Precedes(up[n], asend)
    /\ \A n \in Conns : cur \in Conns \ {n} => Precedes(up[n], up[cur])

\* The cache is no newer than what is still to come on the device's connection.
NoNewer(v) == v <= disk.ver /\ Since(v, asend) /\ (cur \in Conns => Since(v, up[cur]))
CacheIsPast == NoNewer(cache.files) /\ NoNewer(cache.content)

OrderInv == ConnInv /\ ResponsesInOrder /\ CacheIsPast

-----------------------------------------------------------------------------
(* Connections.                                                            *)

\* A channel that is left alone, emptied, read from, or sent something else has no
\* AUTH_ACK that it did not have.
LEMMA NoNewAck ==
    ASSUME RoutingTypeOK, NEW n \in Conns, Acked(n)',
           \/ down'[n] = down[n]
           \/ down'[n] = << >>
           \/ down[n] # << >> /\ down'[n] = Tail(down[n])
           \/ \E m \in ToAgent \ {"AUTH_ACK"} : down'[n] = Append(down[n], m)
    PROVE  Acked(n)
<1>1. down[n] \in Seq(ToAgent) /\ Len(down[n]) \in Nat
  BY LenProperties DEF RoutingTypeOK, RegistryTypeOK
<1>2. CASE down'[n] = down[n]
  BY <1>2 DEF Acked
<1>3. CASE down'[n] = << >>
  BY <1>3, EmptySeq DEF Acked
<1>4. CASE down[n] # << >> /\ down'[n] = Tail(down[n])
  <2>1. /\ Len(down'[n]) = Len(down[n]) - 1
        /\ \A i \in 1 .. Len(down'[n]) : down'[n][i] = down[n][i + 1]
    BY <1>1, <1>4, HeadTailProperties
  <2> QED
    BY <1>1, <2>1 DEF Acked
<1>5. CASE \E m \in ToAgent \ {"AUTH_ACK"} : down'[n] = Append(down[n], m)
  <2>1. PICK m \in ToAgent \ {"AUTH_ACK"} : down'[n] = Append(down[n], m)
    BY <1>5
  <2>2. /\ Len(down'[n]) = Len(down[n]) + 1
        /\ \A i \in 1 .. Len(down[n]) : down'[n][i] = down[n][i]
        /\ down'[n][Len(down[n]) + 1] = m
    BY <1>1, <2>1, AppendProperties
  <2> QED
    BY <1>1, <2>2 DEF Acked
<1> QED
  BY <1>2, <1>3, <1>4, <1>5

\* Steps that accept no connection, open none and revive none.
LEMMA QuietConns ==
    ASSUME ConnInv, RoutingTypeOK,
           UNCHANGED <<cur, reader>>, aconn' = NoConn => ~ serving',
           \A n \in Conns : /\ Greeted(n)' => Greeted(n)
                            /\ link'[n] => link[n]
                            /\ up[n] = << >> => up'[n] = << >>
    PROVE  ConnInv'
BY DEF ConnInv, OneLiveConn, FreshConns

\* connectAndServe returns.
LEMMA ClosedGreets ==
    ASSUME RoutingTypeOK, Closed, reader' = reader
    PROVE  \A n \in Conns : (Greeted(n)' => Greeted(n)) /\ (link'[n] => link[n])
<1> SUFFICES ASSUME NEW n \in Conns PROVE (Greeted(n)' => Greeted(n)) /\ (link'[n] => link[n])
  OBVIOUS
<1>1. down'[n] = down[n] \/ down'[n] = << >>
  BY DEF Closed
<1>2. Acked(n)' => Acked(n)
  BY <1>1, NoNewAck
<1>3. link'[n] => link[n]
  BY DEF Closed
<1>4. serving' = FALSE
  BY DEF Closed
<1> QED
  BY <1>2, <1>3, <1>4 DEF Greeted

\* handleAuth, its AUTH_ACK and the end of a readPump.
LEMMA ReaderConns ==
    ASSUME ConnInv, RoutingTypeOK, NEW n \in Conns, RelayStep(n)
    PROVE  ConnInv'
<1> USE DEF ConnInv, OneLiveConn, FreshConns
<1>0. /\ reader \in [Conns -> {"closed", "auth", "registered", "open"}]
      /\ down \in [Conns -> Seq(ToAgent)] /\ up \in [Conns -> Seq(Responses)]
      /\ link \in [Conns -> BOOLEAN] /\ aconn \in Conns \cup {NoConn}
  BY DEF RoutingTypeOK, RegistryTypeOK
<1>1. ASSUME UNCHANGED <<down, aconn, serving>> PROVE \A o \in Conns : Acked(o)' => Acked(o)
  BY <1>1 DEF Acked
<1>2. CASE Register(n) /\ auth[n] \notin Invalid
  <2>1. /\ cur' = n /\ reader' = [reader EXCEPT ![n] = "registered"]
        /\ link' = [m \in Conns |-> link[m] /\ (m = n \/ m # cur)]
        /\ UNCHANGED <<down, up, aconn, serving>>
    BY <1>2 DEF Register, agentState
  <2>2. ASSUME NEW o \in Conns, o # n PROVE (Greeted(o)' => Greeted(o)) /\ reader'[o] = reader[o]
    BY <1>0, <1>1, <2>1, <2>2 DEF Greeted
  <2>3. OneLiveConn'
    BY <2>1, <2>2
  <2>4. FreshConns'
    BY <1>0, <2>1, <2>2
  <2> QED
    BY <2>3, <2>4
<1>3. CASE Register(n) /\ auth[n] \in Invalid
  <2>1. /\ reader' = [reader EXCEPT ![n] = "open"] /\ down' = Sent(n, "AUTH_FAIL")
        /\ UNCHANGED <<cur, link, up, aconn, serving>>
    BY <1>3 DEF Register, agentState
  <2>2. ASSUME NEW o \in Conns PROVE Greeted(o)' => Greeted(o)
    <3>1. "AUTH_FAIL" \in ToAgent \ {"AUTH_ACK"}
      BY DEF ToAgent
    <3>2. down'[o] = down[o] \/ down'[o] = Append(down[o], "AUTH_FAIL")
      BY <1>0, <2>1 DEF Sent
    <3>3. Acked(o)' => Acked(o)
      BY <3>1, <3>2, NoNewAck
    <3> QED
      BY <1>0, <2>1, <3>3 DEF Greeted
  <2>3. OneLiveConn'
    BY <2>1, <2>2
  <2>4. FreshConns'
    BY <1>0, <2>1, <2>2
  <2> QED
    BY <2>3, <2>4
<1>4. CASE SendAuthAck(n)
  <2>1. /\ reader[n] = "registered"
        /\ reader' = [reader EXCEPT ![n] = "open"] /\ down' = Sent(n, "AUTH_ACK")
        /\ UNCHANGED <<cur, link, up, aconn, serving>>
    BY <1>4 DEF SendAuthAck, agentState
  <2>2. ASSUME NEW o \in Conns PROVE Greeted(o)' => Greeted(o)
    <3>1. CASE o = n
      BY <2>1, <3>1 DEF Greeted
    <3>2. CASE o # n
      <4>1. down'[o] = down[o]
        BY <1>0, <2>1, <3>2 DEF Sent
      <4>2. Acked(o)' => Acked(o)
        BY <4>1, NoNewAck
      <4> QED
        BY <1>0, <2>1, <3>2, <4>2 DEF Greeted
    <3> QED
      BY <3>1, <3>2
  <2>3. OneLiveConn'
    BY <2>1, <2>2
  <2>4. FreshConns'
    BY <1>0, <2>1, <2>2
  <2> QED
    BY <2>3, <2>4
<1>5. CASE Unregister(n)
  <2>1. /\ cur' = IF cur = n THEN NoConn ELSE cur
        /\ reader' = [reader EXCEPT ![n] = "closed"]
        /\ link' = [link EXCEPT ![n] = FALSE]
        /\ up' = [up EXCEPT ![n] = << >>]
        /\ UNCHANGED <<down, aconn, serving>>
    BY <1>5 DEF Unregister, agentState
  <2>2. ASSUME NEW o \in Conns, o # n PROVE (Greeted(o)' => Greeted(o)) /\ reader'[o] = reader[o]
    BY <1>0, <1>1, <2>1, <2>2 DEF Greeted
  <2>3. OneLiveConn'
    BY <1>0, <2>1, <2>2
  <2>4. FreshConns'
    BY <1>0, <2>1, <2>2
  <2> QED
    BY <2>3, <2>4
<1> QED
  BY <1>2, <1>3, <1>4, <1>5 DEF RelayStep

\* A connection that the agent opens is a new one.
LEMMA DialConns ==
    ASSUME ConnInv, RoutingTypeOK, NEW n \in Conns, Dial(n)
    PROVE  ConnInv'
<1>0. /\ reader \in [Conns -> {"closed", "auth", "registered", "open"}]
      /\ down \in [Conns -> Seq(ToAgent)] /\ link \in [Conns -> BOOLEAN]
  BY DEF RoutingTypeOK, RegistryTypeOK
<1>1. /\ aconn = NoConn /\ ~ serving /\ reader[n] = "closed" /\ up[n] = << >>
      /\ aconn' = n /\ reader' = [reader EXCEPT ![n] = "auth"]
      /\ link' = [link EXCEPT ![n] = TRUE] /\ down' = [down EXCEPT ![n] = << >>]
      /\ UNCHANGED <<cur, up, serving>>
  BY DEF Dial, ConnInv, FreshConns
<1>2. ~ Greeted(n)'
  <2>1. ~ Acked(n)'
    BY <1>0, <1>1, EmptySeq DEF Acked
  <2> QED
    BY <1>0, <1>1, <2>1 DEF Greeted
<1>3. ASSUME NEW o \in Conns, o # n
      PROVE  (Greeted(o)' => Greeted(o)) /\ reader'[o] = reader[o] /\ link'[o] = link[o]
  <2>1. Acked(o)' => Acked(o)
    BY <1>0, <1>1, <1>3 DEF Acked
  <2> QED
    BY <1>0, <1>1, <1>3, <2>1 DEF Greeted
<1>4. OneLiveConn'
  BY <1>1, <1>2, <1>3 DEF ConnInv, OneLiveConn
<1>5. FreshConns'
  BY <1>0, <1>1, <1>2, <1>3, RegistryAssumption DEF ConnInv, FreshConns
<1> QED
  BY <1>4, <1>5 DEF ConnInv

\* The agent reads its first message: with AUTH_ACK it serves the connection.
LEMMA AckConns ==
    ASSUME ConnInv, RoutingTypeOK, ReadAuthAck
    PROVE  ConnInv'
<1>0. /\ reader \in [Conns -> {"closed", "auth", "registered", "open"}]
      /\ down \in [Conns -> Seq(ToAgent)] /\ link \in [Conns -> BOOLEAN]
      /\ aconn \in Conns /\ down[aconn] # << >>
  BY DEF RoutingTypeOK, RegistryTypeOK, ReadAuthAck
<1>1. UNCHANGED <<cur, reader, up>>
  BY DEF ReadAuthAck, hubState
<1>2. CASE Head(down[aconn]) = "AUTH_ACK"
  <2>1. /\ serving' = TRUE /\ down' = [down EXCEPT ![aconn] = Tail(@)]
        /\ UNCHANGED <<aconn, link>>
    BY <1>2 DEF ReadAuthAck
  <2>2. Acked(aconn)
    <3>1. Head(down[aconn]) = down[aconn][1] /\ Len(down[aconn]) \in Nat /\ Len(down[aconn]) # 0
      BY <1>0, HeadTailProperties, EmptySeq, LenProperties
    <3> QED
      BY <1>2, <3>1 DEF Acked
  <2>3. ASSUME NEW n \in Conns PROVE Greeted(n)' => Greeted(n)
    <3>1. down'[n] = down[n] \/ (down[n] # << >> /\ down'[n] = Tail(down[n]))
      BY <1>0, <2>1
    <3>2. Acked(n)' => Acked(n)
      BY <3>1, NoNewAck
    <3> QED
      BY <1>1, <2>1, <2>2, <3>2 DEF Greeted
  <2> QED
    BY <1>0, <1>1, <2>1, <2>3, QuietConns, RegistryAssumption
<1>3. CASE Head(down[aconn]) # "AUTH_ACK"
  <2>1. Closed
    BY <1>3 DEF ReadAuthAck
  <2> QED
    BY <1>1, <2>1, ClosedGreets, QuietConns DEF Closed
<1> QED
  BY <1>2, <1>3

\* The agent writes only on a connection that was accepted.
LEMMA WriteConns ==
    ASSUME ConnInv, RoutingTypeOK, WritePump
    PROVE  ConnInv' /\ (link[aconn] => cur = aconn)
<1>0. aconn \in Conns /\ serving /\ up \in [Conns -> Seq(Responses)]
  BY DEF RoutingTypeOK, RegistryTypeOK, WritePump
<1>1. UNCHANGED <<cur, reader, link, down, aconn, serving>>
  BY DEF WritePump, hubState
<1>2. Greeted(aconn)
  BY <1>0 DEF Greeted
<1>3. \A n \in Conns : Greeted(n)' <=> Greeted(n)
  BY <1>1 DEF Greeted, Acked
<1>4. link[aconn] => cur = aconn /\ reader[aconn] \notin {"closed", "auth"}
  BY <1>0, <1>2 DEF ConnInv, OneLiveConn, FreshConns
<1>5. \A n \in Conns : up'[n] = up[n] \/ (n = aconn /\ link[n])
  BY <1>0 DEF WritePump
<1>6. OneLiveConn'
  BY <1>1, <1>3 DEF ConnInv, OneLiveConn
<1>7. FreshConns'
  BY <1>1, <1>3, <1>4, <1>5 DEF ConnInv, FreshConns
<1> QED
  BY <1>4, <1>6, <1>7 DEF ConnInv

\* A request sent, or the death of the relay.
LEMMA ForwardConns ==
    ASSUME ConnInv, RoutingTypeOK, FoundIsConn, NEW r \in Requests, Forward(r)
    PROVE  ConnInv'
<1>0. target[r] \in Conns /\ down \in [Conns -> Seq(ToAgent)]
  BY DEF FoundIsConn, Forward, RoutingTypeOK, RegistryTypeOK
<1>1. CASE RelayDies
  BY <1>1 DEF RelayDies, agentState, ConnInv, OneLiveConn, FreshConns
<1>2. CASE ~ RelayDies
  <2>1. /\ down' = Sent(target[r], r)
        /\ UNCHANGED <<cur, reader, link, up, aconn, serving>>
    BY <1>2 DEF Forward, hubState, agentState
  <2>2. ASSUME NEW n \in Conns PROVE Greeted(n)' => Greeted(n)
    <3>1. r \in ToAgent \ {"AUTH_ACK"}
      BY RegistryAssumption DEF ToAgent
    <3>2. down'[n] = down[n] \/ down'[n] = Append(down[n], r)
      BY <1>0, <2>1 DEF Sent
    <3>3. Acked(n)' => Acked(n)
      BY <3>1, <3>2, NoNewAck
    <3> QED
      BY <2>1, <3>3 DEF Greeted
  <2>3. aconn' = NoConn => ~ serving'
    BY <2>1 DEF ConnInv, FreshConns
  <2> QED
    BY <2>1, <2>2, <2>3, QuietConns
<1> QED
  BY <1>1, <1>2

\* Every step.
LEMMA ConnsKept ==
    ASSUME ConnInv, RoutingTypeOK, FoundIsConn, [RoutingNext]_vars
    PROVE  ConnInv'
<1>0. aconn = NoConn => ~ serving
  BY DEF ConnInv, FreshConns
<1>1. ASSUME UNCHANGED <<cur, reader, link, down, up, aconn, serving>> PROVE ConnInv'
  BY <1>0, <1>1, QuietConns DEF Greeted, Acked
<1>2. CASE HandleRequest
  <2>1. /\ aconn \in Conns /\ down[aconn] # << >> /\ down' = [down EXCEPT ![aconn] = Tail(@)]
        /\ down \in [Conns -> Seq(ToAgent)]
        /\ UNCHANGED <<cur, reader, link, up, aconn, serving>>
    BY <1>2 DEF HandleRequest, hubState, RoutingTypeOK, RegistryTypeOK
  <2>2. ASSUME NEW n \in Conns PROVE Greeted(n)' => Greeted(n)
    <3>1. down'[n] = down[n] \/ (down[n] # << >> /\ down'[n] = Tail(down[n]))
      BY <2>1
    <3>2. Acked(n)' => Acked(n)
      BY <3>1, NoNewAck
    <3> QED
      BY <2>1, <3>2 DEF Greeted
  <2> QED
    BY <1>0, <2>1, <2>2, QuietConns
<1>3. ASSUME NEW n \in Conns, RouteToControllers(n) PROVE ConnInv'
  <2>1. /\ UNCHANGED <<cur, reader, link, down, aconn, serving>>
        /\ up[n] # << >> /\ up' = [up EXCEPT ![n] = Tail(@)] /\ up \in [Conns -> Seq(Responses)]
    BY <1>3 DEF RouteToControllers, hubState, agentState, RoutingTypeOK, RegistryTypeOK
  <2>2. \A o \in Conns : (Greeted(o)' => Greeted(o)) /\ (up[o] = << >> => up'[o] = << >>)
    BY <2>1 DEF Greeted, Acked
  <2> QED
    BY <1>0, <2>1, <2>2, QuietConns
<1>4. CASE Disconnect
  BY <1>4, ClosedGreets, QuietConns DEF Disconnect, Closed, hubState
<1>5. CASE Environment
  <2>1. ASSUME NEW t \in Tokens, Setup(t) PROVE ConnInv'
    BY <2>1, ClosedGreets, QuietConns DEF Setup, Closed, hubState
  <2>2. ASSUME NEW n \in Conns, Break(n) PROVE ConnInv'
    <3>1. /\ UNCHANGED <<cur, reader, down, up, aconn, serving>>
          /\ link' = [link EXCEPT ![n] = FALSE] /\ link \in [Conns -> BOOLEAN]
      BY <2>2 DEF Break, hubState, agentState, RoutingTypeOK, RegistryTypeOK
    <3>2. \A o \in Conns : (Greeted(o)' => Greeted(o)) /\ (link'[o] => link[o])
      BY <3>1 DEF Greeted, Acked
    <3> QED
      BY <1>0, <3>1, <3>2, QuietConns
  <2> QED
    BY <1>5, <2>1, <2>2 DEF Environment
<1>6. CASE AgentDials
  BY <1>6, DialConns DEF AgentDials
<1>7. ASSUME \/ \E r \in Requests : Check(r) \/ Lookup(r) \/ AnswerOffline(r)
             \/ LocalChange
             \/ \E k \in Controllers : Join(k) \/ SessionEnds(k)
             \/ UNCHANGED vars
      PROVE  ConnInv'
  <2>1. UNCHANGED <<cur, reader, link, down, up, aconn, serving>>
    BY <1>7 DEF Check, Lookup, AnswerOffline, LocalChange, Join, SessionEnds, Leave,
                vars, regVars, hubState, wires, agentState
  <2> QED
    BY <1>1, <2>1
<1> QED
  BY <1>2, <1>3, <1>4, <1>5, <1>6, <1>7, ReaderConns, AckConns, WriteConns, ForwardConns
     DEF RoutingNext

-----------------------------------------------------------------------------
(* Versions in the channels.                                               *)

\* What is left of channel q when messages were dropped from its front.
Suffix(p, q) ==
    \E d \in Nat : \A i \in 1 .. Len(p) : i + d \in 1 .. Len(q) /\ p[i] = q[i + d]

\* A channel that is left alone, emptied or read from.
LEMMA SuffixCases ==
    ASSUME NEW S, NEW q \in Seq(S), NEW p,
           \/ p = q
           \/ p = << >>
           \/ q # << >> /\ p = Tail(q)
    PROVE  Suffix(p, q)
<1>0. Len(q) \in Nat
  BY LenProperties
<1>1. CASE p = q
  <2>1. \A i \in 1 .. Len(p) : i + 0 \in 1 .. Len(q) /\ p[i] = q[i + 0]
    BY <1>0, <1>1
  <2> QED
    BY <2>1 DEF Suffix
<1>2. CASE p = << >>
  BY <1>2, EmptySeq DEF Suffix
<1>3. CASE q # << >> /\ p = Tail(q)
  <2>1. Len(p) = Len(q) - 1 /\ \A i \in 1 .. Len(p) : p[i] = q[i + 1]
    BY <1>0, <1>3, HeadTailProperties
  <2>2. \A i \in 1 .. Len(p) : i + 1 \in 1 .. Len(q) /\ p[i] = q[i + 1]
    BY <1>0, <2>1
  <2> QED
    BY <2>2 DEF Suffix
<1> QED
  BY <1>1, <1>2, <1>3

\* It is ordered as the channel was.
LEMMA SuffixKeeps ==
    ASSUME NEW p \in Seq(Responses), NEW q \in Seq(Responses), Suffix(p, q)
    PROVE  /\ Ordered(q) => Ordered(p)
           /\ \A v : (UpTo(q, v) => UpTo(p, v)) /\ (Since(v, q) => Since(v, p))
           /\ \A s : (Precedes(q, s) => Precedes(p, s)) /\ (Precedes(s, q) => Precedes(s, p))
<1>0. Len(p) \in Nat /\ Len(q) \in Nat
  BY LenProperties
<1>1. PICK d \in Nat : \A i \in 1 .. Len(p) : i + d \in 1 .. Len(q) /\ p[i] = q[i + d]
  BY DEF Suffix
<1>2. ASSUME Ordered(q) PROVE Ordered(p)
  <2> SUFFICES ASSUME NEW i \in 1 .. Len(p), NEW j \in 1 .. Len(p), i <= j
               PROVE  p[i].ver <= p[j].ver
    BY DEF Ordered
  <2>1. i + d \in 1 .. Len(q) /\ j + d \in 1 .. Len(q) /\ i + d <= j + d
    BY <1>0, <1>1
  <2>2. q[i + d].ver <= q[j + d].ver
    BY <1>2, <2>1 DEF Ordered
  <2> QED
    BY <1>1, <2>2
<1>3. ASSUME NEW v PROVE (UpTo(q, v) => UpTo(p, v)) /\ (Since(v, q) => Since(v, p))
  BY <1>1 DEF UpTo, Since
<1>4. ASSUME NEW s
      PROVE  (Precedes(q, s) => Precedes(p, s)) /\ (Precedes(s, q) => Precedes(s, p))
  BY <1>1, <1>3 DEF Precedes
<1> QED
  BY <1>2, <1>3, <1>4

\* A message put after the ones it is not older than.
LEMMA AppendKeeps ==
    ASSUME NEW q \in Seq(Responses), NEW m \in Responses
    PROVE  LET a == Append(q, m) IN
           /\ Ordered(q) /\ UpTo(q, m.ver) => Ordered(a)
           /\ \A v : UpTo(q, v) /\ m.ver <= v => UpTo(a, v)
           /\ \A v : Since(v, q) /\ v <= m.ver => Since(v, a)
           /\ \A s : Precedes(s, q) /\ UpTo(s, m.ver) => Precedes(s, a)
           /\ \A s : Precedes(q, s) /\ Since(m.ver, s) => Precedes(a, s)
<1> DEFINE a == Append(q, m)
<1>0. Len(q) \in Nat /\ m.ver \in Nat
  BY LenProperties DEF Responses
<1>1. /\ Len(a) = Len(q) + 1 /\ a[Len(q) + 1] = m
      /\ \A i \in 1 .. Len(q) : a[i] = q[i]
  BY AppendProperties
<1> HIDE DEF a
<1>2. \A i \in 1 .. Len(a) : i \in 1 .. Len(q) \/ i = Len(q) + 1
  BY <1>0, <1>1
<1>3. ASSUME Ordered(q), UpTo(q, m.ver) PROVE Ordered(a)
  <2> SUFFICES ASSUME NEW i \in 1 .. Len(a), NEW j \in 1 .. Len(a), i <= j
               PROVE  a[i].ver <= a[j].ver
    BY DEF Ordered
  <2>1. CASE j \in 1 .. Len(q)
    <3>1. i \in 1 .. Len(q)
      BY <1>0, <2>1
    <3> QED
      BY <1>1, <1>3, <2>1, <3>1 DEF Ordered
  <2>2. CASE j = Len(q) + 1 /\ i \in 1 .. Len(q)
    BY <1>1, <1>3, <2>2 DEF UpTo
  <2>3. CASE j = Len(q) + 1 /\ i = Len(q) + 1
    BY <1>0, <1>1, <2>3
  <2> QED
    BY <1>2, <2>1, <2>2, <2>3
<1>4. ASSUME NEW v PROVE /\ UpTo(q, v) /\ m.ver <= v => UpTo(a, v)
                         /\ Since(v, q) /\ v <= m.ver => Since(v, a)
  BY <1>1, <1>2 DEF UpTo, Since
<1>5. ASSUME NEW s PROVE /\ Precedes(s, q) /\ UpTo(s, m.ver) => Precedes(s, a)
                         /\ Precedes(q, s) /\ Since(m.ver, s) => Precedes(a, s)
  <2>1. Precedes(s, q) /\ UpTo(s, m.ver) => Precedes(s, a)
    BY <1>4 DEF Precedes, UpTo
  <2>2. Precedes(q, s) /\ Since(m.ver, s) => Precedes(a, s)
    BY <1>1, <1>2 DEF Precedes
  <2> QED
    BY <2>1, <2>2
<1> QED
  BY <1>3, <1>4, <1>5 DEF a

\* The first of a channel.
LEMMA HeadIsFirst ==
    ASSUME NEW q \in Seq(Responses), q # << >>
    PROVE  /\ Head(q) = q[1] /\ 1 \in 1 .. Len(q) /\ Head(q) \in Responses
           /\ Head(q).ver \in Nat /\ Tail(q) \in Seq(Responses) /\ Suffix(Tail(q), q)
           /\ Ordered(q) => Since(Head(q).ver, q)
<1>1. Len(q) \in Nat /\ Len(q) # 0
  BY EmptySeq, LenProperties
<1>2. Head(q) = q[1] /\ Head(q) \in Responses /\ Tail(q) \in Seq(Responses)
  BY HeadTailProperties
<1>3. 1 \in 1 .. Len(q)
  BY <1>1
<1>4. Ordered(q) => Since(Head(q).ver, q)
  BY <1>1, <1>2, <1>3 DEF Ordered, Since
<1>5. Suffix(Tail(q), q)
  BY SuffixCases
<1> QED
  BY <1>2, <1>3, <1>4, <1>5 DEF Responses

-----------------------------------------------------------------------------
(* The order of the responses.                                             *)

ChannelsOK ==
    /\ asend \in Seq(Responses) /\ up \in [Conns -> Seq(Responses)]
    /\ cur \in Conns \cup {NoConn} /\ disk.ver \in Nat

LEMMA ChannelsAreOK ==
    ASSUME RoutingTypeOK, RoutingTypeOK'
    PROVE  ChannelsOK /\ ChannelsOK'
BY DEF RoutingTypeOK, RegistryTypeOK, ChannelsOK

\* Versions are numbers.
LEMMA VersionsAreNat ==
    ASSUME NEW q \in Seq(Responses)
    PROVE  \A i \in 1 .. Len(q) : q[i].ver \in Nat
<1> SUFFICES ASSUME NEW i \in 1 .. Len(q) PROVE q[i].ver \in Nat
  OBVIOUS
<1>1. q[i] \in Responses
  OBVIOUS
<1> QED
  BY <1>1 DEF Responses

\* Steps that only take messages out of channels keep the order.
LEMMA ShrinkKeeps ==
    ASSUME ResponsesInOrder, ChannelsOK, ChannelsOK', disk.ver <= disk'.ver,
           Suffix(asend', asend), \A n \in Conns : Suffix(up'[n], up[n]),
           cur' = cur \/ cur' = NoConn \/ up'[cur'] = << >>
    PROVE  /\ ResponsesInOrder'
           /\ \A v \in Nat : NoNewer(v) => NoNewer(v)'
<1> USE DEF ChannelsOK
<1>0. /\ \A n \in Conns : up[n] \in Seq(Responses) /\ up'[n] \in Seq(Responses)
      /\ \A v : UpTo(asend, v) => UpTo(asend', v)
      /\ \A v : Since(v, asend) => Since(v, asend')
      /\ \A n \in Conns : \A v : Since(v, up[n]) => Since(v, up'[n])
  BY SuffixKeeps
<1>1. Ordered(asend') /\ UpTo(asend', disk'.ver)
  <2>1. Ordered(asend') /\ UpTo(asend', disk.ver)
    BY <1>0, SuffixKeeps DEF ResponsesInOrder
  <2>2. \A i \in 1 .. Len(asend') : asend'[i].ver \in Nat
    BY VersionsAreNat
  <2> QED
    BY <2>1, <2>2 DEF UpTo
<1>2. ASSUME NEW n \in Conns
      PROVE  Ordered(up'[n]) /\ UpTo(up'[n], disk'.ver) /\ Precedes(up'[n], asend')
  <2>1. Ordered(up[n]) /\ UpTo(up[n], disk.ver) /\ Precedes(up[n], asend)
    BY DEF ResponsesInOrder
  <2>2. Ordered(up'[n]) /\ UpTo(up'[n], disk.ver) /\ Precedes(up'[n], asend)
    BY <1>0, <2>1, SuffixKeeps
  <2>3. \A i \in 1 .. Len(up'[n]) : up'[n][i].ver \in Nat
    BY <1>0, VersionsAreNat
  <2>4. UpTo(up'[n], disk'.ver)
    BY <2>2, <2>3 DEF UpTo
  <2>5. Precedes(up'[n], asend')
    BY <1>0, <2>2 DEF Precedes
  <2> QED
    BY <2>2, <2>4, <2>5
<1>3. ASSUME NEW n \in Conns, cur' \in Conns \ {n} PROVE Precedes(up'[n], up'[cur'])
  <2>1. CASE cur' = cur
    <3>1. Precedes(up[n], up[cur])
      BY <1>3, <2>1 DEF ResponsesInOrder
    <3>2. Precedes(up'[n], up[cur])
      BY <1>0, <3>1, SuffixKeeps
    <3> QED
      BY <1>0, <1>3, <2>1, <3>2 DEF Precedes
  <2>2. CASE up'[cur'] = << >>
    BY <2>2, EmptySeq DEF Precedes, Since
  <2> QED
    BY <1>3, <2>1, <2>2, RegistryAssumption
<1>4. ASSUME NEW v \in Nat, NoNewer(v) PROVE NoNewer(v)'
  <2>1. v <= disk'.ver /\ Since(v, asend')
    BY <1>0, <1>4 DEF NoNewer
  <2>2. ASSUME cur' \in Conns PROVE Since(v, up'[cur'])
    <3>1. CASE cur' = cur
      BY <1>0, <1>4, <2>2, <3>1 DEF NoNewer
    <3>2. CASE up'[cur'] = << >>
      BY <3>2, EmptySeq DEF Since
    <3> QED
      BY <2>2, <3>1, <3>2, RegistryAssumption
  <2> QED
    BY <2>1, <2>2 DEF NoNewer
<1> QED
  BY <1>1, <1>2, <1>3, <1>4 DEF ResponsesInOrder

\* The agent makes its responses in the order of the versions of the path.
LEMMA HandleOrder ==
    ASSUME ResponsesInOrder, RoutingTypeOK, RoutingTypeOK', HandleRequest
    PROVE  /\ ResponsesInOrder'
           /\ \A v \in Nat : NoNewer(v) => NoNewer(v)'
<1> DEFINE r == Head(down[aconn])
<1>0. r \in Requests /\ ChannelsOK /\ ChannelsOK'
  BY ChannelsAreOK DEF HandleRequest
<1>1. disk.ver \in Nat /\ disk'.ver \in Nat /\ disk.ver <= disk'.ver
  <2>1. disk' = Performed(r)
    BY DEF HandleRequest
  <2>2. disk.ver \in Nat
    BY DEF RoutingTypeOK
  <2> HIDE DEF r
  <2> QED
    BY <2>1, <2>2 DEF Performed, WriteFile, DeleteFile
<1>2. UNCHANGED <<up, cur, cache>>
  BY DEF HandleRequest, hubState
<1>3. \A n \in Conns : up[n] \in Seq(Responses) /\ Suffix(up'[n], up[n])
  BY <1>0, <1>2, SuffixCases DEF ChannelsOK
<1>4. CASE asend' = asend
  <2>1. Suffix(asend', asend)
    BY <1>0, <1>4, SuffixCases DEF ChannelsOK
  <2> QED
    BY <1>0, <1>1, <1>2, <1>3, <2>1, ShrinkKeeps
<1>5. CASE asend' = Append(asend, Response(r))
  <2> DEFINE m == Response(r)
  <2>1. m \in Responses /\ m.ver = disk.ver
    BY <1>0, DiskTypes DEF Response
  <2> HIDE DEF m
  <2>2. asend' = Append(asend, m) /\ asend \in Seq(Responses)
    BY <1>0, <1>5 DEF ChannelsOK, m
  <2>3. Ordered(asend) /\ UpTo(asend, disk.ver)
    BY DEF ResponsesInOrder
  <2>4. Ordered(asend') /\ UpTo(asend', disk.ver)
    BY <1>1, <2>1, <2>2, <2>3, AppendKeeps
  <2>5. ASSUME NEW q \in Seq(Responses), UpTo(q, disk.ver) PROVE UpTo(q, disk'.ver)
    <3>1. \A i \in 1 .. Len(q) : q[i].ver \in Nat
      BY VersionsAreNat
    <3> QED
      BY <1>1, <2>5, <3>1 DEF UpTo
  <2>6. UpTo(asend', disk'.ver)
    BY <1>0, <2>4, <2>5 DEF ChannelsOK
  <2>7. ASSUME NEW n \in Conns
        PROVE  Ordered(up[n]) /\ UpTo(up[n], disk'.ver) /\ Precedes(up[n], asend')
    <3>1. Ordered(up[n]) /\ UpTo(up[n], disk.ver) /\ Precedes(up[n], asend)
      BY DEF ResponsesInOrder
    <3>2. Precedes(up[n], asend')
      BY <2>1, <2>2, <3>1, AppendKeeps
    <3> QED
      BY <1>3, <2>5, <3>1, <3>2
  <2>8. ResponsesInOrder'
    BY <1>2, <2>4, <2>6, <2>7 DEF ResponsesInOrder
  <2>9. ASSUME NEW v \in Nat, NoNewer(v) PROVE NoNewer(v)'
    <3>1. v <= disk.ver /\ Since(v, asend) /\ (cur \in Conns => Since(v, up[cur]))
      BY <2>9 DEF NoNewer
    <3>2. Since(v, asend')
      BY <2>1, <2>2, <3>1, AppendKeeps
    <3> QED
      BY <1>1, <1>2, <3>1, <3>2 DEF NoNewer
  <2> QED
    BY <2>8, <2>9
<1> QED
  BY <1>4, <1>5 DEF HandleRequest, Answers

\* The write pump puts the oldest response on the device's connection, behind
\* what is there.
LEMMA WriteOrder ==
    ASSUME ResponsesInOrder, ConnInv, RoutingTypeOK, RoutingTypeOK', WritePump, disk' = disk
    PROVE  /\ ResponsesInOrder'
           /\ \A v \in Nat : NoNewer(v) => NoNewer(v)'
<1>0. ChannelsOK /\ ChannelsOK' /\ asend # << >> /\ aconn \in Conns
  BY ChannelsAreOK DEF WritePump, RoutingTypeOK, RegistryTypeOK
<1>1. cur' = cur /\ asend' = Tail(asend)
  BY DEF WritePump, hubState
<1>2. Suffix(asend', asend) /\ asend \in Seq(Responses) /\ asend' \in Seq(Responses)
  BY <1>0, <1>1, SuffixCases DEF ChannelsOK
<1>3. CASE ~ link[aconn]
  <2>1. up' = up
    BY <1>3 DEF WritePump
  <2>2. \A n \in Conns : Suffix(up'[n], up[n])
    BY <1>0, <2>1, SuffixCases DEF ChannelsOK
  <2> QED
    BY <1>0, <1>1, <1>2, <2>2, ShrinkKeeps DEF ChannelsOK
<1>4. CASE link[aconn]
  <2> DEFINE m == Head(asend)
  <2>0. cur = aconn
    BY <1>4, WriteConns
  <2>1. /\ m \in Responses /\ m.ver \in Nat /\ m = asend[1] /\ 1 \in 1 .. Len(asend)
        /\ Since(m.ver, asend)
    BY <1>0, <1>2, HeadIsFirst DEF ResponsesInOrder
  <2>2. up' = [up EXCEPT ![aconn] = Append(@, m)]
    BY <1>4 DEF WritePump
  <2> HIDE DEF m
  <2>3. /\ up[aconn] \in Seq(Responses) /\ up'[aconn] = Append(up[aconn], m)
        /\ \A n \in Conns \ {aconn} : up'[n] = up[n]
    BY <1>0, <2>2 DEF ChannelsOK
  <2>4. ASSUME NEW n \in Conns PROVE UpTo(up[n], m.ver)
    <3>1. \A i \in 1 .. Len(up[n]) : Since(up[n][i].ver, asend)
      BY DEF ResponsesInOrder, Precedes
    <3> QED
      BY <2>1, <3>1 DEF UpTo, Since
  <2>5. Since(m.ver, asend') /\ m.ver <= disk.ver
    BY <1>2, <2>1, SuffixKeeps DEF ResponsesInOrder, UpTo
  <2>6. Ordered(asend') /\ UpTo(asend', disk'.ver)
    BY <1>2, SuffixKeeps DEF ResponsesInOrder
  <2>7. ASSUME NEW s, Precedes(s, asend) PROVE Precedes(s, asend')
    BY <1>2, <2>7, SuffixKeeps
  <2>8. ASSUME NEW n \in Conns
        PROVE  Ordered(up'[n]) /\ UpTo(up'[n], disk'.ver) /\ Precedes(up'[n], asend')
    <3>1. Ordered(up[n]) /\ UpTo(up[n], disk.ver) /\ Precedes(up[n], asend')
      BY <2>7 DEF ResponsesInOrder
    <3>2. CASE n # aconn
      BY <2>3, <3>1, <3>2
    <3>3. CASE n = aconn
      <4>1. Ordered(up'[n])
        BY <2>1, <2>3, <2>4, <3>1, <3>3, AppendKeeps
      <4>2. UpTo(up'[n], disk.ver)
        BY <2>1, <2>3, <2>5, <3>1, <3>3, AppendKeeps
      <4>3. Precedes(up'[n], asend')
        BY <2>1, <2>3, <2>5, <3>1, <3>3, AppendKeeps
      <4> QED
        BY <4>1, <4>2, <4>3
    <3> QED
      BY <3>2, <3>3
  <2>9. ASSUME NEW n \in Conns, cur' \in Conns \ {n} PROVE Precedes(up'[n], up'[cur'])
    <3>1. Precedes(up[n], up[aconn]) /\ UpTo(up[n], m.ver) /\ up'[n] = up[n]
      BY <1>1, <2>0, <2>3, <2>4, <2>9 DEF ResponsesInOrder
    <3>2. Precedes(up[n], Append(up[aconn], m))
      BY <2>1, <2>3, <3>1, AppendKeeps
    <3> QED
      BY <1>1, <2>0, <2>3, <3>1, <3>2
  <2>10. ASSUME NEW v \in Nat, NoNewer(v) PROVE NoNewer(v)'
    <3>1. v <= disk.ver /\ Since(v, asend) /\ Since(v, up[aconn])
      BY <1>0, <2>0, <2>10 DEF NoNewer
    <3>2. v <= m.ver /\ Since(v, asend')
      BY <1>2, <2>1, <3>1, SuffixKeeps DEF Since
    <3>3. Since(v, up'[aconn])
      BY <2>1, <2>3, <3>1, <3>2, AppendKeeps
    <3> QED
      BY <1>1, <2>0, <3>1, <3>2, <3>3 DEF NoNewer
  <2> QED
    BY <2>6, <2>8, <2>9, <2>10 DEF ResponsesInOrder
<1> QED
  BY <1>3, <1>4

\* routeToControllers writes the version of the response it has read, which is no
\* newer than those behind it; on the device's connection it is no older than the
\* cache either.
LEMMA ReportOrder ==
    ASSUME ResponsesInOrder, CacheIsPast, RoutingTypeOK, RoutingTypeOK',
           NEW n \in Conns, RouteToControllers(n)
    PROVE  /\ ResponsesInOrder' /\ CacheIsPast'
           /\ cur = n => cache.files <= cache'.files /\ cache.content <= cache'.content
<1> DEFINE m == Head(up[n])
<1>0. ChannelsOK /\ ChannelsOK' /\ up[n] # << >> /\ up[n] \in Seq(Responses)
  BY ChannelsAreOK DEF RouteToControllers, ChannelsOK
<1>1. /\ m.ver \in Nat /\ m = up[n][1] /\ 1 \in 1 .. Len(up[n])
      /\ Since(m.ver, up[n]) /\ Suffix(Tail(up[n]), up[n])
  BY <1>0, HeadIsFirst DEF ResponsesInOrder
<1>2. /\ UNCHANGED <<cur, asend, disk>> /\ up' = [up EXCEPT ![n] = Tail(@)]
      /\ cache' = Cached(m)
  BY DEF RouteToControllers, hubState, agentState
<1> HIDE DEF m
<1>3. /\ cache.files \in Nat /\ cache.content \in Nat
      /\ cache'.files \in {cache.files, m.ver} /\ cache'.content \in {cache.content, m.ver}
  BY <1>2 DEF RoutingTypeOK, Cached, CacheDirectoryListing, CacheFileContent
<1>4. NoNewer(m.ver)
  <2>1. m.ver <= disk.ver
    BY <1>1 DEF ResponsesInOrder, UpTo
  <2>2. Since(m.ver, asend)
    BY <1>1 DEF ResponsesInOrder, Precedes
  <2>3. cur \in Conns => Since(m.ver, up[cur])
    BY <1>1 DEF ResponsesInOrder, Precedes
  <2> QED
    BY <2>1, <2>2, <2>3 DEF NoNewer
<1>5. /\ ResponsesInOrder'
      /\ \A v \in Nat : NoNewer(v) => NoNewer(v)'
  <2>1. Suffix(asend', asend)
    BY <1>0, <1>2, SuffixCases DEF ChannelsOK
  <2>2. \A o \in Conns : Suffix(up'[o], up[o])
    BY <1>0, <1>1, <1>2, SuffixCases DEF ChannelsOK
  <2>3. disk.ver <= disk'.ver
    BY <1>0, <1>2 DEF ChannelsOK
  <2> QED
    BY <1>0, <1>2, <2>1, <2>2, <2>3, ShrinkKeeps
<1>6. CacheIsPast'
  <2>1. ASSUME NEW v \in {cache.files, cache.content, m.ver} PROVE NoNewer(v)'
    BY <1>1, <1>3, <1>4, <1>5 DEF CacheIsPast
  <2>2. PICK f \in Nat, g \in Nat :
           /\ f = cache'.files /\ f \in {cache.files, m.ver}
           /\ g = cache'.content /\ g \in {cache.content, m.ver}
    BY <1>1, <1>3
  <2>3. NoNewer(f)' /\ NoNewer(g)'
    BY <2>1, <2>2
  <2> QED
    BY <2>2, <2>3 DEF CacheIsPast, NoNewer
<1>7. ASSUME cur = n PROVE cache.files <= cache'.files /\ cache.content <= cache'.content
  <2>1. cache.files <= m.ver /\ cache.content <= m.ver
    BY <1>1, <1>7 DEF CacheIsPast, NoNewer, Since
  <2> QED
    BY <1>3, <2>1
<1> QED
  BY <1>5, <1>6, <1>7

\* The other steps take messages out of channels at most, and leave the cache alone.
LEMMA OtherOrder ==
    ASSUME ResponsesInOrder, ConnInv, RoutingTypeOK, RoutingTypeOK', [RoutingNext]_vars,
           ~ HandleRequest, ~ (WritePump /\ UNCHANGED routeVars),
           \A n \in Conns : ~ RouteToControllers(n)
    PROVE  /\ cache' = cache
           /\ ResponsesInOrder'
           /\ \A v \in Nat : NoNewer(v) => NoNewer(v)'
<1> DEFINE Shrinks ==
             /\ cache' = cache /\ disk.ver <= disk'.ver
             /\ asend' = asend \/ asend' = << >> \/ (asend # << >> /\ asend' = Tail(asend))
             /\ \A n \in Conns : up'[n] = up[n] \/ up'[n] = << >>
             /\ cur' = cur \/ cur' = NoConn \/ up'[cur'] = << >>
<1>0. /\ ChannelsOK /\ ChannelsOK' /\ disk.ver \in Nat
      /\ up \in [Conns -> Seq(Responses)] /\ reader \in [Conns -> {"closed", "auth", "registered", "open"}]
  BY ChannelsAreOK DEF RoutingTypeOK, RegistryTypeOK
<1>1. ASSUME NEW n \in Conns, RelayStep(n) PROVE Shrinks
  <2>1. CASE Register(n)
    <3>1. cur' = cur \/ (cur' = n /\ up[n] = << >>)
      BY <2>1 DEF Register, ConnInv, FreshConns
    <3> QED
      BY <1>0, <1>1, <2>1, <3>1 DEF RelayStep, Register, agentState, routeVars
  <2>2. CASE SendAuthAck(n)
    BY <1>0, <1>1, <2>2 DEF RelayStep, SendAuthAck, agentState, routeVars
  <2>3. CASE Unregister(n)
    BY <1>0, <1>1, <2>3 DEF RelayStep, Unregister, agentState, routeVars
  <2> QED
    BY <1>1, <2>1, <2>2, <2>3 DEF RelayStep
<1>2. ASSUME NEW r \in Requests, Forward(r) PROVE Shrinks
  BY <1>0, <1>2 DEF Forward, RelayDies, hubState, agentState
<1>3. ASSUME NEW r \in Requests, Check(r) \/ Lookup(r) \/ AnswerOffline(r) PROVE Shrinks
  BY <1>0, <1>3 DEF Check, Lookup, AnswerOffline, regVars, hubState, wires, agentState
<1>4. ASSUME AgentDials PROVE Shrinks
  BY <1>0, <1>4 DEF AgentDials, Dial
<1>5. ASSUME ReadAuthAck \/ Disconnect, UNCHANGED routeVars PROVE Shrinks
  BY <1>0, <1>5 DEF ReadAuthAck, Disconnect, hubState, routeVars
<1>6. ASSUME LocalChange PROVE Shrinks
  BY <1>0, <1>6 DEF LocalChange, regVars, hubState, wires, agentState
<1>7. ASSUME NEW k \in Controllers, (Join(k) /\ UNCHANGED routeVars) \/ SessionEnds(k) PROVE Shrinks
  BY <1>0, <1>7 DEF Join, SessionEnds, Leave, wires, agentState, routeVars
<1>8. ASSUME Environment PROVE Shrinks
  BY <1>0, <1>8 DEF Environment, Setup, Break, hubState, agentState, routeVars
<1>9. ASSUME UNCHANGED vars PROVE Shrinks
  BY <1>0, <1>9 DEF vars, regVars, hubState, wires, agentState, routeVars
<1>10. Shrinks
  BY <1>1, <1>2, <1>3, <1>4, <1>5, <1>6, <1>7, <1>8, <1>9 DEF RoutingNext
<1>11. Suffix(asend', asend) /\ \A n \in Conns : Suffix(up'[n], up[n])
  BY <1>0, <1>10, SuffixCases DEF ChannelsOK
<1> QED
  BY <1>0, <1>10, <1>11, ShrinkKeeps

\* Every step.
LEMMA OrderKept ==
    ASSUME OrderInv, RoutingTypeOK, RoutingTypeOK', FoundIsConn, [RoutingNext]_vars
    PROVE  /\ OrderInv'
           /\ (cache'.files < cache.files \/ cache'.content < cache.content)
                 => \E n \in Conns \ {cur} : up[n] # << >> /\ up'[n] = Tail(up[n])
<1>0. /\ cache.files \in Nat /\ cache.content \in Nat
      /\ cache'.files \in Nat /\ cache'.content \in Nat
  BY DEF RoutingTypeOK
<1>1. ConnInv'
  BY ConnsKept DEF OrderInv
<1>2. ASSUME cache' = cache, ResponsesInOrder', \A v \in Nat : NoNewer(v) => NoNewer(v)'
      PROVE  OrderInv' /\ ~ (cache'.files < cache.files \/ cache'.content < cache.content)
  <2>1. PICK f \in Nat, g \in Nat : f = cache.files /\ g = cache.content
    BY <1>0
  <2>2. NoNewer(f)' /\ NoNewer(g)'
    BY <1>2, <2>1 DEF OrderInv, CacheIsPast
  <2>3. CacheIsPast'
    BY <1>2, <2>1, <2>2 DEF CacheIsPast, NoNewer
  <2> QED
    BY <1>0, <1>1, <1>2, <2>3 DEF OrderInv
<1>3. CASE HandleRequest
  BY <1>2, <1>3, HandleOrder DEF HandleRequest, OrderInv
<1>4. CASE WritePump /\ UNCHANGED routeVars
  BY <1>2, <1>4, WriteOrder DEF OrderInv, routeVars
<1>5. ASSUME NEW n \in Conns, RouteToControllers(n)
      PROVE  /\ OrderInv'
             /\ (cache'.files < cache.files \/ cache'.content < cache.content)
                   => \E o \in Conns \ {cur} : up[o] # << >> /\ up'[o] = Tail(up[o])
  <2>1. /\ ResponsesInOrder' /\ CacheIsPast'
        /\ cur = n => cache.files <= cache'.files /\ cache.content <= cache'.content
    BY <1>5, ReportOrder DEF OrderInv
  <2>2. up[n] # << >> /\ up'[n] = Tail(up[n])
    BY <1>5 DEF RouteToControllers, RoutingTypeOK, RegistryTypeOK
  <2> QED
    BY <1>0, <1>1, <2>1, <2>2 DEF OrderInv
<1>6. CASE /\ ~ HandleRequest /\ ~ (WritePump /\ UNCHANGED routeVars)
           /\ \A n \in Conns : ~ RouteToControllers(n)
  BY <1>2, <1>6, OtherOrder DEF OrderInv
<1> QED
  BY <1>3, <1>4, <1>5, <1>6

\* The snapshot that offline browsing serves goes back to an older version only when
\* routeToControllers handles a late response of a connection that the device has
\* no more, whatever connections break and however often the agent reconnects.
THEOREM CacheRewindsAreLate == RoutingSafety => OnlyOldConnectionsRewind
<1> DEFINE Inv == RoutingTypeOK /\ FoundIsConn /\ OrderInv
           Rewinds == (cache'.files < cache.files \/ cache'.content < cache.content)
                         => \E n \in Conns \ {cur} : up[n] # << >> /\ up'[n] = Tail(up[n])
<1>1. RoutingInit => OrderInv
  <2> SUFFICES ASSUME RoutingInit PROVE OrderInv
    OBVIOUS
  <2>0. Len(<< >>) = 0
    BY EmptySeq
  <2>1. ConnInv
    BY <2>0 DEF RoutingInit, RegistryInit, ConnInv, OneLiveConn, FreshConns, Greeted, Acked
  <2>2. ResponsesInOrder
    BY <2>0, RegistryAssumption
       DEF RoutingInit, RegistryInit, ResponsesInOrder, Ordered, UpTo, Precedes, Since
  <2>3. CacheIsPast
    BY <2>0, RegistryAssumption
       DEF RoutingInit, RegistryInit, CacheIsPast, NoNewer, NoRow, Since
  <2> QED
    BY <2>1, <2>2, <2>3 DEF OrderInv
<1>2. Inv /\ [RoutingNext]_vars => Inv'
  BY TypesKept, OrderKept
<1>3. Inv /\ [RoutingNext]_vars => [Rewinds]_vars
  BY TypesKept, OrderKept
<1> QED
  BY <1>1, <1>2, <1>3, InitTypes, PTL DEF RoutingSafety, OnlyOldConnectionsRewind
=============================================================================
