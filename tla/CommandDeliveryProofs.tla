----------------------- MODULE CommandDeliveryProofs -----------------------
(***************************************************************************)
(* CommandDelivery for every set of commands, connections and processes    *)
(* and every number of faults: its types, that the agent in it is the      *)
(* agent of AgentWorker, and the properties of the queue at the relay.     *)
(***************************************************************************)
EXTENDS CommandDelivery, AgentWorkerProofs, SequenceTheorems, WellFoundedInduction

-----------------------------------------------------------------------------
(* Least and largest elements.                                             *)

\* The CommandId that comes first in ORDER BY is one of the list.
LEMMA LeastIsElement ==
    ASSUME NEW S, S \subseteq Nat, S # {}
    PROVE  Least(S) \in S /\ \A d \in S : Least(S) <= d
<1> DEFINE R == {ss \in Nat \X Nat : ss[1] < ss[2]}
<1>1. OpToRel(<, Nat) = R
  BY Zenon DEF OpToRel
<1>2. IsWellFoundedOn(R, Nat)
  BY <1>1, NatLessThanWellFounded, Zenon
<1> HIDE DEF R
<1>3. PICK x \in S : \A y \in S : ~ (<<y, x>> \in R)
  BY <1>2, WFMin
<1>4. ASSUME NEW y \in S PROVE x <= y
  <2>1. x \in Nat /\ y \in Nat
    OBVIOUS
  <2>2. y < x => <<y, x>> \in R
    BY <2>1 DEF R
  <2> QED
    BY <1>3, <2>1, <2>2
<1> QED
  BY <1>4 DEF Least

\* Of the results of one command, one is of the latest attempt.
LEMMA LargestExists ==
    ASSUME NEW N \in Nat, NEW S, S \subseteq 1 .. N, S # {}
    PROVE  \E x \in S : \A y \in S : y <= x
<1> DEFINE T == {k \in Nat : \E s \in S : k = N - s}
<1>1. T \subseteq Nat /\ T # {}
  <2>1. PICK s \in S : TRUE
    OBVIOUS
  <2>2. N - s \in T
    BY <2>1
  <2> QED
    BY <2>2
<1>2. Least(T) \in T /\ \A d \in T : Least(T) <= d
  BY <1>1, LeastIsElement
<1>3. PICK x \in S : Least(T) = N - x
  BY <1>2
<1>4. ASSUME NEW y \in S PROVE y <= x
  <2>1. N - y \in T
    OBVIOUS
  <2> QED
    BY <1>2, <1>3, <2>1
<1> QED
  BY <1>4

-----------------------------------------------------------------------------
(* The inductive invariant of the types.                                   *)

\* CMD_RESULT carries one result.
Reports == {m \in ToRelay : m.type = "CMD_RESULT" => \E r \in Results : m.results = {r}}
OneResult == asend \in Seq(Reports) /\ up \in [Conns -> Seq(Reports)]

\* A flush under way has commands left and, once it has looked it up, a connection
\* to send them on.
FlushHasWork ==
    \A n \in Conns :
        /\ reader[n] \in {"flushFind", "flushSend", "flushMark"} => work[n].cmds # {}
        /\ reader[n] \in {"flushSend", "flushMark"} => work[n].target \in Conns

\* A handler that found the agent holds a connection.
HandlerHasConn == \A c \in Commands : handler[c] = "found" => found[c] \in Conns

DInv == DeliveryTypeOK /\ IInv /\ OneResult /\ FlushHasWork /\ HandlerHasConn

-----------------------------------------------------------------------------
(* What one step may do to the channels.                                   *)

\* Appending to, or dropping the first of, the messages of one connection.
LEMMA ChannelTypes ==
    ASSUME NEW M, NEW q \in [Conns -> Seq(M)], NEW n \in Conns
    PROVE  /\ \A m \in M : [q EXCEPT ![n] = Append(@, m)] \in [Conns -> Seq(M)]
           /\ q[n] # << >> => [q EXCEPT ![n] = Tail(@)] \in [Conns -> Seq(M)]
           /\ [q EXCEPT ![n] = << >>] \in [Conns -> Seq(M)]
<1>1. \A m \in M : Append(q[n], m) \in Seq(M)
  BY AppendProperties
<1>2. q[n] # << >> => Tail(q[n]) \in Seq(M)
  BY HeadTailProperties
<1>3. << >> \in Seq(M)
  BY EmptySeq
<1> QED
  BY <1>1, <1>2, <1>3

\* The same for one channel.
LEMMA SeqTypes ==
    ASSUME NEW M, NEW q \in Seq(M)
    PROVE  /\ \A m \in M : Append(q, m) \in Seq(M)
           /\ q # << >> => Tail(q) \in Seq(M) /\ Head(q) \in M
           /\ << >> \in Seq(M)
BY EmptySeq, HeadTailProperties, AppendProperties

\* The envelopes that a step of the relay may send.
Outgoing ==
    {AuthAck} \cup {SyncResp(work[n].acks, work[n].cmds) : n \in Conns}
    \cup {DispatchCmd(c) : c \in {d \in Commands :
             handler[d] = "found" \/ \E n \in Conns : d \in work[n].cmds}}
    \cup {ResultAck(c) : c \in {d \in Commands : \E k \in AttemptNos : <<d, k>> \in received'}}

DownStep ==
    \/ /\ down' = [n \in Conns |-> down'[n]]
       /\ \A n \in Conns : \/ down'[n] = down[n]
                           \/ down'[n] = << >>
                           \/ down[n] # << >> /\ down'[n] = Tail(down[n])
    \/ \E n \in Conns, m \in Outgoing : down' = Sent(n, m)

\* If what a step sends is of a kind, so is what the channels hold after it.
LEMMA DownIn ==
    ASSUME NEW M, down \in [Conns -> Seq(M)], DownStep, Outgoing \subseteq M
    PROVE  down' \in [Conns -> Seq(M)]
<1>1. CASE /\ down' = [n \in Conns |-> down'[n]]
           /\ \A n \in Conns : \/ down'[n] = down[n]
                               \/ down'[n] = << >>
                               \/ down[n] # << >> /\ down'[n] = Tail(down[n])
  <2>1. \A n \in Conns : down'[n] \in Seq(M)
    <3> SUFFICES ASSUME NEW n \in Conns PROVE down'[n] \in Seq(M)
      OBVIOUS
    <3>1. down[n] \in Seq(M)
      OBVIOUS
    <3>2. << >> \in Seq(M) /\ (down[n] # << >> => Tail(down[n]) \in Seq(M))
      BY <3>1, SeqTypes
    <3> QED
      BY <1>1, <3>1, <3>2
  <2> QED
    BY <1>1, <2>1
<1>2. CASE \E n \in Conns, m \in Outgoing : down' = Sent(n, m)
  BY <1>2, ChannelTypes DEF Sent
<1> QED
  BY <1>1, <1>2 DEF DownStep

\* The envelopes that a step of the agent may queue.
Produced ==
    {SyncReq(S) : S \in SUBSET Unsynced}
    \cup {[type |-> "CMD_RESULT", results |-> {<<cur[p], att[p], exit[p]>>}] :
             p \in {q \in Processes : pc[q] = "onResult"}}

AsendStep ==
    \/ asend' = asend
    \/ asend' = << >>
    \/ asend # << >> /\ asend' = Tail(asend)
    \/ \E m \in Produced : asend' = Queued(asend, m)

UpStep ==
    /\ up' = [n \in Conns |-> up'[n]]
    /\ \A n \in Conns : \/ up'[n] = up[n]
                        \/ up'[n] = << >>
                        \/ up[n] # << >> /\ up'[n] = Tail(up[n])
                        \/ asend # << >> /\ up'[n] = Append(up[n], Head(asend))

\* The same for the way to the relay.
LEMMA UpIn ==
    ASSUME NEW M, asend \in Seq(M), up \in [Conns -> Seq(M)], AsendStep, UpStep, Produced \subseteq M
    PROVE  asend' \in Seq(M) /\ up' \in [Conns -> Seq(M)]
<1>1. asend' \in Seq(M)
  <2>1. << >> \in Seq(M) /\ (asend # << >> => Tail(asend) \in Seq(M))
    BY SeqTypes
  <2>2. \A m \in Produced : Append(asend, m) \in Seq(M)
    BY SeqTypes
  <2> QED
    BY <2>1, <2>2 DEF AsendStep, Queued
<1>2. ASSUME NEW n \in Conns PROVE up'[n] \in Seq(M)
  <2>1. up[n] \in Seq(M) /\ (asend # << >> => Head(asend) \in M)
    BY SeqTypes
  <2>2. << >> \in Seq(M) /\ (up[n] # << >> => Tail(up[n]) \in Seq(M))
    BY <2>1, SeqTypes
  <2>3. asend # << >> => Append(up[n], Head(asend)) \in Seq(M)
    BY <2>1, SeqTypes
  <2> QED
    BY <2>1, <2>2, <2>3 DEF UpStep
<1> QED
  BY <1>1, <1>2 DEF UpStep

\* The agent's goroutines leave the relay's tables and handlers alone.
LEMMA AgentLeavesRelay ==
    ASSUME NEW p \in Processes,
           \/ Work(p) \/ ReportResult(p) \/ ReadAuthAck(p) \/ HandleIncoming(p) \/ Disconnect(p)
           \/ WritePump(p) \/ AgentStops(p)
    PROVE  UNCHANGED <<rstatus, rows, audit, agentConn, handler, found, reader, work, received,
                       cancelled, breaks, restarts>>
BY DEF Work, ReportResult, ReadAuthAck, HandleIncoming, Disconnect, WritePump, AgentStops,
       deliveryVars, relayVars, hubVars, histVars, faultVars

\* The relay's goroutines, the network and a new connection leave the agent's
\* tables, its worker and its send channel alone.
LEMMA RelayLeavesAgent ==
    ASSUME \/ \E c \in Commands : Handle(c)
           \/ \E n \in Conns : Read(n) \/ Break(n)
           \/ RelayCrash
           \/ \E p \in Processes, n \in Conns : Dial(p, n)
    PROVE  UNCHANGED <<vars, asend, synced>>
<1>1. ASSUME NEW c \in Commands, Handle(c) PROVE UNCHANGED <<vars, asend, synced>>
  BY <1>1 DEF Handle, EnqueueCommand, FindAgent, DispatchLive, RelayDies, MarkLive, PurgeQueue,
              AnswerPredefined, FinishSandbox, clientVars
<1>2. ASSUME NEW n \in Conns, Read(n) PROVE UNCHANGED <<vars, asend, synced>>
  BY <1>2 DEF Read, Register, SendAuthAck, ReadPending, FlushFind, FlushSend, RelayDies, FlushMark,
              HandleCmdResult, HandleSyncReq, SendSyncResp, Unregister, clientVars
<1>3. ASSUME \/ \E n \in Conns : Break(n)
             \/ RelayCrash
             \/ \E p \in Processes, n \in Conns : Dial(p, n)
      PROVE UNCHANGED <<vars, asend, synced>>
  BY <1>3 DEF Break, RelayCrash, RelayDies, Dial, clientVars
<1> QED
  BY <1>1, <1>2, <1>3

\* The steps of RunOnce and of the agent's start leave the connections alone.
LEMMA WorkLeavesNet ==
    ASSUME NEW p \in Processes, Work(p) \/ ReportResult(p)
    PROVE  UNCHANGED <<link, down, up, aconn, serving, synced>>
BY DEF Work, ReportResult, deliveryVars, netVars, clientVars

\* The channels to the agent.
LEMMA DownSteps ==
    ASSUME DInv, [DeliveryNext]_allVars
    PROVE  DownStep
<1> USE DEF DInv, DeliveryTypeOK
<1>1. ASSUME down' = down PROVE DownStep
  BY <1>1 DEF DownStep
<1>2. ASSUME NEW n \in Conns,
             \/ down' = [down EXCEPT ![n] = << >>]
             \/ down[n] # << >> /\ down' = [down EXCEPT ![n] = Tail(@)]
      PROVE  DownStep
  BY <1>2 DEF DownStep
<1>3. ASSUME NEW c \in Commands, Handle(c) PROVE DownStep
  <2>1. CASE DispatchLive(c)
    <3>1. CASE down' = Sent(found[c], DispatchCmd(c))
      <4>1. DispatchCmd(c) \in Outgoing /\ found[c] \in Conns
        BY <2>1 DEF DispatchLive, Outgoing, HandlerHasConn
      <4> QED
        BY <3>1, <4>1 DEF DownStep
    <3> QED
      BY <1>1, <2>1, <3>1 DEF DispatchLive, RelayDies, netVars
  <2> QED
    BY <1>1, <1>3, <2>1 DEF Handle, EnqueueCommand, FindAgent, MarkLive, PurgeQueue,
                            AnswerPredefined, FinishSandbox, netVars
<1>4. ASSUME NEW n \in Conns, Read(n) PROVE DownStep
  <2>1. CASE SendAuthAck(n)
    BY <2>1 DEF SendAuthAck, DownStep, Outgoing
  <2>2. CASE FlushSend(n)
    <3> DEFINE c == Least(work[n].cmds)
    <3>1. CASE down' = Sent(work[n].target, DispatchCmd(c))
      <4>1. work[n].cmds \subseteq Nat /\ work[n].cmds # {} /\ work[n].target \in Conns
        BY <2>2, CommandsAssumption DEF FlushSend, FlushHasWork
      <4>2. c \in work[n].cmds /\ c \in Commands
        BY <4>1, LeastIsElement
      <4>3. DispatchCmd(c) \in Outgoing
        BY <4>2 DEF Outgoing
      <4> QED
        BY <3>1, <4>1, <4>3 DEF DownStep
    <3> QED
      BY <1>1, <2>2, <3>1 DEF FlushSend, RelayDies
  <2>3. CASE HandleCmdResult(n)
    <3> DEFINE r == CHOOSE x \in Head(up[n]).results : TRUE
    <3>1. r \in Results
      <4>1. Head(up[n]) \in Reports
        BY <2>3, SeqTypes DEF HandleCmdResult, OneResult
      <4> QED
        BY <2>3, <4>1 DEF HandleCmdResult, Reports
    <3>2. r[1] \in Commands /\ r[2] \in AttemptNos /\ <<r[1], r[2]>> \in received'
      BY <2>3, <3>1 DEF HandleCmdResult, Results
    <3>3. ResultAck(r[1]) \in Outgoing /\ down' = Sent(n, ResultAck(r[1]))
      BY <2>3, <3>2 DEF HandleCmdResult, Outgoing
    <3> QED
      BY <3>3 DEF DownStep
  <2>4. CASE SendSyncResp(n)
    BY <2>4 DEF SendSyncResp, DownStep, Outgoing
  <2> QED
    BY <1>1, <1>4, <2>1, <2>2, <2>3, <2>4
       DEF Read, Register, ReadPending, FlushFind, FlushMark, HandleSyncReq, Unregister, netVars
<1>5. ASSUME NEW n \in Conns, Break(n) PROVE DownStep
  BY <1>1, <1>5 DEF Break
<1>6. ASSUME NEW p \in Processes, Work(p) \/ ReportResult(p) \/ WritePump(p) PROVE DownStep
  BY <1>1, <1>6, WorkLeavesNet DEF WritePump
<1>7. ASSUME NEW p \in Processes, Receive(p) PROVE DownStep
  <2>1. ASSUME NEW n \in Conns, Dial(p, n) PROVE DownStep
    BY <1>2, <2>1 DEF Dial
  <2>2. CASE ReadAuthAck(p) \/ HandleIncoming(p) \/ Disconnect(p)
    <3>1. aconn \in Conns
      BY <2>2 DEF ReadAuthAck, HandleIncoming, Disconnect
    <3>2. \/ down' = [down EXCEPT ![aconn] = << >>]
          \/ down[aconn] # << >> /\ down' = [down EXCEPT ![aconn] = Tail(@)]
      BY <2>2 DEF ReadAuthAck, HandleIncoming, Disconnect
    <3> QED
      BY <1>2, <3>1, <3>2
  <2> QED
    BY <1>7, <2>1, <2>2 DEF Receive
<1>8. ASSUME NEW p \in Processes, AgentStops(p) PROVE DownStep
  BY <1>8 DEF AgentStops, DownStep
<1>9. CASE RelayCrash \/ UNCHANGED allVars
  BY <1>1, <1>9 DEF RelayCrash, RelayDies, allVars, deliveryVars, netVars
<1> QED
  BY <1>3, <1>4, <1>5, <1>6, <1>7, <1>8, <1>9 DEF DeliveryNext

\* The agent's send channel and the channels to the relay.
LEMMA UpSteps ==
    ASSUME DInv, [DeliveryNext]_allVars
    PROVE  AsendStep /\ UpStep
<1> USE DEF DInv, DeliveryTypeOK
<1>1. ASSUME up' = up PROVE UpStep
  BY <1>1 DEF UpStep
<1>2. ASSUME up' = [n \in Conns |-> << >>] PROVE UpStep
  BY <1>2 DEF UpStep
<1>3. ASSUME NEW n \in Conns,
             \/ up' = [up EXCEPT ![n] = << >>]
             \/ up[n] # << >> /\ up' = [up EXCEPT ![n] = Tail(@)]
             \/ asend # << >> /\ up' = [up EXCEPT ![n] = Append(@, Head(asend))]
      PROVE  UpStep
  BY <1>3 DEF UpStep
<1>4. ASSUME \/ \E c \in Commands : Handle(c)
             \/ \E n \in Conns : Read(n) \/ Break(n)
             \/ RelayCrash
             \/ \E p \in Processes, n \in Conns : Dial(p, n)
      PROVE  AsendStep
  BY <1>4, RelayLeavesAgent DEF AsendStep
<1>5. ASSUME NEW c \in Commands, Handle(c) PROVE UpStep
  BY <1>1, <1>2, <1>5 DEF Handle, EnqueueCommand, FindAgent, DispatchLive, RelayDies, MarkLive,
                          PurgeQueue, AnswerPredefined, FinishSandbox, netVars
<1>6. ASSUME NEW n \in Conns, Read(n) PROVE UpStep
  <2>1. \/ up' = up
        \/ up' = [m \in Conns |-> << >>]
        \/ up' = [up EXCEPT ![n] = << >>]
        \/ up[n] # << >> /\ up' = [up EXCEPT ![n] = Tail(@)]
    BY <1>6 DEF Read, Register, SendAuthAck, ReadPending, FlushFind, FlushSend, RelayDies, FlushMark,
                HandleCmdResult, HandleSyncReq, SendSyncResp, Unregister, netVars
  <2> QED
    BY <1>1, <1>2, <1>3, <2>1
<1>7. ASSUME \/ RelayCrash
             \/ \E n \in Conns : Break(n)
             \/ \E p \in Processes, n \in Conns : Dial(p, n)
      PROVE  UpStep
  BY <1>1, <1>2, <1>7 DEF RelayCrash, RelayDies, Break, Dial
<1>8. ASSUME NEW p \in Processes, Work(p) \/ ReportResult(p) PROVE AsendStep /\ UpStep
  <2>1. UpStep
    BY <1>1, <1>8, WorkLeavesNet
  <2>2. CASE Work(p)
    BY <2>1, <2>2 DEF Work, deliveryVars, clientVars, AsendStep
  <2>3. CASE ReportResult(p)
    <3>1. pc[p] = "onResult"
      BY <2>3 DEF ReportResult, OnResult
    <3>2. [type |-> "CMD_RESULT", results |-> {<<cur[p], att[p], exit[p]>>}] \in Produced
      BY <3>1 DEF Produced
    <3> QED
      BY <2>1, <2>3, <3>2 DEF ReportResult, AsendStep
  <2> QED
    BY <1>8, <2>1, <2>2, <2>3
<1>9. ASSUME NEW p \in Processes, ReadAuthAck(p) PROVE AsendStep /\ UpStep
  <2>1. UpStep
    BY <1>1, <1>9 DEF ReadAuthAck
  <2>2. asend' = asend \/ \E S \in Batches : asend' = Queued(asend, SyncReq(S))
    BY <1>9 DEF ReadAuthAck
  <2>3. \A S \in Batches : SyncReq(S) \in Produced
    BY DEF Batches, Produced
  <2> QED
    BY <2>1, <2>2, <2>3 DEF AsendStep
<1>10. ASSUME NEW p \in Processes, HandleIncoming(p) \/ Disconnect(p) \/ AgentStops(p)
       PROVE  AsendStep /\ UpStep
  BY <1>1, <1>10 DEF HandleIncoming, Disconnect, AgentStops, AsendStep
<1>11. ASSUME NEW p \in Processes, WritePump(p) PROVE AsendStep /\ UpStep
  <2>1. UpStep
    BY <1>1, <1>3, <1>11 DEF WritePump
  <2> QED
    BY <1>11, <2>1 DEF WritePump, AsendStep
<1>12. CASE UNCHANGED allVars
  BY <1>1, <1>12 DEF allVars, deliveryVars, netVars, clientVars, AsendStep
<1> QED
  BY <1>4, <1>5, <1>6, <1>7, <1>8, <1>9, <1>10, <1>11, <1>12 DEF DeliveryNext, Receive

-----------------------------------------------------------------------------
(* The agent in the system is the agent of AgentWorker.                    *)

\* Every step of the system is a step of the agent's queue and worker, or leaves
\* them alone: the commands of a message are commands, and nobody else writes.
LEMMA StepOfWorker ==
    ASSUME DInv, [DeliveryNext]_allVars
    PROVE  [Next]_vars
<1>1. CASE \/ \E c \in Commands : Handle(c)
           \/ \E n \in Conns : Read(n) \/ Break(n)
           \/ RelayCrash
           \/ \E p \in Processes, n \in Conns : Dial(p, n)
  BY <1>1, RelayLeavesAgent
<1>2. ASSUME NEW p \in Processes, Work(p) \/ ReportResult(p) \/ AgentStops(p) PROVE [Next]_vars
  BY <1>2 DEF Work, ReportResult, AgentStops, Next, RunOnce
<1>3. ASSUME NEW p \in Processes, ReadAuthAck(p) \/ Disconnect(p) \/ WritePump(p)
      PROVE  [Next]_vars
  BY <1>3 DEF ReadAuthAck, Disconnect, WritePump
<1>4. ASSUME NEW p \in Processes, HandleIncoming(p) PROVE [Next]_vars
  <2>1. aconn \in Conns /\ down[aconn] \in Seq(ToAgent) /\ down[aconn] # << >>
    BY <1>4 DEF HandleIncoming, DInv, DeliveryTypeOK
  <2>2. Head(down[aconn]).cmds \in SUBSET Commands
    <3>1. Head(down[aconn]) \in ToAgent
      BY <2>1, SeqTypes
    <3> QED
      BY <3>1 DEF ToAgent
  <2>3. \E S \in SUBSET Commands : EnqueueWithID(S)
    BY <1>4, <2>2 DEF HandleIncoming
  <2> QED
    BY <2>3 DEF Next
<1>5. CASE UNCHANGED allVars
  BY <1>5 DEF allVars
<1> QED
  BY <1>1, <1>2, <1>3, <1>4, <1>5 DEF DeliveryNext, Receive

-----------------------------------------------------------------------------
(* Types.                                                                  *)

\* The channels.
LEMMA ChannelsKept ==
    ASSUME DInv, [DeliveryNext]_allVars, received' \subseteq Commands \X AttemptNos
    PROVE  /\ down' \in [Conns -> Seq(ToAgent)] /\ OneResult'
           /\ asend' \in Seq(ToRelay) /\ up' \in [Conns -> Seq(ToRelay)]
<1>1. down' \in [Conns -> Seq(ToAgent)]
  <2>1. \A n \in Conns : work[n].acks \in SUBSET Commands /\ work[n].cmds \in SUBSET Commands
    BY DEF DInv, DeliveryTypeOK
  <2>2. Outgoing \subseteq ToAgent
    BY <2>1 DEF Outgoing, ToAgent, AuthAck, SyncResp, DispatchCmd, ResultAck
  <2>3. down \in [Conns -> Seq(ToAgent)]
    BY DEF DInv, DeliveryTypeOK
  <2> QED
    BY <2>2, <2>3, DownSteps, DownIn
<1>2. OneResult'
  <2>1. \A S \in SUBSET Unsynced : SyncReq(S) \in Reports
    BY DEF SyncReq, Unsynced, Reports, ToRelay
  <2>2. ASSUME NEW p \in Processes, pc[p] = "onResult"
        PROVE  [type |-> "CMD_RESULT", results |-> {<<cur[p], att[p], exit[p]>>}] \in Reports
    <3>1. <<cur[p], att[p], exit[p]>> \in Results
      BY <2>2 DEF DInv, IInv, ClaimIsPast, ExitIsKnown, Busy, Results
    <3> QED
      BY <3>1 DEF Reports, ToRelay
  <2>3. Produced \subseteq Reports
    BY <2>1, <2>2 DEF Produced
  <2>4. asend \in Seq(Reports) /\ up \in [Conns -> Seq(Reports)]
    BY DEF DInv, OneResult
  <2> QED
    BY <2>3, <2>4, UpSteps, UpIn DEF OneResult
<1>3. Reports \subseteq ToRelay
  BY DEF Reports
<1>4. asend' \in Seq(ToRelay)
  BY <1>2, <1>3, SeqMonotonic DEF OneResult
<1>5. \A n \in Conns : up'[n] \in Seq(ToRelay)
  <2> SUFFICES ASSUME NEW n \in Conns PROVE up'[n] \in Seq(ToRelay)
    OBVIOUS
  <2>1. up'[n] \in Seq(Reports)
    BY <1>2 DEF OneResult
  <2> QED
    BY <1>3, <2>1, SeqMonotonic
<1> QED
  BY <1>1, <1>2, <1>4, <1>5 DEF OneResult

\* What a CMD_RESULT and a SYNC_REQ bring.
LEMMA ArrivedTypes ==
    ASSUME DInv, NEW n \in Conns, up[n] # << >>
    PROVE  /\ Head(up[n]).results \subseteq Results
           /\ Head(up[n]).type = "CMD_RESULT" =>
                 LET r == CHOOSE x \in Head(up[n]).results : TRUE IN
                   /\ Head(up[n]).results = {r}
                   /\ r \in Results /\ r[1] \in Commands /\ r[2] \in AttemptNos /\ r[3] \in ExitCodes
<1>1. Head(up[n]) \in Reports
  BY SeqTypes DEF DInv, OneResult
<1>2. Head(up[n]).results \subseteq Results
  BY <1>1 DEF Reports, ToRelay
<1> QED
  BY <1>1, <1>2 DEF Reports, Results

\* The relay's tables.
LEMMA TablesKept ==
    ASSUME DInv, [DeliveryNext]_allVars
    PROVE  /\ rstatus' \in [Commands -> RelayStatuses]
           /\ rows' \in [Commands -> SUBSET (RowKeys \X RowKeys)]
           /\ audit' \in [Commands -> {"none", "CLOUD_EXEC", "CLOUD_SCRIPT_EXEC", "EXEC_CMD"}]
           /\ received' \subseteq Commands \X AttemptNos
           /\ cancelled' \subseteq Commands
           /\ breaks' \in Nat /\ restarts' \in Nat
<1> DEFINE Tables == /\ rstatus' \in [Commands -> RelayStatuses]
                     /\ rows' \in [Commands -> SUBSET (RowKeys \X RowKeys)]
                     /\ audit' \in [Commands -> {"none", "CLOUD_EXEC", "CLOUD_SCRIPT_EXEC", "EXEC_CMD"}]
                     /\ received' \subseteq Commands \X AttemptNos
                     /\ cancelled' \subseteq Commands
                     /\ breaks' \in Nat /\ restarts' \in Nat
<1> USE DEF DInv, DeliveryTypeOK
<1>1. /\ {"NONE", "PENDING", "DISPATCHED", "COMPLETED", "FAILED"} \subseteq RelayStatuses
      /\ ById \in RowKeys /\ Cloud \in RowKeys /\ AttemptNos \subseteq RowKeys
      /\ \A e : StatusOfExit(e) \in {"COMPLETED", "FAILED"}
  BY DEF RelayStatuses, Terminal, RowKeys, Cloud, ById, StatusOfExit
<1>2. ASSUME NEW c \in Commands, NEW a \in {"CLOUD_EXEC", "CLOUD_SCRIPT_EXEC", "EXEC_CMD"},
             RecordAuditLog(c, a)
      PROVE  audit' \in [Commands -> {"none", "CLOUD_EXEC", "CLOUD_SCRIPT_EXEC", "EXEC_CMD"}]
  BY <1>2 DEF RecordAuditLog, SupabaseRecordAuditLog
<1>3. ASSUME NEW c \in Commands, NEW k \in RowKeys, rows' = [rows EXCEPT ![c] = Upsert(@, ById, k)]
      PROVE  rows' \in [Commands -> SUBSET (RowKeys \X RowKeys)]
  <2>1. Upsert(rows[c], ById, k) \in SUBSET (RowKeys \X RowKeys)
    BY <1>1 DEF Upsert, ResultKey
  <2> QED
    BY <1>3, <2>1
<1>4. ASSUME NEW S, MarkCommandDispatched(S) PROVE rstatus' \in [Commands -> RelayStatuses]
  BY <1>1, <1>4 DEF MarkCommandDispatched, SupabaseMarkDispatched
<1>5. ASSUME UNCHANGED <<rstatus, rows, audit, received, cancelled, breaks, restarts>> PROVE Tables
  BY <1>5
<1>6. ASSUME NEW c \in Commands, Handle(c) PROVE Tables
  <2>1. CASE EnqueueCommand(c)
    BY <1>1, <2>1 DEF EnqueueCommand, histVars, faultVars
  <2>2. CASE FindAgent(c) \/ DispatchLive(c)
    BY <1>5, <2>2 DEF FindAgent, DispatchLive, RelayDies, relayVars, histVars, faultVars
  <2>3. CASE MarkLive(c)
    BY <1>4, <2>3 DEF MarkLive, histVars, faultVars
  <2>4. CASE PurgeQueue(c)
    BY <1>1, <2>4 DEF PurgeQueue, Purged, faultVars
  <2>5. CASE AnswerPredefined(c)
    BY <1>1, <1>2, <1>3, <2>5 DEF AnswerPredefined, histVars, faultVars
  <2>6. CASE FinishSandbox(c)
    <3>1. SandboxStatus(c) \in RelayStatuses
      BY <1>1 DEF SandboxStatus
    <3> QED
      BY <1>1, <1>2, <1>3, <2>6, <3>1 DEF FinishSandbox, histVars, faultVars
  <2> QED
    BY <1>6, <2>1, <2>2, <2>3, <2>4, <2>5, <2>6 DEF Handle
<1>7. ASSUME NEW n \in Conns, Read(n) PROVE Tables
  <2>1. CASE FlushMark(n)
    BY <1>4, <2>1 DEF FlushMark, histVars, faultVars
  <2>2. CASE HandleCmdResult(n)
    <3> DEFINE r == CHOOSE x \in Head(up[n]).results : TRUE
    <3>1. r[1] \in Commands /\ r[2] \in AttemptNos
      BY <2>2, ArrivedTypes DEF HandleCmdResult
    <3>2. rows' = [rows EXCEPT ![r[1]] = Upsert(@, ById, r[2])] /\ RecordAuditLog(r[1], "EXEC_CMD")
      BY <2>2 DEF HandleCmdResult
    <3>3. rstatus' = [rstatus EXCEPT ![r[1]] = IF @ = "NONE" THEN @ ELSE StatusOfExit(r[3])]
      BY <2>2 DEF HandleCmdResult
    <3>4. received' = received \cup {<<r[1], r[2]>>} /\ UNCHANGED <<cancelled, breaks, restarts>>
      BY <2>2 DEF HandleCmdResult, faultVars
    <3> HIDE DEF r
    <3>5. rstatus' \in [Commands -> RelayStatuses]
      BY <1>1, <3>1, <3>3
    <3>6. rows' \in [Commands -> SUBSET (RowKeys \X RowKeys)]
      BY <1>1, <1>3, <3>1, <3>2
    <3>7. received' \subseteq Commands \X AttemptNos
      BY <3>1, <3>4
    <3> QED
      BY <1>2, <3>1, <3>2, <3>4, <3>5, <3>6, <3>7
  <2>3. CASE HandleSyncReq(n)
    <3> DEFINE R == Head(up[n]).results
    <3>1. R \subseteq Results
      BY <2>3, ArrivedTypes DEF HandleSyncReq
    <3>2. rstatus' \in [Commands -> RelayStatuses]
      <4>1. \A c \in Commands : SyncedStatus(c, R) \in RelayStatuses
        BY <1>1 DEF SyncedStatus
      <4> QED
        BY <1>1, <2>3, <4>1 DEF HandleSyncReq
    <3>3. rows' \in [Commands -> SUBSET (RowKeys \X RowKeys)]
      <4>1. \A c \in Commands : {r[2] : r \in {x \in R : x[1] = c}} \subseteq RowKeys
        BY <1>1, <3>1 DEF Results
      <4> QED
        BY <2>3, <4>1 DEF HandleSyncReq
    <3>4. received' \subseteq Commands \X AttemptNos
      BY <2>3, <3>1 DEF HandleSyncReq, Results
    <3> QED
      BY <2>3, <3>2, <3>3, <3>4 DEF HandleSyncReq, faultVars
  <2>4. CASE \/ Register(n) \/ SendAuthAck(n) \/ ReadPending(n) \/ FlushFind(n)
             \/ FlushSend(n) \/ SendSyncResp(n)
             \/ Unregister(n)
    BY <1>5, <2>4 DEF Register, SendAuthAck, ReadPending, FlushFind, FlushSend, RelayDies, SendSyncResp,
                      Unregister, relayVars, histVars, faultVars
  <2> QED
    BY <1>7, <2>1, <2>2, <2>3, <2>4 DEF Read
<1>8. ASSUME NEW n \in Conns, Break(n) PROVE Tables
  BY <1>8 DEF Break, relayVars, histVars
<1>9. ASSUME NEW p \in Processes, NEW n \in Conns, Dial(p, n) PROVE Tables
  BY <1>5, <1>9 DEF Dial, relayVars, histVars, faultVars
<1>10. CASE RelayCrash
  BY <1>10 DEF RelayCrash, RelayDies, relayVars, histVars
<1>11. CASE UNCHANGED allVars
  BY <1>5, <1>11 DEF allVars, deliveryVars, relayVars, histVars, faultVars
<1> QED
  BY <1>5, <1>6, <1>7, <1>8, <1>9, <1>10, <1>11, AgentLeavesRelay DEF DeliveryNext, Receive

\* The hub's connections and the handlers' local variables.
LEMMA HubKept ==
    ASSUME DInv, [DeliveryNext]_allVars
    PROVE  /\ agentConn' \in Conns \cup {NoConn}
           /\ handler' \in [Commands -> HandlerPhases]
           /\ found' \in [Commands -> Conns \cup {NoConn}]
           /\ reader' \in [Conns -> ReaderPhases]
           /\ work' \in [Conns -> [target : Conns \cup {NoConn},
                                   cmds : SUBSET Commands, acks : SUBSET Commands]]
           /\ FlushHasWork' /\ HandlerHasConn'
<1> DEFINE Works == [target : Conns \cup {NoConn}, cmds : SUBSET Commands, acks : SUBSET Commands]
           Hub == /\ agentConn' \in Conns \cup {NoConn}
                  /\ handler' \in [Commands -> HandlerPhases]
                  /\ found' \in [Commands -> Conns \cup {NoConn}]
                  /\ reader' \in [Conns -> ReaderPhases]
                  /\ work' \in [Conns -> Works]
                  /\ FlushHasWork' /\ HandlerHasConn'
<1>1. /\ agentConn \in Conns \cup {NoConn}
      /\ handler \in [Commands -> HandlerPhases]
      /\ found \in [Commands -> Conns \cup {NoConn}]
      /\ reader \in [Conns -> ReaderPhases]
      /\ work \in [Conns -> Works]
      /\ FlushHasWork /\ HandlerHasConn
  BY DEF DInv, DeliveryTypeOK
<1>2. NoWork \in Works
  BY DEF NoWork
<1>3. ASSUME UNCHANGED <<agentConn, handler, found, reader, work>> PROVE Hub
  BY <1>1, <1>3 DEF FlushHasWork, HandlerHasConn
<1>4. CASE RelayDies
  BY <1>1, <1>2, <1>4 DEF RelayDies, FlushHasWork, HandlerHasConn, HandlerPhases, ReaderPhases
<1>5. ASSUME NEW c \in Commands, Handle(c), ~ RelayDies PROVE Hub
  <2>1. /\ UNCHANGED <<agentConn, reader, work>>
        /\ \/ handler' = [handler EXCEPT ![c] = "found"] /\ agentConn # NoConn
              /\ found' = [found EXCEPT ![c] = agentConn]
           \/ /\ \E h \in HandlerPhases \ {"found"} : handler' = [handler EXCEPT ![c] = h]
              /\ found' = found \/ found' = [found EXCEPT ![c] = NoConn]
    BY <1>5 DEF Handle, EnqueueCommand, FindAgent, DispatchLive, MarkLive, PurgeQueue,
                AnswerPredefined, FinishSandbox, HandlerPhases
  <2>2. handler' \in [Commands -> HandlerPhases] /\ found' \in [Commands -> Conns \cup {NoConn}]
    BY <1>1, <2>1 DEF HandlerPhases
  <2>3. FlushHasWork'
    BY <1>1, <2>1 DEF FlushHasWork
  <2>4. HandlerHasConn'
    <3> SUFFICES ASSUME NEW d \in Commands, handler'[d] = "found" PROVE found'[d] \in Conns
      BY DEF HandlerHasConn
    <3>1. CASE d = c
      BY <1>1, <2>1, <3>1
    <3>2. CASE d # c
      BY <1>1, <2>1, <3>2 DEF HandlerHasConn
    <3> QED
      BY <3>1, <3>2
  <2> QED
    BY <1>1, <2>1, <2>2, <2>3, <2>4
<1>6. ASSUME NEW n \in Conns, NEW phase \in ReaderPhases, Goto(n, phase),
             UNCHANGED <<handler, found>>, agentConn' \in Conns \cup {NoConn},
             work' = work \/ \E w \in Works : work' = [work EXCEPT ![n] = w],
             phase \in {"flushFind", "flushSend", "flushMark"} => work'[n].cmds # {},
             phase \in {"flushSend", "flushMark"} => work'[n].target \in Conns
      PROVE  Hub
  <2>1. reader' = [reader EXCEPT ![n] = phase] /\ reader' \in [Conns -> ReaderPhases]
    BY <1>1, <1>6 DEF Goto
  <2>2. work' \in [Conns -> Works] /\ \A m \in Conns \ {n} : work'[m] = work[m]
    BY <1>1, <1>6
  <2>3. FlushHasWork'
    <3> SUFFICES ASSUME NEW m \in Conns
                 PROVE  /\ reader'[m] \in {"flushFind", "flushSend", "flushMark"} => work'[m].cmds # {}
                        /\ reader'[m] \in {"flushSend", "flushMark"} => work'[m].target \in Conns
      BY DEF FlushHasWork
    <3>1. CASE m = n
      BY <1>1, <1>6, <2>1, <3>1
    <3>2. CASE m # n
      BY <1>1, <2>1, <2>2, <3>2 DEF FlushHasWork
    <3> QED
      BY <3>1, <3>2
  <2> QED
    BY <1>1, <1>6, <2>1, <2>2, <2>3 DEF HandlerHasConn
<1>7. ASSUME NEW n \in Conns, Read(n), ~ RelayDies PROVE Hub
  <2>1. CASE Register(n) \/ SendAuthAck(n) \/ Unregister(n)
    BY <1>1, <1>6, <2>1 DEF Register, SendAuthAck, Unregister, ReaderPhases
  <2>2. CASE ReadPending(n)
    <3>1. CASE Goto(n, "open") /\ UNCHANGED work
      BY <1>1, <1>6, <2>2, <3>1 DEF ReadPending, ReaderPhases
    <3>2. CASE ~ (Goto(n, "open") /\ UNCHANGED work)
      <4> DEFINE P == GetPendingCommands(rstatus)
                 w == [work[n] EXCEPT !.cmds = P]
      <4>1. P # {} /\ Goto(n, "flushFind") /\ work' = [work EXCEPT ![n].cmds = P]
        BY <2>2, <3>2 DEF ReadPending
      <4>2. P \in SUBSET Commands
        BY DEF GetPendingCommands
      <4>3. w \in Works /\ w.cmds = P
        BY <1>1, <4>2
      <4>4. work' = [work EXCEPT ![n] = w] /\ work'[n] = w
        BY <1>1, <4>1
      <4>5. UNCHANGED <<handler, found>> /\ agentConn' = agentConn /\ "flushFind" \in ReaderPhases
        BY <2>2 DEF ReadPending, ReaderPhases
      <4> HIDE DEF w, P
      <4> QED
        BY <1>1, <1>6, <4>1, <4>3, <4>4, <4>5
    <3> QED
      BY <3>1, <3>2
  <2>3. CASE FlushSend(n)
    <3>1. Goto(n, "flushMark") /\ UNCHANGED <<agentConn, handler, found, work>>
      BY <1>7, <2>3 DEF FlushSend
    <3>2. work[n].cmds # {} /\ work[n].target \in Conns
      BY <1>1, <2>3 DEF FlushSend, FlushHasWork
    <3> QED
      BY <1>1, <1>6, <3>1, <3>2 DEF ReaderPhases
  <2>4. CASE FlushMark(n)
    <3> DEFINE rest == work[n].cmds \ {Least(work[n].cmds)}
               w == IF rest = {} THEN NoWork ELSE [work[n] EXCEPT !.cmds = rest]
               phase == IF rest = {} THEN "open" ELSE "flushSend"
    <3>1. Goto(n, phase) /\ work' = [work EXCEPT ![n] = w] /\ UNCHANGED <<agentConn, handler, found>>
      BY <2>4 DEF FlushMark
    <3>2. work[n] \in Works /\ work[n].target \in Conns
      BY <1>1, <2>4 DEF FlushMark, FlushHasWork
    <3>3. w \in Works /\ phase \in ReaderPhases
      BY <1>2, <3>2 DEF ReaderPhases
    <3>4. phase = "flushSend" => w.cmds # {} /\ w.target \in Conns
      BY <3>2
    <3>5. work'[n] = w /\ phase \in {"open", "flushSend"}
      BY <1>1, <3>1
    <3> HIDE DEF w, phase
    <3> QED
      BY <1>1, <1>6, <3>1, <3>3, <3>4, <3>5
  <2>5. CASE HandleCmdResult(n)
    BY <1>3, <2>5 DEF HandleCmdResult, hubVars
  <2>6. CASE HandleSyncReq(n)
    <3> DEFINE R == Head(up[n]).results
               S == {r[1] : r \in R}
               P == GetPendingCommands([c \in Commands |-> SyncedStatus(c, R)])
               w == [work[n] EXCEPT !.acks = S, !.cmds = P]
    <3>1. /\ Goto(n, "respond") /\ UNCHANGED <<agentConn, handler, found>>
          /\ work' = [work EXCEPT ![n].acks = S, ![n].cmds = P]
      BY <2>6 DEF HandleSyncReq
    <3>2. S \in SUBSET Commands /\ P \in SUBSET Commands
      <4>1. R \subseteq Results
        BY <2>6, ArrivedTypes DEF HandleSyncReq
      <4> QED
        BY <4>1 DEF Results, GetPendingCommands
    <3>3. w \in Works
      BY <1>1, <3>2
    <3>4. work' = [work EXCEPT ![n] = w]
      BY <1>1, <3>1
    <3> HIDE DEF w
    <3> QED
      BY <1>1, <1>6, <3>1, <3>3, <3>4 DEF ReaderPhases
  <2>7. CASE SendSyncResp(n)
    BY <1>1, <1>2, <1>6, <2>7 DEF SendSyncResp, ReaderPhases
  <2>8. CASE FlushFind(n)
    <3>1. UNCHANGED <<agentConn, handler, found>> /\ work[n].cmds # {}
      BY <1>1, <2>8 DEF FlushFind, FlushHasWork
    <3>2. CASE Goto(n, "open") /\ work' = [work EXCEPT ![n] = NoWork]
      BY <1>1, <1>2, <1>6, <3>1, <3>2 DEF ReaderPhases
    <3>3. CASE ~ (Goto(n, "open") /\ work' = [work EXCEPT ![n] = NoWork])
      <4> DEFINE w == [work[n] EXCEPT !.target = agentConn]
      <4>1. /\ agentConn \in Conns /\ Goto(n, "flushSend")
            /\ work' = [work EXCEPT ![n].target = agentConn]
        BY <1>1, <2>8, <3>3 DEF FlushFind
      <4>2. w \in Works /\ w.cmds = work[n].cmds /\ w.target = agentConn
        BY <1>1
      <4>3. work' = [work EXCEPT ![n] = w] /\ work'[n] = w /\ "flushSend" \in ReaderPhases
        BY <1>1, <4>1 DEF ReaderPhases
      <4> HIDE DEF w
      <4> QED
        BY <1>1, <1>6, <3>1, <4>1, <4>2, <4>3
    <3> QED
      BY <3>2, <3>3
  <2> QED
    BY <1>7, <2>1, <2>2, <2>3, <2>4, <2>5, <2>6, <2>7, <2>8 DEF Read
<1>8. ASSUME NEW p \in Processes, NEW n \in Conns, Dial(p, n) PROVE Hub
  BY <1>1, <1>6, <1>8 DEF Dial, ReaderPhases
<1>9. ASSUME NEW n \in Conns, Break(n) PROVE Hub
  BY <1>3, <1>9 DEF Break, hubVars
<1>10. CASE RelayCrash
  BY <1>4, <1>10 DEF RelayCrash
<1>11. CASE UNCHANGED allVars
  BY <1>3, <1>11 DEF allVars, deliveryVars, hubVars
<1> HIDE DEF Works
<1> QED
  BY <1>3, <1>4, <1>5, <1>7, <1>8, <1>9, <1>10, <1>11, AgentLeavesRelay
     DEF DeliveryNext, Receive, Works

\* The agent's netclient and the connections.
LEMMA ClientKept ==
    ASSUME DInv, [DeliveryNext]_allVars
    PROVE  /\ aconn' \in Conns \cup {NoConn} /\ serving' \in BOOLEAN
           /\ link' \in [Conns -> BOOLEAN]
           /\ synced' \in [Commands -> [AttemptNos -> BOOLEAN]]
<1>1. /\ aconn \in Conns \cup {NoConn} /\ serving \in BOOLEAN /\ link \in [Conns -> BOOLEAN]
      /\ synced \in [Commands -> [AttemptNos -> BOOLEAN]]
  BY DEF DInv, DeliveryTypeOK
<1>2. link' \in [Conns -> BOOLEAN] /\ aconn' \in Conns \cup {NoConn} /\ serving' \in BOOLEAN
  <2> DEFINE Net == /\ link' \in [Conns -> BOOLEAN]
                    /\ aconn' \in Conns \cup {NoConn} /\ serving' \in BOOLEAN
  <2>1. ASSUME NEW c \in Commands, Handle(c) PROVE Net
    BY <1>1, <2>1 DEF Handle, EnqueueCommand, FindAgent, DispatchLive, RelayDies, MarkLive,
                      PurgeQueue, AnswerPredefined, FinishSandbox, netVars, clientVars
  <2>2. ASSUME NEW n \in Conns, Read(n) PROVE Net
    <3>1. CASE Register(n)
      BY <1>1, <3>1 DEF Register, clientVars
    <3>2. CASE FlushSend(n) \/ Unregister(n)
      BY <1>1, <3>2 DEF FlushSend, RelayDies, Unregister, clientVars
    <3> QED
      BY <1>1, <2>2, <3>1, <3>2 DEF Read, SendAuthAck, ReadPending, FlushFind, FlushMark, HandleCmdResult,
                                    HandleSyncReq, SendSyncResp, netVars, clientVars
  <2>3. ASSUME NEW p \in Processes, Work(p) \/ ReportResult(p) \/ WritePump(p) PROVE Net
    BY <1>1, <2>3, WorkLeavesNet DEF WritePump
  <2>4. ASSUME NEW p \in Processes, Receive(p) \/ AgentStops(p) PROVE Net
    <3>1. CASE \E n \in Conns : Dial(p, n)
      BY <1>1, <3>1 DEF Dial
    <3>2. CASE ReadAuthAck(p)
      BY <1>1, <3>2 DEF ReadAuthAck
    <3>3. CASE HandleIncoming(p) \/ Disconnect(p) \/ AgentStops(p)
      BY <1>1, <3>3 DEF HandleIncoming, Disconnect, AgentStops
    <3> QED
      BY <2>4, <3>1, <3>2, <3>3 DEF Receive
  <2>5. ASSUME RelayCrash \/ (\E n \in Conns : Break(n)) \/ UNCHANGED allVars PROVE Net
    BY <1>1, <2>5 DEF RelayCrash, RelayDies, Break, allVars, deliveryVars, netVars, clientVars
  <2> QED
    BY <2>1, <2>2, <2>3, <2>4, <2>5 DEF DeliveryNext
<1>3. synced' \in [Commands -> [AttemptNos -> BOOLEAN]]
  <2>1. CASE synced' = synced
    BY <1>1, <2>1
  <2>2. ASSUME NEW p \in Processes, HandleIncoming(p)
        PROVE  synced' \in [Commands -> [AttemptNos -> BOOLEAN]]
    BY <1>1, <2>2 DEF HandleIncoming, MarkResultSynced
  <2>3. CASE \A p \in Processes : ~ HandleIncoming(p)
    <3>1. synced' = synced
      BY <2>3, RelayLeavesAgent, WorkLeavesNet
         DEF DeliveryNext, Receive, ReadAuthAck, Disconnect, WritePump, AgentStops, allVars,
             deliveryVars, clientVars
    <3> QED
      BY <2>1, <3>1
  <2> QED
    BY <2>2, <2>3
<1> QED
  BY <1>2, <1>3

\* Every step keeps the invariant.
LEMMA DInvKept == DInv /\ [DeliveryNext]_allVars => DInv'
<1> SUFFICES ASSUME DInv, [DeliveryNext]_allVars PROVE DInv'
  OBVIOUS
<1>1. IInv'
  BY StepOfWorker, NextKeeps DEF DInv
<1>2. TypeOK'
  BY <1>1 DEF IInv
<1> QED
  BY <1>1, <1>2, TablesKept, ChannelsKept, HubKept, ClientKept DEF DInv, DeliveryTypeOK

\* The empty queue at the relay, with no connection.
LEMMA DInvAtFirst == DeliveryInit => DInv
<1> SUFFICES ASSUME DeliveryInit PROVE DInv
  OBVIOUS
<1>1. IInv /\ TypeOK
  BY InitEstablishes DEF DeliveryInit, IInv
<1>2. << >> \in Seq(ToAgent) /\ << >> \in Seq(ToRelay) /\ << >> \in Seq(Reports)
  BY EmptySeq
<1>3. /\ down \in [Conns -> Seq(ToAgent)] /\ up \in [Conns -> Seq(ToRelay)]
      /\ asend \in Seq(ToRelay) /\ OneResult
  BY <1>2 DEF DeliveryInit, OneResult
<1>4. /\ work \in [Conns -> [target : Conns \cup {NoConn}, cmds : SUBSET Commands, acks : SUBSET Commands]]
      /\ reader \in [Conns -> ReaderPhases] /\ handler \in [Commands -> HandlerPhases]
      /\ found \in [Commands -> Conns \cup {NoConn}] /\ agentConn \in Conns \cup {NoConn}
      /\ FlushHasWork /\ HandlerHasConn
  BY DEF DeliveryInit, NoWork, ReaderPhases, HandlerPhases, FlushHasWork, HandlerHasConn
<1>5. /\ link \in [Conns -> BOOLEAN] /\ serving \in BOOLEAN /\ aconn \in Conns \cup {NoConn}
      /\ synced \in [Commands -> [AttemptNos -> BOOLEAN]]
  BY DEF DeliveryInit
<1>6. /\ rstatus \in [Commands -> RelayStatuses] /\ rows \in [Commands -> SUBSET (RowKeys \X RowKeys)]
      /\ audit \in [Commands -> {"none", "CLOUD_EXEC", "CLOUD_SCRIPT_EXEC", "EXEC_CMD"}]
      /\ received \subseteq Commands \X AttemptNos /\ cancelled \subseteq Commands
      /\ breaks \in Nat /\ restarts \in Nat
  BY DEF DeliveryInit, RelayStatuses
<1> QED
  BY <1>1, <1>3, <1>4, <1>5, <1>6 DEF DInv, DeliveryTypeOK

\* The tables, the channels and the local variables of all goroutines keep their
\* types, with either backend, whoever crashes and whatever is lost.
THEOREM DeliveryTypes == DeliverySafety => []DeliveryTypeOK
<1>1. DInv => DeliveryTypeOK
  BY DEF DInv
<1> QED
  BY <1>1, DInvAtFirst, DInvKept, PTL DEF DeliverySafety

\* The whole system implements the specification of the agent: what is proved of
\* AgentWorker's queue and worker (attempts, claims, saved results) holds of the
\* agent that the relay drives, over any connection and any redelivery.
THEOREM AgentInTheSystem == DeliverySafety => Safety
<1>1. DInv /\ [DeliveryNext]_allVars => [Next]_vars
  BY StepOfWorker
<1>2. DeliveryInit => Init
  BY DEF DeliveryInit
<1> QED
  BY <1>1, <1>2, DInvAtFirst, DInvKept, PTL DEF DeliverySafety, Safety

\* With one agent process on the queue file, what the whole system does to the
\* agent's queue is the life cycle of CommandJob, however often the relay dispatches,
\* syncs and restarts.
THEOREM DeliveryImplementsJob ==
    ASSUME SoleProcess
    PROVE  DeliverySafety => ImplementsCommandJob
BY AgentInTheSystem, QueueImplementsJob, SoleProcess, PTL

-----------------------------------------------------------------------------
(* Acknowledgements.                                                       *)

\* The relay has saved a result of command c.
Received(c) == \E j \in AttemptNos : <<c, j>> \in received

\* Every acknowledgement, on its way or about to be sent, is of such a command.
AcksAreTrue ==
    /\ down \in [Conns -> Seq({m \in ToAgent : \A c \in m.acks : Received(c)})]
    /\ \A n \in Conns : \A c \in work[n].acks : Received(c)

\* What the relay has saved, and what it has said it cancelled, stays so.
LEMMA HistoryGrows ==
    ASSUME [DeliveryNext]_allVars
    PROVE  received \subseteq received' /\ cancelled \subseteq cancelled'
<1>1. ASSUME NEW c \in Commands, Handle(c)
      PROVE  received \subseteq received' /\ cancelled \subseteq cancelled'
  BY <1>1 DEF Handle, EnqueueCommand, FindAgent, DispatchLive, RelayDies, MarkLive, PurgeQueue,
              AnswerPredefined, FinishSandbox, histVars
<1>2. ASSUME NEW n \in Conns, Read(n)
      PROVE  received \subseteq received' /\ cancelled \subseteq cancelled'
  BY <1>2 DEF Read, Register, SendAuthAck, ReadPending, FlushFind, FlushSend, RelayDies, FlushMark,
              HandleCmdResult, HandleSyncReq, SendSyncResp, Unregister, histVars
<1>3. CASE \/ \E n \in Conns : Break(n)
           \/ RelayCrash \/ UNCHANGED allVars
           \/ \E p \in Processes, n \in Conns : Dial(p, n)
  BY <1>3 DEF Break, RelayCrash, RelayDies, Dial, allVars, deliveryVars, histVars
<1> QED
  BY <1>1, <1>2, <1>3, AgentLeavesRelay DEF DeliveryNext, Receive

\* handleCmdResult and handleSyncReq save before they acknowledge, and nobody else
\* acknowledges.
LEMMA AcksKept ==
    ASSUME DInv, DInv', AcksAreTrue, [DeliveryNext]_allVars
    PROVE  AcksAreTrue'
<1> DEFINE M == {m \in ToAgent : \A c \in m.acks : Received(c)'}
<1>1. \A c \in Commands : Received(c) => Received(c)'
  BY HistoryGrows DEF Received
<1>2. \A n \in Conns : down[n] \in Seq(M)
  <2> SUFFICES ASSUME NEW n \in Conns PROVE down[n] \in Seq(M)
    OBVIOUS
  <2> DEFINE L == {m \in ToAgent : \A c \in m.acks : Received(c)}
  <2>1. down[n] \in Seq(L)
    BY DEF AcksAreTrue
  <2>2. L \subseteq M
    BY <1>1 DEF ToAgent
  <2> HIDE DEF L, M
  <2> QED
    BY <2>1, <2>2, SeqMonotonic
<1>3. down \in [Conns -> Seq(M)]
  BY <1>2 DEF DInv, DeliveryTypeOK
<1>4. Outgoing \subseteq M
  <2>1. \A n \in Conns : /\ work[n].acks \in SUBSET Commands /\ work[n].cmds \in SUBSET Commands
                         /\ \A c \in work[n].acks : Received(c)'
    BY <1>1 DEF DInv, DeliveryTypeOK, AcksAreTrue
  <2> QED
    BY <2>1 DEF Outgoing, ToAgent, AuthAck, SyncResp, DispatchCmd, ResultAck, Received
<1>5. down' \in [Conns -> Seq(M)]
  <2> HIDE DEF M
  <2> QED
    BY <1>3, <1>4, DownSteps, DownIn
<1>6. ASSUME NEW n \in Conns PROVE \A c \in work'[n].acks : Received(c)'
  <2>1. CASE work'[n].acks = work[n].acks \/ work'[n].acks = {}
    BY <1>1, <2>1 DEF DInv, DeliveryTypeOK, AcksAreTrue
  <2>2. CASE HandleSyncReq(n)
    <3> DEFINE R == Head(up[n]).results
    <3>1. work'[n].acks = {r[1] : r \in R} /\ received' = received \cup {<<r[1], r[2]>> : r \in R}
      <4> DEFINE S == {r[1] : r \in R}
                 P == GetPendingCommands([c \in Commands |-> SyncedStatus(c, R)])
      <4>1. /\ work' = [work EXCEPT ![n].acks = S, ![n].cmds = P]
            /\ received' = received \cup {<<r[1], r[2]>> : r \in R}
        BY <2>2 DEF HandleSyncReq
      <4>2. work \in [Conns -> [target : Conns \cup {NoConn}, cmds : SUBSET Commands, acks : SUBSET Commands]]
        BY DEF DInv, DeliveryTypeOK
      <4> HIDE DEF S, P
      <4>3. work'[n].acks = S
        BY <4>1, <4>2
      <4> QED
        BY <4>1, <4>3 DEF S
    <3>2. \A r \in R : r[2] \in AttemptNos
      BY <2>2, ArrivedTypes DEF HandleSyncReq, Results
    <3> QED
      BY <3>1, <3>2 DEF Received
  <2>3. CASE ~ HandleSyncReq(n)
    <3>0. work \in [Conns -> [target : Conns \cup {NoConn}, cmds : SUBSET Commands, acks : SUBSET Commands]]
      BY DEF DInv, DeliveryTypeOK
    <3>1. ASSUME NEW m \in Conns, Read(m) PROVE work'[n].acks = work[n].acks \/ work'[n].acks = {}
      <4>1. CASE HandleSyncReq(m)
        BY <2>3, <3>0, <4>1 DEF HandleSyncReq
      <4>2. CASE ReadPending(m)
        BY <3>0, <4>2 DEF ReadPending
      <4>3. CASE FlushMark(m)
        BY <3>0, <4>3 DEF FlushMark, NoWork
      <4>4. CASE FlushFind(m) \/ FlushSend(m) \/ SendSyncResp(m)
        BY <3>0, <4>4 DEF FlushFind, FlushSend, RelayDies, SendSyncResp, NoWork
      <4> QED
        BY <3>1, <4>1, <4>2, <4>3, <4>4
           DEF Read, Register, SendAuthAck, HandleCmdResult, Unregister, hubVars
    <3>2. ASSUME NEW c \in Commands, Handle(c)
          PROVE  work'[n].acks = work[n].acks \/ work'[n].acks = {}
      BY <3>2 DEF Handle, EnqueueCommand, FindAgent, DispatchLive, RelayDies, MarkLive, PurgeQueue,
                  AnswerPredefined, FinishSandbox, NoWork
    <3>3. CASE \/ \E m \in Conns : Break(m)
               \/ RelayCrash \/ UNCHANGED allVars
               \/ \E p \in Processes, m \in Conns : Dial(p, m)
      BY <2>1, <3>3 DEF Break, RelayCrash, RelayDies, Dial, NoWork, allVars, deliveryVars, hubVars
    <3> QED
      BY <2>1, <3>1, <3>2, <3>3, AgentLeavesRelay DEF DeliveryNext, Receive
  <2> QED
    BY <2>2, <2>3
<1> QED
  BY <1>5, <1>6 DEF AcksAreTrue

\* Only an acknowledgement marks a result as synced.
LEMMA SyncedKept ==
    ASSUME DInv, AcksAreTrue, AckedIsReceived, [DeliveryNext]_allVars
    PROVE  AckedIsReceived'
<1>1. received \subseteq received'
  BY HistoryGrows
<1>2. CASE synced' = synced
  BY <1>1, <1>2 DEF AckedIsReceived
<1>3. ASSUME NEW p \in Processes, HandleIncoming(p) PROVE AckedIsReceived'
  <2> DEFINE m == Head(down[aconn])
  <2>1. \A c \in m.acks : Received(c)
    <3> DEFINE L == {x \in ToAgent : \A c \in x.acks : Received(c)}
    <3>1. aconn \in Conns /\ down[aconn] \in Seq(L) /\ down[aconn] # << >>
      BY <1>3 DEF HandleIncoming, DInv, DeliveryTypeOK, AcksAreTrue
    <3>2. m \in L
      <4> HIDE DEF L
      <4> QED
        BY <3>1, SeqTypes
    <3> QED
      BY <3>2
  <2>2. \A c \in Commands, k \in AttemptNos : synced'[c][k] => synced[c][k] \/ c \in m.acks
    BY <1>3 DEF HandleIncoming, MarkResultSynced
  <2> QED
    BY <1>1, <2>1, <2>2 DEF AckedIsReceived, Received
<1>4. CASE \A p \in Processes : ~ HandleIncoming(p)
  <2>1. synced' = synced
    BY <1>4, RelayLeavesAgent, WorkLeavesNet
       DEF DeliveryNext, Receive, ReadAuthAck, Disconnect, WritePump, AgentStops, allVars,
           deliveryVars, clientVars
  <2> QED
    BY <1>2, <2>1
<1> QED
  BY <1>3, <1>4

\* The agent gives up sending a result (Synced = 1) only for a command of which the
\* relay has saved a result, whatever is lost, repeated, delayed or restarted.
THEOREM AcknowledgedIsReceived == DeliverySafety => []AckedIsReceived
<1> DEFINE Inv == DInv /\ AcksAreTrue /\ AckedIsReceived
<1>1. DeliveryInit => AcksAreTrue /\ AckedIsReceived
  <2> SUFFICES ASSUME DeliveryInit PROVE AcksAreTrue /\ AckedIsReceived
    OBVIOUS
  <2>1. << >> \in Seq({m \in ToAgent : \A c \in m.acks : Received(c)})
    BY EmptySeq
  <2> QED
    BY <2>1 DEF DeliveryInit, AcksAreTrue, AckedIsReceived, NoWork
<1>2. Inv /\ [DeliveryNext]_allVars => Inv'
  BY DInvKept, AcksKept, SyncedKept
<1> QED
  BY <1>1, <1>2, DInvAtFirst, PTL DEF DeliverySafety

-----------------------------------------------------------------------------
(* Pending commands and the flush.                                         *)

\* The connection in h.agents is one whose readPump has registered it and runs.
ConnIsOpen == agentConn # NoConn => reader[agentConn] \notin {"closed", "auth"}

\* Command c is still to be flushed on connection n.
Scheduled(c, n) ==
    \/ reader[n] \in {"registered", "flush"}
    \/ reader[n] \in {"flushFind", "flushSend", "flushMark"} /\ c \in work[n].cmds

\* A command its handler will not send on the device's connection: the handler is
\* past its look-up, or it holds a connection that has been replaced, whose
\* Send may panic.
Missable(c) ==
    /\ rstatus[c] = "PENDING"
    /\ handler[c] \in {"offline", "done"} \/ (handler[c] = "found" /\ found[c] # agentConn)

MissableIsScheduled ==
    \A c \in Commands : Missable(c) /\ agentConn # NoConn => Scheduled(c, agentConn)

\* A handler that finishes leaves no command behind.
LEMMA HandlerSchedules ==
    ASSUME DInv, ConnIsOpen, MissableIsScheduled, NEW c \in Commands, Handle(c)
    PROVE  ConnIsOpen' /\ MissableIsScheduled'
<1>1. CASE RelayDies
  BY <1>1 DEF RelayDies, ConnIsOpen, MissableIsScheduled
<1>2. CASE ~ RelayDies
  <2>1. UNCHANGED <<agentConn, reader, work>>
    BY <1>2 DEF Handle, EnqueueCommand, FindAgent, DispatchLive, MarkLive, PurgeQueue,
                AnswerPredefined, FinishSandbox
  <2>2. ASSUME NEW d \in Commands, Missable(d)', agentConn # NoConn PROVE Missable(d)
    <3>0. /\ rstatus \in [Commands -> RelayStatuses] /\ handler \in [Commands -> HandlerPhases]
          /\ found \in [Commands -> Conns \cup {NoConn}] /\ agentConn' = agentConn
      BY <2>1 DEF DInv, DeliveryTypeOK
    <3>1. CASE EnqueueCommand(c)
      BY <2>2, <3>0, <3>1 DEF EnqueueCommand, Missable
    <3>2. CASE FindAgent(c)
      BY <2>2, <3>0, <3>2 DEF FindAgent, relayVars, Missable
    <3>7. CASE DispatchLive(c)
      <4>1. CASE reader[found[c]] = "closed"
        <5>1. found[c] # agentConn /\ handler[c] = "found" /\ rstatus' = rstatus
          BY <1>2, <2>2, <3>7, <4>1 DEF ConnIsOpen, DispatchLive, relayVars
        <5>2. \A e \in Commands \ {c} : handler'[e] = handler[e] /\ found'[e] = found[e]
          BY <1>2, <3>0, <3>7, <4>1 DEF DispatchLive
        <5> QED
          BY <2>2, <3>0, <5>1, <5>2 DEF Missable
      <4>2. CASE reader[found[c]] # "closed"
        BY <2>2, <3>0, <3>7, <4>2 DEF DispatchLive, relayVars, Missable
      <4> QED
        BY <4>1, <4>2
    <3>3. CASE MarkLive(c)
      BY <2>2, <3>0, <3>3 DEF MarkLive, MarkCommandDispatched, SupabaseMarkDispatched, Missable
    <3>4. CASE PurgeQueue(c)
      BY <2>2, <3>0, <3>4 DEF PurgeQueue, Missable
    <3>5. CASE AnswerPredefined(c)
      BY <2>2, <3>0, <3>5 DEF AnswerPredefined, Missable
    <3>6. CASE FinishSandbox(c)
      <4>1. SandboxStatus(c) \in {rstatus[c], "COMPLETED"}
        BY DEF SandboxStatus, StatusOfExit
      <4> QED
        BY <2>2, <3>0, <3>6, <4>1 DEF FinishSandbox, Missable
    <3> QED
      BY <3>1, <3>2, <3>3, <3>4, <3>5, <3>6, <3>7 DEF Handle
  <2> QED
    BY <2>1, <2>2 DEF ConnIsOpen, MissableIsScheduled, Scheduled
<1> QED
  BY <1>1, <1>2

\* A result, a sync and the flush leave no command PENDING that was not so before.
LEMMA ReaderLeavesStatus ==
    ASSUME DInv, NEW n \in Conns, Read(n), ~ RelayDies, agentConn' = agentConn,
           NEW c \in Commands, Missable(c)'
    PROVE  Missable(c)
<1>0. rstatus \in [Commands -> RelayStatuses] /\ handler \in [Commands -> HandlerPhases]
  BY DEF DInv, DeliveryTypeOK
<1>1. CASE \/ Register(n) \/ SendAuthAck(n) \/ ReadPending(n) \/ FlushFind(n)
           \/ FlushSend(n) \/ SendSyncResp(n) \/ Unregister(n)
  BY <1>1 DEF Register, SendAuthAck, ReadPending, FlushFind, FlushSend, SendSyncResp,
              Unregister, relayVars, Missable
<1>2. CASE FlushMark(n)
  BY <1>0, <1>2 DEF FlushMark, MarkCommandDispatched, SupabaseMarkDispatched, Missable
<1>3. CASE HandleCmdResult(n)
  <2> DEFINE r == CHOOSE x \in Head(up[n]).results : TRUE
  <2>1. /\ rstatus' = [rstatus EXCEPT ![r[1]] = IF @ = "NONE" THEN @ ELSE StatusOfExit(r[3])]
        /\ UNCHANGED <<handler, found>>
    BY <1>3 DEF HandleCmdResult, hubVars
  <2>2. StatusOfExit(r[3]) # "PENDING"
    BY DEF StatusOfExit
  <2> HIDE DEF r
  <2> QED
    BY <1>0, <2>1, <2>2 DEF Missable
<1>4. CASE HandleSyncReq(n)
  <2> DEFINE R == Head(up[n]).results
             after == [d \in Commands |-> SyncedStatus(d, R)]
  <2>1. rstatus' = [d \in Commands |-> IF d \in GetPendingCommands(after) THEN "DISPATCHED" ELSE after[d]]
    BY <1>4 DEF HandleSyncReq
  <2>2. rstatus'[c] # "PENDING"
    BY <2>1 DEF GetPendingCommands
  <2> QED
    BY <2>2 DEF Missable
<1> QED
  BY <1>1, <1>2, <1>3, <1>4 DEF Read

\* The readPumps: a new connection flushes what is PENDING when it reads the list,
\* and every command of the list is marked before the flush ends.
LEMMA ReaderSchedules ==
    ASSUME DInv, ConnIsOpen, MissableIsScheduled, NEW n \in Conns, Read(n)
    PROVE  ConnIsOpen' /\ MissableIsScheduled'
<1>0. /\ reader \in [Conns -> ReaderPhases] /\ agentConn \in Conns \cup {NoConn}
      /\ work \in [Conns -> [target : Conns \cup {NoConn}, cmds : SUBSET Commands, acks : SUBSET Commands]]
      /\ NoConn \notin Conns
  BY SetsAssumption DEF DInv, DeliveryTypeOK
<1>1. CASE RelayDies
  BY <1>1 DEF RelayDies, ConnIsOpen, MissableIsScheduled
<1>2. ASSUME ~ RelayDies, NEW phase, Goto(n, phase), agentConn' = agentConn,
             phase \notin {"closed", "auth"},
             \A m \in Conns \ {n} : work'[m] = work[m],
             \A c \in Commands : Missable(c)' /\ (Missable(c) => Scheduled(c, n)) => Scheduled(c, n)'
      PROVE  ConnIsOpen' /\ MissableIsScheduled'
  <2>1. ConnIsOpen'
    BY <1>0, <1>2 DEF ConnIsOpen, Goto
  <2>2. ASSUME NEW c \in Commands, Missable(c)', agentConn # NoConn PROVE Scheduled(c, agentConn)'
    <3>1. Missable(c)
      BY <1>2, <2>2, ReaderLeavesStatus
    <3>2. Scheduled(c, agentConn)
      BY <2>2, <3>1 DEF MissableIsScheduled
    <3>3. CASE agentConn = n
      BY <1>0, <1>2, <2>2, <3>2, <3>3 DEF Scheduled
    <3>4. CASE agentConn # n
      BY <1>0, <1>2, <2>2, <3>2, <3>4 DEF Scheduled, Goto
    <3> QED
      BY <3>3, <3>4
  <2> QED
    BY <1>2, <2>1, <2>2 DEF MissableIsScheduled, Scheduled
<1>3. CASE Register(n)
  <2>1. agentConn' = n /\ reader'[n] = "registered"
    BY <1>0, <1>3 DEF Register, Goto
  <2> QED
    BY <2>1 DEF ConnIsOpen, MissableIsScheduled, Scheduled
<1>4. CASE SendAuthAck(n)
  <2>1. Goto(n, "flush") /\ UNCHANGED <<agentConn, work>> /\ reader'[n] = "flush"
    BY <1>0, <1>4 DEF SendAuthAck, Goto
  <2> QED
    BY <1>1, <1>2, <2>1 DEF Scheduled
<1>5. CASE ReadPending(n)
  <2>1. UNCHANGED <<agentConn, rstatus>>
    BY <1>5 DEF ReadPending, relayVars
  <2>2. CASE GetPendingCommands(rstatus) = {}
    <3>1. \A c \in Commands : ~ Missable(c)'
      BY <2>1, <2>2 DEF GetPendingCommands, Missable
    <3>2. Goto(n, "open") /\ UNCHANGED work
      BY <1>5, <2>2 DEF ReadPending
    <3> QED
      BY <1>1, <1>2, <2>1, <3>1, <3>2
  <2>3. CASE GetPendingCommands(rstatus) # {}
    <3> DEFINE P == GetPendingCommands(rstatus)
    <3>1. Goto(n, "flushFind") /\ work' = [work EXCEPT ![n].cmds = P]
      BY <1>5, <2>3 DEF ReadPending
    <3>2. reader'[n] = "flushFind" /\ work'[n].cmds = P /\ \A m \in Conns \ {n} : work'[m] = work[m]
      <4> HIDE DEF P
      <4> QED
        BY <1>0, <3>1 DEF Goto
    <3>3. \A c \in Commands : Missable(c)' => c \in P
      BY <2>1 DEF Missable, GetPendingCommands
    <3>4. \A c \in Commands : Missable(c)' => Scheduled(c, n)'
      BY <3>2, <3>3 DEF Scheduled
    <3> QED
      BY <1>1, <1>2, <2>1, <3>1, <3>2, <3>4
  <2> QED
    BY <2>2, <2>3
<1>10. CASE FlushFind(n)
  <2>1. reader[n] = "flushFind" /\ UNCHANGED <<agentConn, rstatus, handler, found>>
    BY <1>10 DEF FlushFind, relayVars
  <2>2. CASE agentConn = NoConn
    BY <2>1, <2>2 DEF ConnIsOpen, MissableIsScheduled
  <2>3. CASE agentConn # NoConn
    <3>1. Goto(n, "flushSend") /\ work' = [work EXCEPT ![n].target = agentConn]
      BY <1>10, <2>3 DEF FlushFind
    <3>2. /\ reader'[n] = "flushSend" /\ work'[n].cmds = work[n].cmds
          /\ \A m \in Conns \ {n} : work'[m] = work[m]
      BY <1>0, <3>1 DEF Goto
    <3>3. \A c \in Commands : Missable(c)' /\ (Missable(c) => Scheduled(c, n)) => Scheduled(c, n)'
      BY <2>1, <3>2 DEF Scheduled, Missable
    <3> QED
      BY <1>1, <1>2, <2>1, <3>1, <3>2, <3>3
  <2> QED
    BY <2>2, <2>3
<1>6. CASE FlushSend(n)
  <2>1. CASE ~ RelayDies
    <3>1. Goto(n, "flushMark") /\ UNCHANGED <<agentConn, work, rstatus, handler, found>>
      BY <1>6, <2>1 DEF FlushSend, relayVars
    <3>2. reader[n] = "flushSend" /\ reader'[n] = "flushMark"
      BY <1>0, <1>6, <3>1 DEF FlushSend, Goto
    <3>3. \A c \in Commands : Missable(c)' /\ (Missable(c) => Scheduled(c, n)) => Scheduled(c, n)'
      BY <3>1, <3>2 DEF Scheduled, Missable
    <3> QED
      BY <1>2, <2>1, <3>1, <3>3
  <2> QED
    BY <1>1, <2>1
<1>7. CASE FlushMark(n)
  <2> DEFINE l == Least(work[n].cmds)
             rest == work[n].cmds \ {l}
             phase == IF rest = {} THEN "open" ELSE "flushSend"
  <2>1. /\ reader[n] = "flushMark" /\ Goto(n, phase) /\ UNCHANGED <<agentConn, handler, found>>
        /\ work' = [work EXCEPT ![n] = IF rest = {} THEN NoWork ELSE [@ EXCEPT !.cmds = rest]]
        /\ MarkCommandDispatched({l})
    BY <1>7 DEF FlushMark
  <2>2. /\ reader'[n] = phase /\ \A m \in Conns \ {n} : work'[m] = work[m]
        /\ rest # {} => work'[n].cmds = rest
    <3> HIDE DEF rest
    <3> QED
      BY <1>0, <2>1 DEF Goto
  <2>3. \A c \in Commands : rstatus'[c] = "PENDING" => rstatus[c] = "PENDING" /\ c # l
    BY <2>1 DEF MarkCommandDispatched, SupabaseMarkDispatched
  <2>4. ASSUME NEW c \in Commands, Missable(c)', Missable(c) => Scheduled(c, n)
        PROVE  Scheduled(c, n)'
    <3>1. Missable(c) /\ c # l
      BY <2>1, <2>3, <2>4 DEF Missable
    <3>2. c \in rest
      BY <2>1, <2>4, <3>1 DEF Scheduled
    <3> QED
      BY <2>2, <3>2 DEF Scheduled
  <2>5. phase \notin {"closed", "auth"}
    OBVIOUS
  <2> HIDE DEF phase
  <2> QED
    BY <1>1, <1>2, <2>1, <2>2, <2>4, <2>5
<1>8. CASE HandleCmdResult(n) \/ HandleSyncReq(n) \/ SendSyncResp(n)
  <2>1. /\ reader[n] \in {"open", "respond"} /\ agentConn' = agentConn
        /\ \E phase \in {"open", "respond"} : Goto(n, phase)
        /\ \A m \in Conns \ {n} : work'[m] = work[m]
    <3>1. CASE HandleCmdResult(n)
      BY <1>0, <3>1 DEF HandleCmdResult, hubVars, Goto
    <3>2. CASE HandleSyncReq(n)
      BY <1>0, <3>2 DEF HandleSyncReq
    <3>3. CASE SendSyncResp(n)
      BY <1>0, <3>3 DEF SendSyncResp
    <3> QED
      BY <1>8, <3>1, <3>2, <3>3
  <2>2. ASSUME NEW c \in Commands, Missable(c)', Missable(c) => Scheduled(c, n), ~ RelayDies
        PROVE  FALSE
    BY <2>1, <2>2, ReaderLeavesStatus DEF Scheduled
  <2> QED
    BY <1>1, <1>2, <2>1, <2>2
<1>9. CASE Unregister(n)
  <2>1. /\ agentConn' = IF agentConn = n THEN NoConn ELSE agentConn
        /\ reader' = [reader EXCEPT ![n] = "closed"]
        /\ UNCHANGED <<rstatus, handler, found, work>>
    BY <1>9 DEF Unregister, Goto, relayVars
  <2>2. CASE agentConn = n
    BY <2>1, <2>2 DEF ConnIsOpen, MissableIsScheduled
  <2>3. CASE agentConn # n
    BY <1>0, <2>1, <2>3 DEF ConnIsOpen, MissableIsScheduled, Missable, Scheduled
  <2> QED
    BY <2>2, <2>3
<1> QED
  BY <1>3, <1>4, <1>5, <1>6, <1>7, <1>8, <1>9, <1>10 DEF Read

\* No other step lets a command fall between its handler and the flush.
LEMMA ScheduleKept ==
    ASSUME DInv, ConnIsOpen, MissableIsScheduled, [DeliveryNext]_allVars
    PROVE  ConnIsOpen' /\ MissableIsScheduled'
<1>1. ASSUME UNCHANGED <<rstatus, agentConn, handler, found, reader, work>>
      PROVE  ConnIsOpen' /\ MissableIsScheduled'
  BY <1>1 DEF ConnIsOpen, MissableIsScheduled, Missable, Scheduled
<1>2. ASSUME NEW p \in Processes, NEW n \in Conns, Dial(p, n)
      PROVE  ConnIsOpen' /\ MissableIsScheduled'
  <2>1. /\ reader[n] = "closed" /\ reader' = [reader EXCEPT ![n] = "auth"]
        /\ UNCHANGED <<rstatus, agentConn, handler, found, work>>
    BY <1>2 DEF Dial, Goto, relayVars
  <2>2. reader \in [Conns -> ReaderPhases] /\ agentConn \in Conns \cup {NoConn}
    BY DEF DInv, DeliveryTypeOK
  <2> QED
    BY <2>1, <2>2 DEF ConnIsOpen, MissableIsScheduled, Missable, Scheduled
<1>3. CASE RelayCrash
  BY <1>3 DEF RelayCrash, RelayDies, ConnIsOpen, MissableIsScheduled
<1>4. CASE UNCHANGED allVars \/ \E n \in Conns : Break(n)
  BY <1>1, <1>4 DEF Break, allVars, deliveryVars, relayVars, hubVars
<1> QED
  BY <1>1, <1>2, <1>3, <1>4, AgentLeavesRelay, HandlerSchedules, ReaderSchedules
     DEF DeliveryNext, Receive

\* No command falls between a handler that found the agent offline and the flush of
\* the agent that connects meanwhile: with either backend, any number of handlers
\* and connections, and a relay that dies at any moment, what is PENDING past its
\* handler's look-up is still to be flushed on the device's connection.
THEOREM PendingStaysScheduled == DeliverySafety => []PendingIsScheduled
<1> DEFINE Inv == DInv /\ ConnIsOpen /\ MissableIsScheduled
<1>1. DeliveryInit => ConnIsOpen /\ MissableIsScheduled
  BY DEF DeliveryInit, ConnIsOpen, MissableIsScheduled
<1>2. Inv /\ [DeliveryNext]_allVars => Inv'
  BY DInvKept, ScheduleKept
<1>3. MissableIsScheduled => PendingIsScheduled
  BY DEF MissableIsScheduled, PendingIsScheduled, Missable, Scheduled
<1> QED
  BY <1>1, <1>2, <1>3, DInvAtFirst, PTL DEF DeliverySafety

-----------------------------------------------------------------------------
(* The queue of the SQLite backend.                                        *)

\* A result of command c arrives and gives it its status.
Arrives(c) ==
    /\ rstatus[c] # "NONE"
    /\ \E n \in Conns :
          /\ up[n] # << >>
          /\ \E r \in Head(up[n]).results :
                /\ r \in Results /\ r[1] = c /\ <<c, r[2]>> \in received'
                /\ rstatus'[c] = StatusOfExit(r[3])

\* What one step may do to the row of c.
QueueStep(c) ==
    \/ rstatus'[c] = rstatus[c]
    \/ handler[c] = "new" /\ rstatus'[c] = "PENDING"
    \/ rstatus[c] = "PENDING" /\ rstatus'[c] = "DISPATCHED"
    \/ rstatus[c] = "PENDING" /\ rstatus'[c] = "FAILED" /\ c \in cancelled'
    \/ /\ c \in Predefined /\ handler[c] # "new"
       /\ rstatus'[c] = "COMPLETED" /\ <<ById, Cloud>> \in rows'[c]
    \/ Arrives(c)

\* The last result of a command in a SYNC_REQ gives its status.
LEMMA LastResult ==
    ASSUME NEW R, R \subseteq Results, NEW c \in Commands
    PROVE  \/ SyncedStatus(c, R) = rstatus[c]
           \/ /\ rstatus[c] # "NONE"
              /\ \E r \in R : r[1] = c /\ SyncedStatus(c, R) = StatusOfExit(r[3])
<1> DEFINE mine == {r \in R : r[1] = c}
           last == CHOOSE r \in mine : \A s \in mine : s[2] <= r[2]
<1>1. CASE mine = {} \/ rstatus[c] = "NONE"
  BY <1>1 DEF SyncedStatus
<1>2. CASE mine # {} /\ rstatus[c] # "NONE"
  <2> DEFINE S == {r[2] : r \in mine}
  <2>1. S \subseteq 1 .. MaxAttempts /\ S # {}
    BY <1>2 DEF Results, AttemptNos
  <2>2. \E x \in S : \A y \in S : y <= x
    <3> HIDE DEF S
    <3> QED
      BY <2>1, LargestExists, MaxAttemptsAssumption
  <2>3. \E r \in mine : \A s \in mine : s[2] <= r[2]
    BY <2>2
  <2>4. last \in mine
    <3> HIDE DEF mine
    <3> QED
      BY <2>3
  <2>5. SyncedStatus(c, R) = StatusOfExit(last[3])
    BY <1>2 DEF SyncedStatus
  <2> QED
    BY <1>2, <2>4, <2>5
<1> QED
  BY <1>1, <1>2

\* The statements of the handlers.
LEMMA HandlerStatements ==
    ASSUME ~ Supabase, DInv, NEW d \in Commands, Handle(d), NEW c \in Commands
    PROVE  /\ QueueStep(c)
           /\ <<ById, Cloud>> \in rows[c] => <<ById, Cloud>> \in rows'[c]
<1>0. rstatus \in [Commands -> RelayStatuses] /\ rows \in [Commands -> SUBSET (RowKeys \X RowKeys)]
  BY DEF DInv, DeliveryTypeOK
<1>1. CASE EnqueueCommand(d)
  BY <1>0, <1>1 DEF EnqueueCommand, QueueStep
<1>2. CASE FindAgent(d) \/ DispatchLive(d)
  BY <1>2 DEF FindAgent, DispatchLive, RelayDies, relayVars, QueueStep
<1>3. CASE MarkLive(d)
  BY <1>0, <1>3 DEF MarkLive, MarkCommandDispatched, QueueStep
<1>4. CASE PurgeQueue(d)
  BY <1>0, <1>4 DEF PurgeQueue, Purged, QueueStep
<1>5. <<ById, Cloud>> \in Upsert(rows[d], ById, Cloud)
  BY DEF Upsert, ResultKey
<1>6. CASE AnswerPredefined(d)
  BY <1>0, <1>5, <1>6 DEF AnswerPredefined, QueueStep
<1>7. CASE FinishSandbox(d)
  BY <1>0, <1>5, <1>7 DEF FinishSandbox, SandboxStatus, QueueStep
<1> QED
  BY <1>1, <1>2, <1>3, <1>4, <1>6, <1>7 DEF Handle

\* The statements of the readPumps.
LEMMA ReaderStatements ==
    ASSUME ~ Supabase, DInv, NEW n \in Conns, Read(n), NEW c \in Commands
    PROVE  /\ QueueStep(c)
           /\ <<ById, Cloud>> \in rows[c] =>
                 <<ById, Cloud>> \in rows'[c] \/ Arrives(c) \/ rstatus'[c] = "NONE"
<1>0. rstatus \in [Commands -> RelayStatuses] /\ rows \in [Commands -> SUBSET (RowKeys \X RowKeys)]
  BY DEF DInv, DeliveryTypeOK
<1>1. CASE \/ Register(n) \/ SendAuthAck(n) \/ ReadPending(n) \/ FlushFind(n)
           \/ FlushSend(n) \/ SendSyncResp(n)
           \/ Unregister(n)
  BY <1>1 DEF Register, SendAuthAck, ReadPending, FlushFind, FlushSend, RelayDies, SendSyncResp, Unregister,
              relayVars, QueueStep
<1>2. CASE FlushMark(n)
  BY <1>0, <1>2 DEF FlushMark, MarkCommandDispatched, QueueStep
<1>3. CASE HandleCmdResult(n)
  <2> DEFINE r == CHOOSE x \in Head(up[n]).results : TRUE
  <2>1. up[n] # << >> /\ r \in Head(up[n]).results /\ r \in Results
    BY <1>3, ArrivedTypes DEF HandleCmdResult
  <2>2. /\ rstatus' = [rstatus EXCEPT ![r[1]] = IF @ = "NONE" THEN @ ELSE StatusOfExit(r[3])]
        /\ rows' = [rows EXCEPT ![r[1]] = Upsert(@, ById, r[2])]
        /\ <<r[1], r[2]>> \in received'
    BY <1>3 DEF HandleCmdResult
  <2> HIDE DEF r
  <2>3. CASE c # r[1]
    BY <1>0, <2>2, <2>3 DEF QueueStep
  <2>4. CASE c = r[1] /\ rstatus[c] = "NONE"
    BY <1>0, <2>2, <2>4 DEF QueueStep
  <2>5. CASE c = r[1] /\ rstatus[c] # "NONE"
    BY <1>0, <2>1, <2>2, <2>5 DEF QueueStep, Arrives
  <2> QED
    BY <2>3, <2>4, <2>5
<1>4. CASE HandleSyncReq(n)
  <2> DEFINE R == Head(up[n]).results
             after == [d \in Commands |-> SyncedStatus(d, R)]
  <2>1. up[n] # << >> /\ R \subseteq Results
    BY <1>4, ArrivedTypes DEF HandleSyncReq
  <2>2. /\ rstatus' = [d \in Commands |-> IF d \in GetPendingCommands(after) THEN "DISPATCHED" ELSE after[d]]
        /\ received' = received \cup {<<r[1], r[2]>> : r \in R}
    BY <1>4 DEF HandleSyncReq
  <2>3. rstatus'[c] = IF SyncedStatus(c, R) = "PENDING" THEN "DISPATCHED" ELSE SyncedStatus(c, R)
    BY <2>2 DEF GetPendingCommands
  <2>4. QueueStep(c)
    <3>1. CASE SyncedStatus(c, R) = rstatus[c]
      BY <2>3, <3>1 DEF QueueStep
    <3>2. CASE rstatus[c] # "NONE" /\ \E r \in R : r[1] = c /\ SyncedStatus(c, R) = StatusOfExit(r[3])
      <4>1. PICK r \in R : r[1] = c /\ SyncedStatus(c, R) = StatusOfExit(r[3])
        BY <3>2
      <4>2. rstatus'[c] = StatusOfExit(r[3]) /\ <<c, r[2]>> \in received'
        BY <2>2, <2>3, <4>1 DEF StatusOfExit
      <4> QED
        BY <2>1, <3>2, <4>1, <4>2 DEF QueueStep, Arrives
    <3> QED
      BY <2>1, <3>1, <3>2, LastResult
  <2>5. <<ById, Cloud>> \in rows[c] => <<ById, Cloud>> \in rows'[c]
    <3>1. ById \notin {r[2] : r \in {x \in R : x[1] = c}}
      BY <2>1, MaxAttemptsAssumption DEF Results, AttemptNos, ById
    <3>2. rows'[c] = {x \in rows[c] : x[1] \notin {r[2] : r \in {y \in R : y[1] = c}}}
                     \cup {<<k, k>> : k \in {r[2] : r \in {y \in R : y[1] = c}}}
      BY <1>4 DEF HandleSyncReq
    <3> QED
      BY <3>1, <3>2
  <2> QED
    BY <2>4, <2>5
<1> QED
  BY <1>1, <1>2, <1>3, <1>4 DEF Read

\* Every step of the system.
LEMMA QueueSteps ==
    ASSUME ~ Supabase, DInv, [DeliveryNext]_allVars, NEW c \in Commands
    PROVE  /\ QueueStep(c)
           /\ <<ById, Cloud>> \in rows[c] =>
                 <<ById, Cloud>> \in rows'[c] \/ Arrives(c) \/ rstatus'[c] = "NONE"
<1>1. ASSUME UNCHANGED <<rstatus, rows>>
      PROVE  QueueStep(c) /\ (<<ById, Cloud>> \in rows[c] => <<ById, Cloud>> \in rows'[c])
  BY <1>1 DEF QueueStep
<1>2. CASE \/ UNCHANGED allVars \/ RelayCrash
           \/ \E n \in Conns : Break(n)
           \/ \E p \in Processes, n \in Conns : Dial(p, n)
  BY <1>1, <1>2 DEF RelayCrash, RelayDies, Break, Dial, allVars, deliveryVars, relayVars
<1> QED
  BY <1>1, <1>2, AgentLeavesRelay, HandlerStatements, ReaderStatements DEF DeliveryNext, Receive

\* A command that no handler has queued has no row.
NewIsAbsent == \A c \in Commands : handler[c] = "new" => rstatus[c] = "NONE"

\* What a clear-queue has cancelled has ended, for good.
CancelledIsOver == \A c \in cancelled : rstatus[c] \in Terminal

\* A handler never starts again.
LEMMA HandlerStartsOnce ==
    ASSUME DInv, [DeliveryNext]_allVars, NEW c \in Commands, handler'[c] = "new"
    PROVE  handler[c] = "new" /\ ~ EnqueueCommand(c)
<1>0. handler \in [Commands -> HandlerPhases]
  BY DEF DInv, DeliveryTypeOK
<1>1. ~ EnqueueCommand(c)
  BY <1>0 DEF EnqueueCommand
<1>2. ASSUME NEW d \in Commands, Handle(d) PROVE handler[c] = "new"
  BY <1>0, <1>2 DEF Handle, EnqueueCommand, FindAgent, DispatchLive, RelayDies, MarkLive, PurgeQueue,
                    AnswerPredefined, FinishSandbox
<1>3. ASSUME NEW n \in Conns, Read(n) PROVE handler[c] = "new"
  BY <1>3 DEF Read, Register, SendAuthAck, ReadPending, FlushFind, FlushSend, RelayDies, FlushMark,
              HandleCmdResult, HandleSyncReq, SendSyncResp, Unregister, hubVars
<1>4. ASSUME \/ UNCHANGED allVars \/ RelayCrash
             \/ \E n \in Conns : Break(n)
             \/ \E p \in Processes, n \in Conns : Dial(p, n)
      PROVE  handler[c] = "new"
  BY <1>4 DEF RelayCrash, RelayDies, Break, Dial, allVars, deliveryVars, hubVars
<1>5. ASSUME UNCHANGED handler PROVE handler[c] = "new"
  BY <1>5
<1>6. handler[c] = "new"
  BY <1>2, <1>3, <1>4, <1>5, AgentLeavesRelay DEF DeliveryNext, Receive
<1> QED
  BY <1>1, <1>6

\* The row of a command whose handler has not started is not written.
LEMMA NewIsUntouched ==
    ASSUME DInv, NewIsAbsent, [DeliveryNext]_allVars, ~ Supabase,
           NEW c \in Commands, handler[c] = "new", rstatus'[c] # "NONE"
    PROVE  EnqueueCommand(c)
<1>0. rstatus[c] = "NONE" /\ rstatus \in [Commands -> RelayStatuses]
  BY DEF NewIsAbsent, DInv, DeliveryTypeOK
<1>1. rstatus'[c] = "PENDING"
  BY <1>0, QueueSteps DEF QueueStep, Arrives
<1>2. ASSUME NEW d \in Commands, Handle(d), ~ EnqueueCommand(c) PROVE FALSE
  BY <1>0, <1>1, <1>2 DEF Handle, EnqueueCommand, FindAgent, DispatchLive, RelayDies, MarkLive,
                          MarkCommandDispatched, PurgeQueue, AnswerPredefined, FinishSandbox,
                          SandboxStatus, relayVars
<1>3. ASSUME NEW n \in Conns, Read(n) PROVE FALSE
  <2>1. rstatus'[c] = "PENDING" /\ rstatus[c] # "PENDING"
    BY <1>0, <1>1
  <2>3. CASE FlushMark(n)
    BY <1>0, <2>1, <2>3 DEF FlushMark, MarkCommandDispatched
  <2>4. CASE HandleCmdResult(n)
    <3> DEFINE r == CHOOSE x \in Head(up[n]).results : TRUE
    <3>1. rstatus' = [rstatus EXCEPT ![r[1]] = IF @ = "NONE" THEN @ ELSE StatusOfExit(r[3])]
      BY <2>4 DEF HandleCmdResult
    <3> HIDE DEF r
    <3> QED
      BY <1>0, <2>1, <3>1
  <2>5. CASE HandleSyncReq(n)
    <3> DEFINE after == [d \in Commands |-> SyncedStatus(d, Head(up[n]).results)]
    <3>1. rstatus' = [d \in Commands |-> IF d \in GetPendingCommands(after) THEN "DISPATCHED" ELSE after[d]]
      BY <2>5 DEF HandleSyncReq
    <3> QED
      BY <2>1, <3>1 DEF GetPendingCommands
  <2> QED
    BY <1>0, <1>1, <1>3, <2>3, <2>4, <2>5
       DEF Read, Register, SendAuthAck, ReadPending, FlushFind, FlushSend, RelayDies, SendSyncResp, Unregister,
           relayVars
<1>4. ASSUME UNCHANGED rstatus PROVE FALSE
  BY <1>0, <1>4
<1>5. CASE \/ UNCHANGED allVars \/ RelayCrash
           \/ \E n \in Conns : Break(n)
           \/ \E p \in Processes, n \in Conns : Dial(p, n)
  BY <1>4, <1>5 DEF RelayCrash, RelayDies, Break, Dial, allVars, deliveryVars, relayVars
<1> QED
  BY <1>2, <1>3, <1>4, <1>5, AgentLeavesRelay DEF DeliveryNext, Receive

\* ... so it stays absent until then, and no status of a row that has ended changes
\* but to another end.
LEMMA EndsStay ==
    ASSUME DInv, NewIsAbsent, [DeliveryNext]_allVars, ~ Supabase
    PROVE  /\ NewIsAbsent'
           /\ \A c \in Commands : rstatus[c] \in Terminal => rstatus'[c] \in Terminal
<1>1. NewIsAbsent'
  BY HandlerStartsOnce, NewIsUntouched DEF NewIsAbsent
<1>2. ASSUME NEW c \in Commands, rstatus[c] \in Terminal PROVE rstatus'[c] \in Terminal
  BY <1>2, QueueSteps DEF QueueStep, Arrives, StatusOfExit, Terminal, NewIsAbsent
<1> QED
  BY <1>1, <1>2

\* With the SQLite store, a command whose result has arrived is never put back
\* into delivery, however the result races the MarkCommandDispatched after a Send.
THEOREM RelayEndsAreFinal ==
    ASSUME ~ Supabase PROVE DeliverySafety => RelayTerminalIsFinal
<1> DEFINE Inv == DInv /\ NewIsAbsent
<1>1. DeliveryInit => NewIsAbsent
  BY DEF DeliveryInit, NewIsAbsent
<1>2. Inv /\ [DeliveryNext]_allVars => Inv'
  BY DInvKept, EndsStay
<1>3. Inv /\ [DeliveryNext]_allVars
        => [\A c \in Commands : rstatus[c] \in Terminal => rstatus'[c] \in Terminal]_allVars
  BY EndsStay
<1> QED
  BY <1>1, <1>2, <1>3, DInvAtFirst, PTL DEF DeliverySafety, RelayTerminalIsFinal

\* A clear-queue says of the commands it has failed that they are cancelled.
LEMMA CancelledKept ==
    ASSUME DInv, NewIsAbsent, CancelledIsOver, [DeliveryNext]_allVars, ~ Supabase
    PROVE  CancelledIsOver'
<1> SUFFICES ASSUME NEW c \in cancelled' PROVE rstatus'[c] \in Terminal
  BY DEF CancelledIsOver
<1>0. cancelled \subseteq Commands /\ rstatus \in [Commands -> RelayStatuses]
  BY DEF DInv, DeliveryTypeOK
<1>1. CASE c \in cancelled
  BY <1>0, <1>1, EndsStay DEF CancelledIsOver
<1>2. CASE c \notin cancelled
  <2>1. \E d \in Commands : PurgeQueue(d)
    <3>1. ASSUME NEW n \in Conns, Read(n) PROVE cancelled' = cancelled
      BY <3>1 DEF Read, Register, SendAuthAck, ReadPending, FlushFind, FlushSend, RelayDies, FlushMark,
                  HandleCmdResult, HandleSyncReq, SendSyncResp, Unregister, histVars
    <3>2. ASSUME NEW d \in Commands, Handle(d), ~ PurgeQueue(d) PROVE cancelled' = cancelled
      BY <3>2 DEF Handle, EnqueueCommand, FindAgent, DispatchLive, RelayDies, MarkLive,
                  AnswerPredefined, FinishSandbox, histVars
    <3>3. ASSUME \/ UNCHANGED allVars \/ RelayCrash
                 \/ \E n \in Conns : Break(n)
                 \/ \E p \in Processes, n \in Conns : Dial(p, n)
          PROVE  cancelled' = cancelled
      BY <3>3 DEF RelayCrash, RelayDies, Break, Dial, allVars, deliveryVars, histVars
    <3> QED
      BY <1>2, <3>1, <3>2, <3>3, AgentLeavesRelay DEF DeliveryNext, Receive
  <2> QED
    BY <1>0, <1>2, <2>1 DEF PurgeQueue, Purged, Terminal
<1> QED
  BY <1>1, <1>2

-----------------------------------------------------------------------------
(* Why a command has ended.                                                *)

\* A command outside the predefined ones ends by a result or a clear-queue.
LEMMA EndsHandledKept ==
    ASSUME DInv, EndsOnlyWhenHandled, [DeliveryNext]_allVars, ~ Supabase
    PROVE  EndsOnlyWhenHandled'
<1> SUFFICES ASSUME NEW c \in Commands \ Predefined, rstatus'[c] \in Terminal
             PROVE  c \in cancelled' \/ \E k \in AttemptNos : <<c, k>> \in received'
  BY DEF EndsOnlyWhenHandled
<1>1. received \subseteq received' /\ cancelled \subseteq cancelled'
  BY HistoryGrows
<1>2. CASE rstatus[c] \in Terminal
  BY <1>1, <1>2 DEF EndsOnlyWhenHandled
<1>3. CASE Arrives(c)
  BY <1>3 DEF Arrives, Results
<1>4. CASE rstatus[c] \notin Terminal /\ ~ Arrives(c)
  BY <1>4, QueueSteps DEF QueueStep, Terminal
<1> QED
  BY <1>2, <1>3, <1>4

\* With the SQLite store, the sandbox is no substitute for the run on the agent: a
\* command ends at the relay only by the predefined responder, by a clear-queue or
\* by a result of its agent.
THEOREM EndsAreHandled ==
    ASSUME ~ Supabase PROVE DeliverySafety => []EndsOnlyWhenHandled
<1>1. DeliveryInit => EndsOnlyWhenHandled
  BY DEF DeliveryInit, EndsOnlyWhenHandled, Terminal
<1>2. (DInv /\ EndsOnlyWhenHandled) /\ [DeliveryNext]_allVars => (DInv /\ EndsOnlyWhenHandled)'
  BY DInvKept, EndsHandledKept
<1> QED
  BY <1>1, <1>2, DInvAtFirst, PTL DEF DeliverySafety

-----------------------------------------------------------------------------
(* What has been cancelled is not taken from the queue again.              *)

\* Messages that do not carry command c.
Without(c) == {m \in ToAgent : c \notin m.cmds}

\* A message goes to the agent only with commands that a handler or a flush holds.
LEMMA SentIsHeld ==
    ASSUME DInv, DInv', [DeliveryNext]_allVars, NEW c \in Commands, handler[c] # "found",
           \A n \in Conns : c \notin work[n].cmds,
           \A n \in Conns : \A i \in DOMAIN down[n] : c \notin down[n][i].cmds
    PROVE  \A n \in Conns : \A i \in DOMAIN down'[n] : c \notin down'[n][i].cmds
<1> DEFINE M == Without(c)
<1>1. ASSUME NEW n \in Conns PROVE down[n] \in Seq(M)
  <2>1. down[n] \in Seq(ToAgent)
    BY DEF DInv, DeliveryTypeOK
  <2>2. \A i \in 1 .. Len(down[n]) : down[n][i] \in M
    BY <2>1 DEF Without
  <2> HIDE DEF M
  <2> QED
    BY <2>1, <2>2
<1>2. down \in [Conns -> Seq(M)]
  BY <1>1 DEF DInv, DeliveryTypeOK
<1>3. Outgoing \subseteq M
  <2>1. \A n \in Conns : work[n].acks \in SUBSET Commands /\ work[n].cmds \in SUBSET Commands
    BY DEF DInv, DeliveryTypeOK
  <2>2. received' \subseteq Commands \X AttemptNos
    BY DEF DInv, DeliveryTypeOK
  <2> QED
    BY <2>1, <2>2 DEF Outgoing, Without, ToAgent, AuthAck, SyncResp, DispatchCmd, ResultAck
<1>4. down' \in [Conns -> Seq(M)]
  <2> HIDE DEF M
  <2> QED
    BY <1>2, <1>3, DownSteps, DownIn
<1> SUFFICES ASSUME NEW n \in Conns, NEW i \in DOMAIN down'[n] PROVE c \notin down'[n][i].cmds
  OBVIOUS
<1>5. down'[n] \in Seq(M)
  BY <1>4
<1>6. down'[n][i] \in M
  <2> HIDE DEF M
  <2> QED
    BY <1>5
<1> QED
  BY <1>6 DEF Without

\* A flush and a sync take from the queue what is PENDING.
LEMMA EndedIsNotTaken ==
    ASSUME DInv, [DeliveryNext]_allVars, ~ Supabase,
           NEW c \in Commands, rstatus[c] \in Terminal, NEW n \in Conns, c \notin work[n].cmds
    PROVE  c \notin work'[n].cmds
<1>0. work \in [Conns -> [target : Conns \cup {NoConn}, cmds : SUBSET Commands, acks : SUBSET Commands]]
  BY DEF DInv, DeliveryTypeOK
<1>1. c \notin GetPendingCommands(rstatus)
  BY DEF GetPendingCommands, Terminal
<1>2. ASSUME NEW m \in Conns, Read(m) PROVE c \notin work'[n].cmds
  <2>1. CASE HandleSyncReq(m)
    <3> DEFINE R == Head(up[m]).results
               after == [d \in Commands |-> SyncedStatus(d, R)]
               pending == GetPendingCommands(after)
               acks == {r[1] : r \in R}
    <3>1. work' = [work EXCEPT ![m].acks = acks, ![m].cmds = pending]
      BY <2>1 DEF HandleSyncReq
    <3>2. R \subseteq Results
      BY <2>1, ArrivedTypes DEF HandleSyncReq
    <3>3. SyncedStatus(c, R) \in Terminal
      <4> HIDE DEF R
      <4> QED
        BY <3>2, LastResult DEF StatusOfExit, Terminal
    <3>4. c \notin pending
      BY <3>3 DEF GetPendingCommands, Terminal
    <3> HIDE DEF pending, acks
    <3> QED
      BY <1>0, <3>1, <3>4
  <2>2. CASE ReadPending(m)
    <3>1. work' = work \/ work' = [work EXCEPT ![m].cmds = GetPendingCommands(rstatus)]
      BY <2>2 DEF ReadPending
    <3> QED
      BY <1>0, <1>1, <3>1
  <2>3. CASE FlushMark(m)
    <3>1. \/ work' = [work EXCEPT ![m] = NoWork]
          \/ work' = [work EXCEPT ![m] = [@ EXCEPT !.cmds = work[m].cmds \ {Least(work[m].cmds)}]]
      BY <2>3 DEF FlushMark
    <3> QED
      BY <1>0, <3>1 DEF NoWork
  <2>4. CASE FlushFind(m) \/ FlushSend(m) \/ SendSyncResp(m)
    BY <1>0, <2>4 DEF FlushFind, FlushSend, RelayDies, SendSyncResp, NoWork
  <2> QED
    BY <1>2, <2>1, <2>2, <2>3, <2>4
       DEF Read, Register, SendAuthAck, HandleCmdResult, Unregister, hubVars
<1>3. ASSUME NEW d \in Commands, Handle(d) PROVE c \notin work'[n].cmds
  BY <1>3 DEF Handle, EnqueueCommand, FindAgent, DispatchLive, RelayDies, MarkLive, PurgeQueue,
              AnswerPredefined, FinishSandbox, NoWork
<1>4. CASE \/ \E m \in Conns : Break(m)
           \/ RelayCrash \/ UNCHANGED allVars
           \/ \E p \in Processes, m \in Conns : Dial(p, m)
  BY <1>4 DEF Break, RelayCrash, RelayDies, Dial, NoWork, allVars, deliveryVars, hubVars
<1>5. CASE UNCHANGED work
  BY <1>5
<1> QED
  BY <1>2, <1>3, <1>4, <1>5, AgentLeavesRelay DEF DeliveryNext, Receive

\* A handler that is past its look-up does not look up again.
LEMMA HandlerGoesOn ==
    ASSUME DInv, [DeliveryNext]_allVars,
           NEW c \in Commands, handler[c] \notin {"new", "stored", "found"}
    PROVE  handler'[c] \notin {"stored", "found"}
<1>0. handler \in [Commands -> HandlerPhases]
  BY DEF DInv, DeliveryTypeOK
<1>1. ASSUME NEW d \in Commands, Handle(d) PROVE handler'[c] \notin {"stored", "found"}
  BY <1>0, <1>1 DEF Handle, EnqueueCommand, FindAgent, DispatchLive, RelayDies, MarkLive, PurgeQueue,
                    AnswerPredefined, FinishSandbox
<1>2. ASSUME NEW n \in Conns, Read(n) PROVE handler'[c] \notin {"stored", "found"}
  BY <1>0, <1>2 DEF Read, Register, SendAuthAck, ReadPending, FlushFind, FlushSend, RelayDies, FlushMark,
                    HandleCmdResult, HandleSyncReq, SendSyncResp, Unregister, hubVars
<1>3. CASE \/ UNCHANGED allVars \/ RelayCrash
           \/ \E n \in Conns : Break(n)
           \/ \E p \in Processes, n \in Conns : Dial(p, n)
  BY <1>3 DEF RelayCrash, RelayDies, Break, Dial, allVars, deliveryVars, hubVars
<1>4. CASE UNCHANGED handler
  BY <1>4
<1> QED
  BY <1>1, <1>2, <1>3, <1>4, AgentLeavesRelay DEF DeliveryNext, Receive

\* With the SQLite store, a clear-queue is final for the queue: a cancelled command
\* reaches the agent only from a handler or a flush that held it at that moment.
THEOREM CancelledStaysOut ==
    ASSUME ~ Supabase PROVE DeliverySafety => CancelledIsNotTaken
<1> DEFINE Inv == DInv /\ NewIsAbsent /\ CancelledIsOver
           NotTaken == \A c \in cancelled : ~ Taken(c) => ~ Taken(c)'
<1>1. DeliveryInit => NewIsAbsent /\ CancelledIsOver
  BY DEF DeliveryInit, NewIsAbsent, CancelledIsOver
<1>2. Inv /\ [DeliveryNext]_allVars => Inv'
  BY DInvKept, EndsStay, CancelledKept
<1>3. ASSUME Inv, [DeliveryNext]_allVars PROVE NotTaken
  <2> SUFFICES ASSUME NEW c \in cancelled, ~ Taken(c) PROVE ~ Taken(c)'
    OBVIOUS
  <2>1. c \in Commands /\ rstatus[c] \in Terminal /\ handler[c] \notin {"new", "stored", "found"}
    BY <1>3 DEF DInv, DeliveryTypeOK, CancelledIsOver, NewIsAbsent, Terminal, Taken
  <2>2. handler'[c] \notin {"stored", "found"}
    BY <1>3, <2>1, HandlerGoesOn
  <2>3. \A n \in Conns : c \notin work'[n].cmds
    BY <1>3, <2>1, EndedIsNotTaken DEF Taken
  <2>4. \A n \in Conns : \A i \in DOMAIN down'[n] : c \notin down'[n][i].cmds
    BY <1>2, <1>3, <2>1, SentIsHeld DEF Taken
  <2> QED
    BY <2>2, <2>3, <2>4 DEF Taken
<1>4. Inv /\ [DeliveryNext]_allVars => [NotTaken]_allVars
  BY <1>3
<1> QED
  BY <1>1, <1>2, <1>4, DInvAtFirst, PTL DEF DeliverySafety, CancelledIsNotTaken

-----------------------------------------------------------------------------
(* The outcome that the relay shows.                                       *)

\* A row of ResultQueue is written once.
LEMMA ResultsStay ==
    ASSUME IInv, [Next]_vars, NEW c \in Commands, NEW k \in AttemptNos, result[c][k] # "none"
    PROVE  result'[c][k] = result[c][k]
<1>0. result \in [Commands -> [AttemptNos -> ExitCodes \cup {"none"}]]
  BY DEF IInv, TypeOK
<1>1. ASSUME NEW p \in Processes, SaveResult(p) PROVE result'[c][k] = result[c][k]
  <2>1. result[cur[p]][att[p]] = "none" /\ cur[p] \in Commands /\ att[p] \in AttemptNos
    BY <1>1 DEF SaveResult, IInv, RowIsFree, ClaimIsPast, Busy
  <2>2. result' = result \/ result' = [result EXCEPT ![cur[p]][att[p]] = exit[p]]
    BY <1>1 DEF SaveResult, StoreError
  <2> QED
    BY <1>0, <2>1, <2>2
<1>2. ASSUME NEW p \in Processes,
             Start(p) \/ Execute(p) \/ Settle(p) \/ OnResult(p) \/ Stop(p)
             \/ \E d \in Commands : ClaimNext(p, d)
      PROVE  result' = result
  BY <1>2 DEF Start, RecoverStale, StoreError, Execute, Settle, OnResult, Stop, ClaimNext
<1>3. ASSUME \/ \E d \in Commands : Enqueue(d)
             \/ \E S \in SUBSET Commands : EnqueueWithID(S)
             \/ Tick \/ UNCHANGED vars
      PROVE  result' = result
  BY <1>3 DEF Enqueue, EnqueueWithID, Tick, vars
<1> QED
  BY <1>1, <1>2, <1>3 DEF Next, RunOnce

\* What a message says of a run happened: it is in ResultQueue, or it is the -1 of
\* a payload that does not decode.
Real(r) == result[r[1]][r[2]] = r[3] \/ (r[1] \in Undecodable /\ r[3] = "nonzero")
RealReports == {m \in Reports : \A r \in m.results : Real(r)}
ReportsAreReal == asend \in Seq(RealReports) /\ up \in [Conns -> Seq(RealReports)]

\* ReportResult and performSync send what was saved, and what was saved stays.
LEMMA RealKept ==
    ASSUME DInv, ReportsAreReal, [DeliveryNext]_allVars
    PROVE  ReportsAreReal'
<1>0. IInv /\ [Next]_vars
  BY StepOfWorker DEF DInv
<1>1. ASSUME NEW r \in Results, Real(r) PROVE Real(r)'
  <2>1. r[1] \in Commands /\ r[2] \in AttemptNos /\ r[3] \in ExitCodes
    BY DEF Results
  <2>2. result[r[1]][r[2]] = r[3] => result'[r[1]][r[2]] = r[3]
    BY <1>0, <2>1, ResultsStay DEF ExitCodes
  <2> QED
    BY <1>1, <2>2 DEF Real
<1>2. RealReports \subseteq RealReports'
  BY <1>1 DEF RealReports, Reports, ToRelay
<1>3. Produced \subseteq RealReports
  <2>1. \A S \in SUBSET Unsynced : SyncReq(S) \in RealReports
    BY DEF SyncReq, Unsynced, RealReports, Reports, ToRelay, Real
  <2>2. ASSUME NEW p \in Processes, pc[p] = "onResult"
        PROVE  [type |-> "CMD_RESULT", results |-> {<<cur[p], att[p], exit[p]>>}] \in RealReports
    <3>1. <<cur[p], att[p], exit[p]>> \in Results
      BY <2>2 DEF DInv, IInv, ClaimIsPast, ExitIsKnown, Busy, Results
    <3>2. Real(<<cur[p], att[p], exit[p]>>)
      BY <1>0, <2>2 DEF IInv, RowIsSaved, ExitIsKnown, Real
    <3> QED
      BY <3>1, <3>2 DEF RealReports, Reports, ToRelay
  <2> QED
    BY <2>1, <2>2 DEF Produced
<1>4. asend' \in Seq(RealReports) /\ up' \in [Conns -> Seq(RealReports)]
  BY <1>3, UpSteps, UpIn DEF ReportsAreReal
<1>5. asend' \in Seq(RealReports')
  BY <1>2, <1>4, SeqMonotonic
<1>6. ASSUME NEW n \in Conns PROVE up'[n] \in Seq(RealReports')
  <2>1. up'[n] \in Seq(RealReports)
    BY <1>4
  <2> QED
    BY <1>2, <2>1, SeqMonotonic
<1>7. up' \in [Conns -> Seq(RealReports')]
  BY <1>4, <1>6
<1> QED
  BY <1>5, <1>7 DEF ReportsAreReal

\* A status that a result gives is the status of a run.
LEMMA ArrivalIsReal ==
    ASSUME DInv, ReportsAreReal, [DeliveryNext]_allVars, ~ Supabase,
           NEW c \in Commands, Arrives(c)
    PROVE  \/ rstatus'[c] = "COMPLETED" /\ \E k \in AttemptNos : result'[c][k] = "zero"
           \/ /\ rstatus'[c] = "FAILED"
              /\ c \in Undecodable \/ \E k \in AttemptNos : result'[c][k] = "nonzero"
<1>1. PICK n \in Conns :
         /\ up[n] # << >>
         /\ \E r \in Head(up[n]).results :
               r \in Results /\ r[1] = c /\ rstatus'[c] = StatusOfExit(r[3])
  BY DEF Arrives
<1>2. PICK r \in Head(up[n]).results :
         r \in Results /\ r[1] = c /\ rstatus'[c] = StatusOfExit(r[3])
  BY <1>1
<1>3. Head(up[n]) \in RealReports
  <2>1. up[n] \in Seq(RealReports)
    BY DEF ReportsAreReal
  <2> QED
    BY <1>1, <2>1, SeqTypes
<1>4. Real(r)
  BY <1>2, <1>3 DEF RealReports
<1>5. r[2] \in AttemptNos /\ r[3] \in {"zero", "nonzero"}
  BY <1>2 DEF Results, ExitCodes
<1>6. result[c][r[2]] = r[3] => result'[c][r[2]] = r[3]
  BY <1>5, ResultsStay, StepOfWorker DEF DInv
<1> QED
  BY <1>2, <1>4, <1>5, <1>6 DEF Real, StatusOfExit

\* An outcome stays justified, and a new one is.
LEMMA OutcomeKept ==
    ASSUME DInv, ReportsAreReal, OutcomeIsReal, [DeliveryNext]_allVars, ~ Supabase
    PROVE  OutcomeIsReal'
<1> SUFFICES ASSUME NEW c \in Commands
             PROVE  /\ rstatus'[c] = "COMPLETED" =>
                          <<ById, Cloud>> \in rows'[c] \/ \E k \in AttemptNos : result'[c][k] = "zero"
                    /\ rstatus'[c] = "FAILED" =>
                          \/ c \in cancelled' \cup Undecodable
                          \/ \E k \in AttemptNos : result'[c][k] = "nonzero"
  BY DEF OutcomeIsReal
<1>1. CASE Arrives(c)
  BY <1>1, ArrivalIsReal
<1>2. CASE ~ Arrives(c) /\ rstatus'[c] = rstatus[c]
  <2>1. ASSUME NEW k \in AttemptNos, result[c][k] \in {"zero", "nonzero"}
        PROVE  result'[c][k] = result[c][k]
    BY <2>1, ResultsStay, StepOfWorker DEF DInv
  <2>2. cancelled \subseteq cancelled'
    BY HistoryGrows
  <2>3. rstatus[c] = "COMPLETED" /\ <<ById, Cloud>> \in rows[c] => <<ById, Cloud>> \in rows'[c]
    BY <1>2, QueueSteps
  <2> QED
    BY <1>2, <2>1, <2>2, <2>3 DEF OutcomeIsReal
<1>3. CASE ~ Arrives(c) /\ rstatus'[c] # rstatus[c]
  BY <1>3, QueueSteps DEF QueueStep
<1> QED
  BY <1>1, <1>2, <1>3

\* With the SQLite store, the outcome that the relay shows is one that happened,
\* whoever crashes and whatever arrives late or twice.
THEOREM OutcomesAreReal ==
    ASSUME ~ Supabase PROVE DeliverySafety => []OutcomeIsReal
<1> DEFINE Inv == DInv /\ ReportsAreReal /\ OutcomeIsReal
<1>1. DeliveryInit => ReportsAreReal /\ OutcomeIsReal
  <2> SUFFICES ASSUME DeliveryInit PROVE ReportsAreReal /\ OutcomeIsReal
    OBVIOUS
  <2>1. << >> \in Seq(RealReports)
    BY EmptySeq
  <2> QED
    BY <2>1 DEF DeliveryInit, ReportsAreReal, OutcomeIsReal
<1>2. Inv /\ [DeliveryNext]_allVars => Inv'
  BY DInvKept, RealKept, OutcomeKept
<1> QED
  BY <1>1, <1>2, DInvAtFirst, PTL DEF DeliverySafety

-----------------------------------------------------------------------------
(* The audit log.                                                          *)

\* A process past exec.Run has run its attempt, unless the payload did not decode ...
RunIsCounted ==
    \A p \in Processes :
        pc[p] \in {"ran", "saved", "onResult"} =>
            cur[p] \in Undecodable \/ executed[cur[p]][att[p]] = 1

\* ... and reports the attempt that ends the command.
ReportIsFinal ==
    \A p \in Processes :
        pc[p] = "onResult" =>
            cur[p] \in Undecodable \/ exit[p] = "zero" \/ att[p] = MaxAttempts

\* A run that was counted stays counted.
LEMMA RunsStay ==
    ASSUME IInv, [Next]_vars, NEW c \in Commands, NEW k \in AttemptNos, executed[c][k] = 1
    PROVE  executed'[c][k] = 1
<1>0. executed \in [Commands -> [AttemptNos -> Nat]]
  BY DEF IInv, TypeOK
<1>1. ASSUME NEW p \in Processes, Execute(p) PROVE executed'[c][k] = 1
  <2>1. /\ executed[cur[p]][att[p]] = 0 /\ cur[p] \in Commands /\ att[p] \in AttemptNos
        /\ ~ (cur[p] = c /\ att[p] = k)
    BY <1>1 DEF Execute, IInv, RowIsFree, ClaimIsPast, Busy
  <2>2. \/ executed' = executed
        \/ executed' = [executed EXCEPT ![cur[p]][att[p]] = executed[cur[p]][att[p]] + 1]
    BY <1>1 DEF Execute
  <2> QED
    BY <1>0, <2>1, <2>2
<1>2. ASSUME NEW p \in Processes,
             Start(p) \/ SaveResult(p) \/ Settle(p) \/ OnResult(p) \/ Stop(p)
             \/ \E d \in Commands : ClaimNext(p, d)
      PROVE  executed' = executed
  BY <1>2 DEF Start, SaveResult, Settle, OnResult, Stop, ClaimNext
<1>3. ASSUME \/ \E d \in Commands : Enqueue(d)
             \/ \E S \in SUBSET Commands : EnqueueWithID(S)
             \/ Tick \/ UNCHANGED vars
      PROVE  executed' = executed
  BY <1>3 DEF Enqueue, EnqueueWithID, Tick, vars
<1> QED
  BY <1>1, <1>2, <1>3 DEF Next, RunOnce

\* Both hold of the worker, whatever the other processes do.
LEMMA ReportsKept ==
    ASSUME IInv, RunIsCounted, ReportIsFinal, [Next]_vars
    PROVE  RunIsCounted' /\ ReportIsFinal'
<1>0. /\ pc \in [Processes -> Phases]
      /\ cur \in [Processes -> Commands \cup {Nobody}]
      /\ att \in [Processes -> Nat]
      /\ exit \in [Processes -> ExitCodes \cup {"none"}]
      /\ executed \in [Commands -> [AttemptNos -> Nat]]
  BY DEF IInv, TypeOK
<1> DEFINE Own(q) == <<pc[q], cur[q], att[q], exit[q]>>
           Kept(q) == /\ pc'[q] \in {"ran", "saved", "onResult"} =>
                            cur'[q] \in Undecodable \/ executed'[cur'[q]][att'[q]] = 1
                      /\ pc'[q] = "onResult" =>
                            cur'[q] \in Undecodable \/ exit'[q] = "zero" \/ att'[q] = MaxAttempts
<1>1. ASSUME NEW q \in Processes, Own(q)' = Own(q) PROVE Kept(q)
  <2>1. /\ pc'[q] = pc[q] /\ cur'[q] = cur[q] /\ att'[q] = att[q] /\ exit'[q] = exit[q]
    BY <1>1
  <2>2. pc[q] \in {"ran", "saved", "onResult"} => cur[q] \in Commands /\ att[q] \in AttemptNos
    BY DEF IInv, ClaimIsPast, Busy
  <2> QED
    BY <2>1, <2>2, RunsStay DEF RunIsCounted, ReportIsFinal
<1>2. ASSUME NEW p \in Processes, pc'[p] \in {"down", "idle", "claimed"},
             \A q \in Processes \ {p} : Own(q)' = Own(q)
      PROVE  \A q \in Processes : Kept(q)
  BY <1>1, <1>2
<1>3. ASSUME NEW p \in Processes, Start(p) \/ OnResult(p) \/ Stop(p)
                                  \/ \E c \in Commands : ClaimNext(p, c)
      PROVE  \A q \in Processes : Kept(q)
  <2>1. pc'[p] \in {"down", "idle", "claimed"} /\ \A q \in Processes \ {p} : Own(q)' = Own(q)
    BY <1>0, <1>3 DEF Start, OnResult, Stop, ClaimNext, Forget, memory
  <2> QED
    BY <1>2, <2>1
<1>4. ASSUME NEW p \in Processes, Execute(p) PROVE \A q \in Processes : Kept(q)
  <2>1. pc'[p] = "ran" /\ cur'[p] = cur[p] /\ att'[p] = att[p]
        /\ \A q \in Processes \ {p} : Own(q)' = Own(q)
    BY <1>0, <1>4 DEF Execute
  <2>2. cur[p] \in Commands /\ att[p] \in AttemptNos /\ executed[cur[p]][att[p]] = 0
    BY <1>4 DEF Execute, IInv, RowIsFree, ClaimIsPast, Busy
  <2>3. \/ cur[p] \in Undecodable
        \/ executed' = [executed EXCEPT ![cur[p]][att[p]] = executed[cur[p]][att[p]] + 1]
    BY <1>4 DEF Execute
  <2>4. cur[p] \in Undecodable \/ executed'[cur[p]][att[p]] = 1
    BY <1>0, <2>2, <2>3
  <2> QED
    BY <1>1, <2>1, <2>4
<1>5. ASSUME NEW p \in Processes, SaveResult(p) PROVE \A q \in Processes : Kept(q)
  <2>1. CASE pc'[p] = "idle"
    <3>1. \A q \in Processes \ {p} : Own(q)' = Own(q)
      BY <1>0, <1>5 DEF SaveResult, Forget, memory
    <3> QED
      BY <1>2, <2>1, <3>1
  <2>2. CASE pc'[p] # "idle"
    <3>1. /\ pc[p] = "ran" /\ pc'[p] = "saved" /\ cur'[p] = cur[p] /\ att'[p] = att[p]
          /\ executed' = executed /\ \A q \in Processes \ {p} : Own(q)' = Own(q)
      BY <1>0, <1>5, <2>2 DEF SaveResult, memory
    <3> QED
      BY <1>1, <3>1 DEF RunIsCounted
  <2> QED
    BY <2>1, <2>2
<1>6. ASSUME NEW p \in Processes, Settle(p) PROVE \A q \in Processes : Kept(q)
  <2>1. CASE Verdict(p) = "PENDING"
    <3>1. pc'[p] = "idle" /\ \A q \in Processes \ {p} : Own(q)' = Own(q)
      BY <1>0, <1>6, <2>1 DEF Settle, Forget
    <3> QED
      BY <1>2, <3>1
  <2>2. CASE Verdict(p) # "PENDING"
    <3>1. /\ pc[p] = "saved" /\ pc'[p] = "onResult" /\ UNCHANGED <<cur, att, exit, executed>>
          /\ \A q \in Processes \ {p} : Own(q)' = Own(q)
      BY <1>0, <1>6, <2>2 DEF Settle, memory
    <3>2. att[p] \in AttemptNos
      BY <3>1 DEF IInv, ClaimIsPast, Busy
    <3>3. cur[p] \in Undecodable \/ exit[p] = "zero" \/ att[p] = MaxAttempts
      BY <2>2, <3>2, AttemptNosAreNat, MaxAttemptsAssumption DEF Verdict
    <3> QED
      BY <1>1, <3>1, <3>3 DEF RunIsCounted
  <2> QED
    BY <2>1, <2>2
<1>7. ASSUME \/ \E d \in Commands : Enqueue(d)
             \/ \E S \in SUBSET Commands : EnqueueWithID(S)
             \/ Tick \/ UNCHANGED vars
      PROVE  \A q \in Processes : Kept(q)
  <2>1. \A q \in Processes : Own(q)' = Own(q)
    BY <1>7 DEF Enqueue, EnqueueWithID, Tick, memory, vars
  <2> QED
    BY <1>1, <2>1
<1>8. \A q \in Processes : Kept(q)
  BY <1>3, <1>4, <1>5, <1>6, <1>7 DEF Next, RunOnce
<1> QED
  BY <1>8 DEF RunIsCounted, ReportIsFinal

\* What CMD_RESULT says of a run: it was made, saved, and ended its command.
Final(r) ==
    \/ r[1] \in Undecodable
    \/ /\ executed[r[1]][r[2]] = 1 /\ result[r[1]][r[2]] = r[3]
       /\ r[3] = "zero" \/ r[2] = MaxAttempts
FinalReports == {m \in Reports : m.type = "CMD_RESULT" => \A r \in m.results : Final(r)}
ReportsAreFinal == asend \in Seq(FinalReports) /\ up \in [Conns -> Seq(FinalReports)]

\* The messages stay true of the agent's tables.
LEMMA FinalKept ==
    ASSUME DInv, RunIsCounted, ReportIsFinal, ReportsAreFinal, [DeliveryNext]_allVars
    PROVE  ReportsAreFinal'
<1>0. IInv /\ [Next]_vars
  BY StepOfWorker DEF DInv
<1>1. ASSUME NEW r \in Results, Final(r) PROVE Final(r)'
  <2>1. r[1] \in Commands /\ r[2] \in AttemptNos /\ r[3] \in ExitCodes
    BY DEF Results
  <2>2. result[r[1]][r[2]] = r[3] => result'[r[1]][r[2]] = r[3]
    BY <1>0, <2>1, ResultsStay DEF ExitCodes
  <2>3. executed[r[1]][r[2]] = 1 => executed'[r[1]][r[2]] = 1
    BY <1>0, <2>1, RunsStay
  <2> QED
    BY <1>1, <2>2, <2>3 DEF Final
<1>2. FinalReports \subseteq FinalReports'
  BY <1>1 DEF FinalReports, Reports, ToRelay
<1>3. Produced \subseteq FinalReports
  <2>1. \A S \in SUBSET Unsynced : SyncReq(S) \in FinalReports
    BY DEF SyncReq, Unsynced, FinalReports, Reports, ToRelay
  <2>2. ASSUME NEW p \in Processes, pc[p] = "onResult"
        PROVE  [type |-> "CMD_RESULT", results |-> {<<cur[p], att[p], exit[p]>>}] \in FinalReports
    <3>1. <<cur[p], att[p], exit[p]>> \in Results
      BY <2>2 DEF DInv, IInv, ClaimIsPast, ExitIsKnown, Busy, Results
    <3>2. Final(<<cur[p], att[p], exit[p]>>)
      BY <1>0, <2>2 DEF IInv, RowIsSaved, RunIsCounted, ReportIsFinal, Final
    <3> QED
      BY <3>1, <3>2 DEF FinalReports, Reports, ToRelay
  <2> QED
    BY <2>1, <2>2 DEF Produced
<1>4. asend' \in Seq(FinalReports) /\ up' \in [Conns -> Seq(FinalReports)]
  BY <1>3, UpSteps, UpIn DEF ReportsAreFinal
<1>5. asend' \in Seq(FinalReports')
  BY <1>2, <1>4, SeqMonotonic
<1>6. ASSUME NEW n \in Conns PROVE up'[n] \in Seq(FinalReports')
  <2>1. up'[n] \in Seq(FinalReports)
    BY <1>4
  <2> QED
    BY <1>2, <2>1, SeqMonotonic
<1>7. up' \in [Conns -> Seq(FinalReports')]
  BY <1>4, <1>6
<1> QED
  BY <1>5, <1>7 DEF ReportsAreFinal

\* Only handleCmdResult records EXEC_CMD.
LEMMA AuditSteps ==
    ASSUME [DeliveryNext]_allVars, DInv,
           NEW c \in Commands, audit'[c] = "EXEC_CMD", audit[c] # "EXEC_CMD"
    PROVE  \E n \in Conns : HandleCmdResult(n) /\ c = (CHOOSE x \in Head(up[n]).results : TRUE)[1]
<1>0. audit \in [Commands -> {"none", "CLOUD_EXEC", "CLOUD_SCRIPT_EXEC", "EXEC_CMD"}]
  BY DEF DInv, DeliveryTypeOK
<1>1. ASSUME NEW d \in Commands, NEW a \in {"CLOUD_EXEC", "CLOUD_SCRIPT_EXEC"}, RecordAuditLog(d, a)
      PROVE  FALSE
  BY <1>0, <1>1 DEF RecordAuditLog, SupabaseRecordAuditLog
<1>2. ASSUME NEW d \in Commands, Handle(d) PROVE FALSE
  BY <1>1, <1>2 DEF Handle, EnqueueCommand, FindAgent, DispatchLive, RelayDies, MarkLive, PurgeQueue,
                    AnswerPredefined, FinishSandbox, relayVars
<1>3. ASSUME NEW n \in Conns, Read(n), ~ HandleCmdResult(n) PROVE FALSE
  BY <1>3 DEF Read, Register, SendAuthAck, ReadPending, FlushFind, FlushSend, RelayDies, FlushMark,
              HandleSyncReq, SendSyncResp, Unregister, relayVars
<1>4. ASSUME NEW n \in Conns, HandleCmdResult(n)
      PROVE  c = (CHOOSE x \in Head(up[n]).results : TRUE)[1]
  <2> DEFINE r == CHOOSE x \in Head(up[n]).results : TRUE
  <2>1. RecordAuditLog(r[1], "EXEC_CMD")
    BY <1>4 DEF HandleCmdResult
  <2> HIDE DEF r
  <2>2. c = r[1]
    BY <1>0, <2>1 DEF RecordAuditLog, SupabaseRecordAuditLog
  <2> QED
    BY <2>2 DEF r
<1>5. ASSUME \/ UNCHANGED allVars \/ RelayCrash
             \/ \E n \in Conns : Break(n)
             \/ \E p \in Processes, n \in Conns : Dial(p, n)
      PROVE  FALSE
  BY <1>5 DEF RelayCrash, RelayDies, Break, Dial, allVars, deliveryVars, relayVars
<1> QED
  BY <1>2, <1>3, <1>4, <1>5, AgentLeavesRelay DEF DeliveryNext, Receive

\* The run that an audit record stands for.
Ended(c, k) ==
    /\ <<c, k>> \in received
    /\ \/ executed[c][k] = 1 /\ (result[c][k] = "zero" \/ k = MaxAttempts)
       \/ c \in Undecodable

LEMMA AuditKept ==
    ASSUME DInv, ReportsAreFinal, AuditIsReal, [DeliveryNext]_allVars
    PROVE  AuditIsReal'
<1>0. IInv /\ [Next]_vars /\ received \subseteq received'
  BY StepOfWorker, HistoryGrows DEF DInv
<1>1. ASSUME NEW c \in Commands, NEW k \in AttemptNos, Ended(c, k) PROVE Ended(c, k)'
  <2>1. executed[c][k] = 1 => executed'[c][k] = 1
    BY <1>0, RunsStay
  <2>2. result[c][k] = "zero" => result'[c][k] = "zero"
    BY <1>0, ResultsStay
  <2> QED
    BY <1>0, <1>1, <2>1, <2>2 DEF Ended
<1>2. ASSUME NEW n \in Conns, HandleCmdResult(n),
             NEW c \in Commands, c = (CHOOSE x \in Head(up[n]).results : TRUE)[1]
      PROVE  \E k \in AttemptNos : Ended(c, k)'
  <2> DEFINE r == CHOOSE x \in Head(up[n]).results : TRUE
  <2>1. up[n] # << >> /\ Head(up[n]).type = "CMD_RESULT" /\ received' = received \cup {<<r[1], r[2]>>}
    BY <1>2 DEF HandleCmdResult
  <2>2. Head(up[n]) \in FinalReports
    <3>1. up[n] \in Seq(FinalReports)
      BY DEF ReportsAreFinal
    <3> QED
      BY <2>1, <3>1, SeqTypes
  <2>3. r \in Results /\ Final(r)
    BY <2>1, <2>2 DEF FinalReports, Reports
  <2>4. c = r[1]
    BY <1>2
  <2> HIDE DEF r
  <2>5. r[2] \in AttemptNos /\ UNCHANGED <<executed, result>>
    <3>1. r[2] \in AttemptNos
      BY <2>3 DEF Results
    <3>2. UNCHANGED <<executed, result>>
      BY <1>2 DEF HandleCmdResult, vars
    <3> QED
      BY <3>1, <3>2
  <2>6. PICK k \in AttemptNos : k = r[2]
    BY <2>5
  <2>7. /\ <<c, k>> \in received'
        /\ \/ executed'[c][k] = 1 /\ (result'[c][k] = "zero" \/ k = MaxAttempts)
           \/ c \in Undecodable
    BY <2>1, <2>3, <2>4, <2>5, <2>6 DEF Final
  <2>8. Ended(c, k)'
    BY <2>7 DEF Ended
  <2> QED
    BY <2>8
<1> SUFFICES ASSUME NEW c \in Commands, audit'[c] = "EXEC_CMD"
             PROVE  \E k \in AttemptNos : Ended(c, k)'
  BY DEF AuditIsReal, Ended
<1>3. CASE audit[c] = "EXEC_CMD"
  <2>1. PICK k \in AttemptNos : Ended(c, k)
    BY <1>3 DEF AuditIsReal, Ended
  <2> QED
    BY <1>1, <2>1
<1>4. CASE audit[c] # "EXEC_CMD"
  BY <1>2, <1>4, AuditSteps
<1> QED
  BY <1>3, <1>4

\* With either store, and however often the agent, the relay and the connections
\* fail, EXEC_CMD in the audit log stands for a run of the agent that ended its
\* command and whose result the relay has saved.
THEOREM AuditNamesRuns == DeliverySafety => []AuditIsReal
<1> DEFINE Inv == DInv /\ RunIsCounted /\ ReportIsFinal /\ ReportsAreFinal /\ AuditIsReal
<1>1. DeliveryInit => RunIsCounted /\ ReportIsFinal /\ ReportsAreFinal /\ AuditIsReal
  <2> SUFFICES ASSUME DeliveryInit
               PROVE  RunIsCounted /\ ReportIsFinal /\ ReportsAreFinal /\ AuditIsReal
    OBVIOUS
  <2>1. << >> \in Seq(FinalReports)
    BY EmptySeq
  <2> QED
    BY <2>1 DEF DeliveryInit, Init, RunIsCounted, ReportIsFinal, ReportsAreFinal, AuditIsReal
<1>2. Inv /\ [DeliveryNext]_allVars => Inv'
  <2> SUFFICES ASSUME Inv, [DeliveryNext]_allVars PROVE Inv'
    OBVIOUS
  <2>1. RunIsCounted' /\ ReportIsFinal'
    BY StepOfWorker, ReportsKept DEF DInv
  <2> QED
    BY <2>1, DInvKept, FinalKept, AuditKept
<1> QED
  BY <1>1, <1>2, DInvAtFirst, PTL DEF DeliverySafety
=============================================================================
