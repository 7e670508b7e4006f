--------------------------- MODULE CommandDelivery ---------------------------
(***************************************************************************)
(* A command's way from a controller through the relay to one agent, and   *)
(* its result's way back: the relay's queue (internal/store, SQLite or     *)
(* Supabase), the hub's handlers (internal/hub/hub.go), the agent's        *)
(* connection (agent/internal/netclient/client.go) and, through the module *)
(* this one extends, the agent's queue and worker.                         *)
(*                                                                         *)
(* The goroutines that interleave are: the handler of each ENQUEUE_CMD or  *)
(* REST command; the readPump of each connection the device has at the     *)
(* relay; the agent's read loop, write pump and worker.  A store statement *)
(* is atomic.  All of it happens within one second, so that every ORDER BY *)
(* CreatedAt, CommandId is an order by CommandId.                          *)
(***************************************************************************)
EXTENDS AgentWorker, Sequences, FiniteSets

CONSTANTS
    Conns,        \* connections the device can have open at the relay at a time
    NoConn,
    Predefined,   \* commands tryExecutePredefinedOffline answers
    Clearing,     \* those of them that are clear-queue
    Large,        \* commands whose result exceeds the relay's read limit (16 MB)
    Unstored,     \* commands whose insert into the agent's queue may fail
    Supabase,     \* whether the store is the Supabase backend
    Cap,          \* capacity of a send channel (64)
    SyncLimit,    \* results performSync sends (50)
    MaxBreaks,    \* bound: connections the network breaks
    MaxRestarts   \* bound: relay processes that die

ASSUME SetsAssumption ==
    /\ NoConn \notin Conns
    /\ Predefined \subseteq Commands /\ Large \subseteq Commands
    /\ Clearing \subseteq Predefined /\ Unstored \subseteq Commands
ASSUME LimitsAssumption == Cap \in Nat \ {0} /\ SyncLimit \in Nat \ {0}
ASSUME BackendAssumption == Supabase \in BOOLEAN
ASSUME FaultsAssumption == MaxBreaks \in Nat /\ MaxRestarts \in Nat

VARIABLES
    rstatus,    \* CloudCommandQueue.Status, "NONE" when there is no row
    rows,       \* CloudResultQueue: <<ResultId, source>> pairs of a command
    audit,      \* AuditLogs: ActionType of the record with LogId = CommandId
    agentConn,  \* h.agents[deviceID]
    handler,    \* where the handler of a command is
    found,      \* the connection that handler has looked up
    reader,     \* where the readPump of a connection is
    work,       \* that readPump's local variables
    link,       \* whether a connection still carries messages
    down, up,   \* messages on their way to and from the agent
    aconn,      \* the connection connectAndServe is serving
    serving,    \* whether it has read AUTH_ACK
    asend,      \* Client.send of the netclient, kept across connections
    synced,     \* ResultQueue.Synced
    received,   \* history: results of the agent saved by the relay
    cancelled,  \* history: commands a clear-queue has said it cancelled
    breaks, restarts

relayVars == <<rstatus, rows, audit>>
hubVars == <<agentConn, handler, found, reader, work>>
netVars == <<link, down, up>>
clientVars == <<aconn, serving, asend, synced>>
histVars == <<received, cancelled>>
faultVars == <<breaks, restarts>>
deliveryVars == <<relayVars, hubVars, netVars, clientVars, histVars, faultVars>>
allVars == <<vars, deliveryVars>>

RelayStatuses == {"NONE", "PENDING", "DISPATCHED"} \cup Terminal
HandlerPhases == {"new", "stored", "found", "sent", "offline", "purged", "done"}
ReaderPhases == {"closed", "auth", "registered", "flush", "flushFind", "flushSend",
                 "flushMark", "open", "respond"}

\* A result's row: the ResultId is the CommandID (ById) or the uuid of the row
\* of an attempt; its source is the cloud or an attempt.
ById == 0
Cloud == 0
RowKeys == {ById} \cup AttemptNos

\* Envelopes to the agent: what it is asked to run and what is acknowledged.
ToAgent == [type : {"AUTH_ACK", "DISPATCH_CMD", "RESULT_ACK", "SYNC_RESP"},
            cmds : SUBSET Commands, acks : SUBSET Commands]
AuthAck == [type |-> "AUTH_ACK", cmds |-> {}, acks |-> {}]
DispatchCmd(c) == [type |-> "DISPATCH_CMD", cmds |-> {c}, acks |-> {}]
ResultAck(c) == [type |-> "RESULT_ACK", cmds |-> {}, acks |-> {c}]
SyncResp(acks, cmds) == [type |-> "SYNC_RESP", cmds |-> cmds, acks |-> acks]

\* Envelopes from the agent: results, each <<command, attempt, exit code>>.
Results == Commands \X AttemptNos \X ExitCodes
ToRelay == [type : {"CMD_RESULT", "SYNC_REQ"}, results : SUBSET Results]

NoWork == [target |-> NoConn, cmds |-> {}, acks |-> {}]

DeliveryTypeOK ==
    /\ TypeOK
    /\ rstatus \in [Commands -> RelayStatuses]
    /\ rows \in [Commands -> SUBSET (RowKeys \X RowKeys)]
    /\ audit \in [Commands -> {"none", "CLOUD_EXEC", "CLOUD_SCRIPT_EXEC", "EXEC_CMD"}]
    /\ agentConn \in Conns \cup {NoConn}
    /\ handler \in [Commands -> HandlerPhases]
    /\ found \in [Commands -> Conns \cup {NoConn}]
    /\ reader \in [Conns -> ReaderPhases]
    /\ work \in [Conns -> [target : Conns \cup {NoConn},
                           cmds : SUBSET Commands, acks : SUBSET Commands]]
    /\ link \in [Conns -> BOOLEAN]
    /\ down \in [Conns -> Seq(ToAgent)]
    /\ up \in [Conns -> Seq(ToRelay)]
    /\ aconn \in Conns \cup {NoConn}
    /\ serving \in BOOLEAN
    /\ asend \in Seq(ToRelay)
    /\ synced \in [Commands -> [AttemptNos -> BOOLEAN]]
    /\ received \subseteq Commands \X AttemptNos
    /\ cancelled \subseteq Commands
    /\ breaks \in Nat /\ restarts \in Nat

DeliveryInit ==
    /\ Init
    /\ rstatus = [c \in Commands |-> "NONE"]
    /\ rows = [c \in Commands |-> {}]
    /\ audit = [c \in Commands |-> "none"]
    /\ agentConn = NoConn
    /\ handler = [c \in Commands |-> "new"]
    /\ found = [c \in Commands |-> NoConn]
    /\ reader = [n \in Conns |-> "closed"]
    /\ work = [n \in Conns |-> NoWork]
    /\ link = [n \in Conns |-> FALSE]
    /\ down = [n \in Conns |-> << >>]
    /\ up = [n \in Conns |-> << >>]
    /\ aconn = NoConn
    /\ serving = FALSE
    /\ asend = << >>
    /\ synced = [c \in Commands |-> [k \in AttemptNos |-> FALSE]]
    /\ received = {}
    /\ cancelled = {}
    /\ breaks = 0 /\ restarts = 0

-----------------------------------------------------------------------------
(* The relay's store, the statements that change the queue.                *)

Least(S) == CHOOSE c \in S : \A d \in S : c <= d

\* Mutant: the agent's status name.
MarkCommandDispatched_Executing(S) ==
    rstatus' = [c \in Commands |->
        IF c \in S /\ rstatus[c] = "PENDING" THEN "EXECUTING" ELSE rstatus[c]]

\* Supabase patches the row by command_id=eq. alone.
SupabaseMarkDispatched(S) ==
    rstatus' = [c \in Commands |-> IF c \in S THEN "DISPATCHED" ELSE rstatus[c]]

\* SQLite: Status = DISPATCHED WHERE Status = PENDING
MarkCommandDispatched(S) ==
    IF Supabase THEN SupabaseMarkDispatched(S)
    ELSE rstatus' = [c \in Commands |->
             IF c \in S /\ rstatus[c] = "PENDING" THEN "DISPATCHED" ELSE rstatus[c]]

GetPendingCommands(st) == {c \in Commands : st[c] = "PENDING"}

\* Supabase gives every row a fresh uuid, for which its source stands.
ResultKey(id, source) == IF Supabase THEN source ELSE id

\* INSERT ... ON CONFLICT(ResultId) DO UPDATE
Upsert(S, id, source) ==
    LET key == ResultKey(id, source) IN {r \in S : r[1] # key} \cup {<<key, source>>}

\* Supabase posts with resolution=merge-duplicates: the last record stays.
SupabaseRecordAuditLog(c, action) == audit' = [audit EXCEPT ![c] = action]

\* SQLite: the LogId is a primary key, a second record of the command is not
\* inserted.
RecordAuditLog(c, action) ==
    IF Supabase THEN SupabaseRecordAuditLog(c, action)
    ELSE audit' = [audit EXCEPT ![c] = IF @ = "none" THEN action ELSE @]

\* Mutant: SaveResult does not look at ExitCode.
StatusOfExit_Ignored(e) == "COMPLETED"

\* The status SaveResult gives the command.  Supabase: always COMPLETED.
StatusOfExit(e) == IF Supabase \/ e = "zero" THEN "COMPLETED" ELSE "FAILED"

\* Mutant: the sandbox counts as the run of the command.
SandboxStatus_Completed(c) == "COMPLETED"

\* SaveSandboxResult leaves the status alone; in Supabase it is SaveResult.
SandboxStatus(c) == IF Supabase THEN StatusOfExit("zero") ELSE rstatus[c]

\* Client.Send: dropped when the channel is full; on a broken connection the
\* write pump loses the message.
Sent(n, m) ==
    IF link[n] /\ Len(down[n]) < Cap THEN [down EXCEPT ![n] = Append(@, m)] ELSE down

-----------------------------------------------------------------------------
(* handleEnqueueCmd and EnqueueDirect, one handler per command.            *)

EnqueueCommand(c) ==
    /\ handler[c] = "new"
    /\ rstatus' = [rstatus EXCEPT ![c] = "PENDING"]
    /\ handler' = [handler EXCEPT ![c] = "stored"]
    /\ UNCHANGED <<vars, rows, audit, agentConn, found, reader, work, netVars, clientVars,
                   histVars, faultVars>>

FindAgent(c) ==
    /\ handler[c] = "stored"
    /\ \/ /\ agentConn # NoConn
          /\ handler' = [handler EXCEPT ![c] = "found"]
          /\ found' = [found EXCEPT ![c] = agentConn]
       \/ /\ agentConn = NoConn
          /\ handler' = [handler EXCEPT ![c] = "offline"]
          /\ UNCHANGED found
    /\ UNCHANGED <<vars, relayVars, agentConn, reader, work, netVars, clientVars,
                   histVars, faultVars>>

\* A Send on the channel of a connection that has been unregistered panics.  In a
\* readPump that is the end of the relay process.
RelayDies ==
    /\ agentConn' = NoConn
    /\ handler' = [c \in Commands |-> IF handler[c] = "new" THEN "new" ELSE "done"]
    /\ found' = [c \in Commands |-> NoConn]
    /\ reader' = [n \in Conns |-> "closed"]
    /\ work' = [n \in Conns |-> NoWork]
    /\ link' = [n \in Conns |-> FALSE]
    /\ up' = [n \in Conns |-> << >>]
    /\ UNCHANGED <<vars, relayVars, down, clientVars, histVars, breaks>>

\* The Send comes before the status change.  A REST command's panic is recovered by
\* net/http: only its handler ends.
DispatchLive(c) ==
    /\ handler[c] = "found"
    /\ \/ /\ reader[found[c]] # "closed"
          /\ down' = Sent(found[c], DispatchCmd(c))
          /\ handler' = [handler EXCEPT ![c] = "sent"]
          /\ found' = [found EXCEPT ![c] = NoConn]
          /\ UNCHANGED <<vars, relayVars, agentConn, reader, work, link, up, clientVars,
                         histVars, faultVars>>
       \/ reader[found[c]] = "closed" /\ RelayDies /\ UNCHANGED restarts
       \/ /\ reader[found[c]] = "closed"
          /\ handler' = [handler EXCEPT ![c] = "done"]
          /\ found' = [found EXCEPT ![c] = NoConn]
          /\ UNCHANGED <<vars, relayVars, agentConn, reader, work, netVars, clientVars,
                         histVars, faultVars>>

\* Mutant: the command is recorded as executed when it is dispatched.
MarkLive_Audited(c) ==
    /\ handler[c] = "sent"
    /\ MarkCommandDispatched({c})
    /\ RecordAuditLog(c, "EXEC_CMD")
    /\ handler' = [handler EXCEPT ![c] = "done"]
    /\ UNCHANGED <<vars, rows, agentConn, found, reader, work, netVars, clientVars,
                   histVars, faultVars>>

MarkLive(c) ==
    /\ handler[c] = "sent"
    /\ MarkCommandDispatched({c})
    /\ handler' = [handler EXCEPT ![c] = "done"]
    /\ UNCHANGED <<vars, rows, audit, agentConn, found, reader, work, netVars, clientVars,
                   histVars, faultVars>>

\* What a clear-queue finds PENDING, itself included.
Purged == {d \in Commands : rstatus[d] = "PENDING"}

\* Mutant: success is answered and no row is changed.
PurgeQueue_NoEffect(c) ==
    /\ handler[c] = "offline" /\ c \in Clearing
    /\ cancelled' = cancelled \cup Purged
    /\ handler' = [handler EXCEPT ![c] = "purged"]
    /\ UNCHANGED <<vars, relayVars, agentConn, found, reader, work, netVars, clientVars,
                   received, faultVars>>

\* CancelPendingCommands of a clear-queue.  In Supabase it does nothing.
PurgeQueue(c) ==
    /\ handler[c] = "offline" /\ c \in Clearing
    /\ rstatus' = [d \in Commands |->
           IF d \in Purged /\ ~ Supabase THEN "FAILED" ELSE rstatus[d]]
    /\ cancelled' = cancelled \cup Purged
    /\ handler' = [handler EXCEPT ![c] = "purged"]
    /\ UNCHANGED <<vars, rows, audit, agentConn, found, reader, work, netVars, clientVars,
                   received, faultVars>>

\* Mutant: the answer of the cloud is not saved.
AnswerPredefined_Unsaved(c) ==
    /\ c \in Predefined /\ handler[c] = IF c \in Clearing THEN "purged" ELSE "offline"
    /\ rstatus' = [rstatus EXCEPT ![c] = "COMPLETED"]
    /\ RecordAuditLog(c, "CLOUD_EXEC")
    /\ handler' = [handler EXCEPT ![c] = "done"]
    /\ UNCHANGED <<vars, rows, agentConn, found, reader, work, netVars, clientVars, histVars,
                   faultVars>>

\* tryExecutePredefinedOffline has its answer: SaveResult, COMPLETED, audit.
AnswerPredefined(c) ==
    /\ c \in Predefined /\ handler[c] = IF c \in Clearing THEN "purged" ELSE "offline"
    /\ rows' = [rows EXCEPT ![c] = Upsert(@, ById, Cloud)]
    /\ rstatus' = [rstatus EXCEPT ![c] = "COMPLETED"]
    /\ RecordAuditLog(c, "CLOUD_EXEC")
    /\ handler' = [handler EXCEPT ![c] = "done"]
    /\ UNCHANGED <<vars, agentConn, found, reader, work, netVars, clientVars, histVars, faultVars>>

\* executeCloudSandbox takes up to its timeout; then SaveSandboxResult, audit.
FinishSandbox(c) ==
    /\ handler[c] = "offline" /\ c \notin Predefined
    /\ rows' = [rows EXCEPT ![c] = Upsert(@, ById, Cloud)]
    /\ rstatus' = [rstatus EXCEPT ![c] = SandboxStatus(c)]
    /\ RecordAuditLog(c, "CLOUD_SCRIPT_EXEC")
    /\ handler' = [handler EXCEPT ![c] = "done"]
    /\ UNCHANGED <<vars, agentConn, found, reader, work, netVars, clientVars, histVars, faultVars>>

Handle(c) ==
    \/ EnqueueCommand(c) \/ FindAgent(c) \/ DispatchLive(c) \/ MarkLive(c)
    \/ PurgeQueue(c) \/ AnswerPredefined(c) \/ FinishSandbox(c)

-----------------------------------------------------------------------------
(* The readPump of connection n at the relay.                              *)

Goto(n, phase) == reader' = [reader EXCEPT ![n] = phase]

\* handleAuth under h.mu: the new connection replaces the old one, which is
\* closed.  AUTH_ACK is sent after the unlock.
Register(n) ==
    /\ reader[n] = "auth"
    /\ agentConn' = n
    /\ link' = [m \in Conns |-> link[m] /\ (m = n \/ m # agentConn)]
    /\ Goto(n, "registered")
    /\ UNCHANGED <<vars, relayVars, handler, found, work, down, up, clientVars, histVars, faultVars>>

SendAuthAck(n) ==
    /\ reader[n] = "registered"
    /\ down' = Sent(n, AuthAck)
    /\ Goto(n, "flush")
    /\ UNCHANGED <<vars, relayVars, agentConn, handler, found, work, link, up, clientVars,
                   histVars, faultVars>>

\* flushPendingCommands: the list is read first ...
ReadPending(n) ==
    /\ reader[n] = "flush"
    /\ IF GetPendingCommands(rstatus) = {}
         THEN Goto(n, "open") /\ UNCHANGED work
         ELSE /\ Goto(n, "flushFind")
              /\ work' = [work EXCEPT ![n].cmds = GetPendingCommands(rstatus)]
    /\ UNCHANGED <<vars, relayVars, agentConn, handler, found, netVars, clientVars, histVars, faultVars>>

\* ... then the connection, which need not be n any more.
FlushFind(n) ==
    /\ reader[n] = "flushFind"
    /\ IF agentConn = NoConn
         THEN Goto(n, "open") /\ work' = [work EXCEPT ![n] = NoWork]
         ELSE Goto(n, "flushSend") /\ work' = [work EXCEPT ![n].target = agentConn]
    /\ UNCHANGED <<vars, relayVars, agentConn, handler, found, netVars, clientVars, histVars, faultVars>>

FlushSend(n) ==
    LET c == Least(work[n].cmds)
        t == work[n].target IN
    /\ reader[n] = "flushSend"
    /\ \/ /\ reader[t] # "closed"
          /\ down' = Sent(t, DispatchCmd(c))
          /\ Goto(n, "flushMark")
          /\ UNCHANGED <<vars, relayVars, agentConn, handler, found, work, link, up, clientVars,
                         histVars, faultVars>>
       \/ reader[t] = "closed" /\ RelayDies /\ UNCHANGED restarts

\* Mutant: the flush ends after its first command.
FlushMark_First(n) ==
    /\ reader[n] = "flushMark"
    /\ MarkCommandDispatched({Least(work[n].cmds)})
    /\ work' = [work EXCEPT ![n] = NoWork]
    /\ Goto(n, "open")
    /\ UNCHANGED <<vars, rows, audit, agentConn, handler, found, netVars, clientVars,
                   histVars, faultVars>>

FlushMark(n) ==
    LET c == Least(work[n].cmds)
        rest == work[n].cmds \ {c} IN
    /\ reader[n] = "flushMark"
    /\ MarkCommandDispatched({c})
    /\ work' = [work EXCEPT ![n] = IF rest = {} THEN NoWork ELSE [@ EXCEPT !.cmds = rest]]
    /\ Goto(n, IF rest = {} THEN "open" ELSE "flushSend")
    /\ UNCHANGED <<vars, rows, audit, agentConn, handler, found, netVars, clientVars, histVars, faultVars>>

\* The next message exceeds SetReadLimit: ReadMessage will return an error.
TooLarge(n) == up[n] # << >> /\ \E r \in Head(up[n]).results : r[1] \in Large

\* handleCmdResult: ReportResult leaves ResultID empty, so the row's ResultId is
\* the CommandID.
HandleCmdResult(n) ==
    LET r == CHOOSE x \in Head(up[n]).results : TRUE IN
    /\ reader[n] = "open" /\ up[n] # << >> /\ Head(up[n]).type = "CMD_RESULT" /\ ~ TooLarge(n)
    /\ rows' = [rows EXCEPT ![r[1]] = Upsert(@, ById, r[2])]
    /\ rstatus' = [rstatus EXCEPT ![r[1]] = IF @ = "NONE" THEN @ ELSE StatusOfExit(r[3])]
    /\ received' = received \cup {<<r[1], r[2]>>}
    /\ RecordAuditLog(r[1], "EXEC_CMD")
    /\ down' = Sent(n, ResultAck(r[1]))
    /\ up' = [up EXCEPT ![n] = Tail(@)]
    /\ UNCHANGED <<vars, hubVars, link, clientVars, cancelled, faultVars>>

\* The results of a command arrive in the order they were executed in: the
\* last of them gives the status.
SyncedStatus(c, R) ==
    LET mine == {r \in R : r[1] = c} IN
    IF mine = {} \/ rstatus[c] = "NONE" THEN rstatus[c]
    ELSE StatusOfExit((CHOOSE r \in mine : \A s \in mine : s[2] <= r[2])[3])

\* handleSyncReq up to its Send: the results are saved under their own ids and
\* not audited; then all that is PENDING is marked DISPATCHED.
HandleSyncReq(n) ==
    LET R == Head(up[n]).results
        after == [c \in Commands |-> SyncedStatus(c, R)]
        pending == GetPendingCommands(after) IN
    /\ reader[n] = "open" /\ up[n] # << >> /\ Head(up[n]).type = "SYNC_REQ" /\ ~ TooLarge(n)
    /\ rows' = [c \in Commands |->
           LET mine == {r[2] : r \in {x \in R : x[1] = c}} IN
           {x \in rows[c] : x[1] \notin mine} \cup {<<k, k>> : k \in mine}]
    /\ rstatus' = [c \in Commands |-> IF c \in pending THEN "DISPATCHED" ELSE after[c]]
    /\ received' = received \cup {<<r[1], r[2]>> : r \in R}
    /\ work' = [work EXCEPT ![n].acks = {r[1] : r \in R}, ![n].cmds = pending]
    /\ Goto(n, "respond")
    /\ up' = [up EXCEPT ![n] = Tail(@)]
    /\ UNCHANGED <<vars, audit, agentConn, handler, found, link, down, clientVars, cancelled, faultVars>>

SendSyncResp(n) ==
    /\ reader[n] = "respond"
    /\ down' = Sent(n, SyncResp(work[n].acks, work[n].cmds))
    /\ work' = [work EXCEPT ![n] = NoWork]
    /\ Goto(n, "open")
    /\ UNCHANGED <<vars, relayVars, agentConn, handler, found, link, up, clientVars, histVars, faultVars>>

\* readPump gets an error, from a broken connection or a message that is too
\* large: unregister removes the connection if it is still the device's, and
\* closes its channel; then the connection is closed.
Unregister(n) ==
    /\ reader[n] \in {"auth", "open"} /\ (~ link[n] \/ TooLarge(n))
    /\ link' = [link EXCEPT ![n] = FALSE]
    /\ agentConn' = IF agentConn = n THEN NoConn ELSE agentConn
    /\ Goto(n, "closed")
    /\ up' = [up EXCEPT ![n] = << >>]
    /\ UNCHANGED <<vars, relayVars, handler, found, work, down, clientVars, histVars, faultVars>>

Read(n) ==
    \/ Register(n) \/ SendAuthAck(n)
    \/ ReadPending(n) \/ FlushFind(n) \/ FlushSend(n) \/ FlushMark(n)
    \/ HandleCmdResult(n) \/ HandleSyncReq(n) \/ SendSyncResp(n) \/ Unregister(n)

-----------------------------------------------------------------------------
(* The agent's netclient.                                                  *)

\* Client.Send: dropped when the channel is full.
Queued(q, m) == IF Len(q) < Cap THEN Append(q, m) ELSE q

Unsynced ==
    {r \in Results : result[r[1]][r[2]] = r[3] /\ ~ synced[r[1]][r[2]]}

\* ListUnsyncedResults: SyncLimit rows by ExecutedAt, in whose second any order
\* is possible.
Batches == {S \in SUBSET Unsynced :
               \/ S = Unsynced /\ Cardinality(S) <= SyncLimit
               \/ Cardinality(S) = SyncLimit}

\* performSync: each result with its own ResultId.
SyncReq(S) == [type |-> "SYNC_REQ", results |-> S]

\* Mutant: Run returns after the first connection that fails.
Dial_Once(p, n) ==
    /\ breaks + restarts = 0
    /\ pc[p] # "down" /\ aconn = NoConn
    /\ reader[n] = "closed" /\ \A m \in Conns : work[m].target # n
    /\ \A c \in Commands : found[c] # n
    /\ aconn' = n
    /\ serving' = FALSE
    /\ link' = [link EXCEPT ![n] = TRUE]
    /\ down' = [down EXCEPT ![n] = << >>]
    /\ Goto(n, "auth")
    /\ UNCHANGED <<vars, relayVars, agentConn, handler, found, work, up, asend, synced,
                   histVars, faultVars>>

\* connectAndServe dials and writes AUTH.
Dial(p, n) ==
    /\ pc[p] # "down" /\ aconn = NoConn
    /\ reader[n] = "closed" /\ \A m \in Conns : work[m].target # n
    /\ \A c \in Commands : found[c] # n
    /\ aconn' = n
    /\ serving' = FALSE
    /\ link' = [link EXCEPT ![n] = TRUE]
    /\ down' = [down EXCEPT ![n] = << >>]
    /\ Goto(n, "auth")
    /\ UNCHANGED <<vars, relayVars, agentConn, handler, found, work, up, asend, synced,
                   histVars, faultVars>>

\* Mutant: no performSync after AUTH_ACK.
ReadAuthAck_NoSync(p) ==
    /\ pc[p] # "down" /\ aconn # NoConn /\ ~ serving /\ down[aconn] # << >>
    /\ serving' = TRUE
    /\ down' = [down EXCEPT ![aconn] = Tail(@)]
    /\ UNCHANGED <<vars, relayVars, hubVars, link, up, aconn, asend, synced, histVars, faultVars>>

\* The first message read must be AUTH_ACK: performSync follows.  Any other
\* message decodes as a refusal and the connection is closed.
ReadAuthAck(p) ==
    /\ pc[p] # "down" /\ aconn # NoConn /\ ~ serving /\ down[aconn] # << >>
    /\ IF Head(down[aconn]).type = "AUTH_ACK"
         THEN /\ serving' = TRUE
              /\ down' = [down EXCEPT ![aconn] = Tail(@)]
              /\ \E S \in Batches : asend' = Queued(asend, SyncReq(S))
              /\ UNCHANGED <<aconn, link>>
         ELSE /\ aconn' = NoConn
              /\ down' = [down EXCEPT ![aconn] = << >>]
              /\ link' = [link EXCEPT ![aconn] = FALSE]
              /\ UNCHANGED <<serving, asend>>
    /\ UNCHANGED <<vars, relayVars, hubVars, up, synced, histVars, faultVars>>

\* UPDATE ResultQueue SET Synced = 1 WHERE CommandId = ?: every row of it.
MarkResultSynced(S) ==
    synced' = [c \in Commands |-> [k \in AttemptNos |->
        synced[c][k] \/ (c \in S /\ result[c][k] # "none")]]

\* handleIncoming: acknowledged results, then commands; an error of
\* EnqueueWithID is ignored and that command is dropped.
HandleIncoming(p) ==
    LET m == Head(down[aconn]) IN
    /\ pc[p] # "down" /\ aconn # NoConn /\ serving /\ down[aconn] # << >>
    /\ MarkResultSynced(m.acks)
    /\ \/ EnqueueWithID(m.cmds)
       \/ \E c \in m.cmds \cap Unstored : EnqueueWithID(m.cmds \ {c})
    /\ down' = [down EXCEPT ![aconn] = Tail(@)]
    /\ UNCHANGED <<relayVars, hubVars, link, up, aconn, serving, asend, histVars, faultVars>>

\* Mutant: results are marked as synced when they are written.
WritePump_Marks(p) ==
    /\ pc[p] # "down" /\ aconn # NoConn /\ serving /\ asend # << >>
    /\ up' = IF link[aconn] THEN [up EXCEPT ![aconn] = Append(@, Head(asend))] ELSE up
    /\ asend' = Tail(asend)
    /\ MarkResultSynced({r[1] : r \in Head(asend).results})
    /\ UNCHANGED <<vars, relayVars, hubVars, link, down, aconn, serving, histVars, faultVars>>

WritePump(p) ==
    /\ pc[p] # "down" /\ aconn # NoConn /\ serving /\ asend # << >>
    /\ up' = IF link[aconn] THEN [up EXCEPT ![aconn] = Append(@, Head(asend))] ELSE up
    /\ asend' = Tail(asend)
    /\ UNCHANGED <<vars, relayVars, hubVars, link, down, aconn, serving, synced,
                   histVars, faultVars>>

\* readLoop gets an error and connectAndServe returns.  The write pump may take
\* one more message before it sees its context cancelled, and lose it.
Disconnect(p) ==
    /\ aconn # NoConn /\ ~ link[aconn]
    /\ aconn' = NoConn
    /\ serving' = FALSE
    /\ down' = [down EXCEPT ![aconn] = << >>]
    /\ \/ UNCHANGED asend
       \/ serving /\ asend # << >> /\ asend' = Tail(asend)
    /\ UNCHANGED <<vars, relayVars, hubVars, link, up, synced, histVars, faultVars>>

\* ReportResult queues CMD_RESULT, connected or not.
ReportResult(p) ==
    /\ OnResult(p)
    /\ asend' = Queued(asend, [type |-> "CMD_RESULT",
                               results |-> {<<cur[p], att[p], exit[p]>>}])
    /\ UNCHANGED <<relayVars, hubVars, netVars, aconn, serving, synced, histVars, faultVars>>

AgentStops(p) ==
    /\ Stop(p)
    /\ aconn' = NoConn
    /\ serving' = FALSE
    /\ asend' = << >>
    /\ link' = [n \in Conns |-> link[n] /\ n # aconn]
    /\ down' = [n \in Conns |-> IF n = aconn THEN << >> ELSE down[n]]
    /\ UNCHANGED <<relayVars, hubVars, up, synced, histVars, faultVars>>

Work(p) ==
    /\ \/ Start(p)
       \/ \E c \in Commands : ClaimNext(p, c)
       \/ Execute(p)
       \/ SaveResult(p)
       \/ Settle(p)
    /\ UNCHANGED deliveryVars

Receive(p) ==
    \/ \E n \in Conns : Dial(p, n)
    \/ ReadAuthAck(p) \/ HandleIncoming(p) \/ Disconnect(p)

-----------------------------------------------------------------------------
(* Faults.                                                                 *)

\* A connection breaks; what was written before may still be read.
Break(n) ==
    /\ link[n] /\ breaks < MaxBreaks
    /\ breaks' = breaks + 1
    /\ link' = [link EXCEPT ![n] = FALSE]
    /\ UNCHANGED <<vars, relayVars, hubVars, down, up, clientVars, histVars, restarts>>

RelayCrash ==
    /\ restarts < MaxRestarts
    /\ restarts' = restarts + 1
    /\ RelayDies

DeliveryNext ==
    \/ \E c \in Commands : Handle(c)
    \/ \E n \in Conns : Read(n) \/ Break(n)
    \/ \E p \in Processes :
          Work(p) \/ ReportResult(p) \/ Receive(p) \/ WritePump(p) \/ AgentStops(p)
    \/ RelayCrash

\* Goroutines that can run do run, the reader notices a broken connection (read
\* deadline and pings), and the netclient redials for ever.  The subscript of
\* each is what all its steps change.
DeliveryFairness ==
    /\ \A c \in Commands : WF_handler(handler[c] # "new" /\ Handle(c))
    /\ \A n \in Conns : WF_<<reader, up>>(Read(n))
    /\ \A p \in Processes :
          /\ WF_pc(Work(p) \/ ReportResult(p))
          /\ WF_<<aconn, down>>(Receive(p))
          /\ WF_asend(WritePump(p))

DeliverySafety == DeliveryInit /\ [][DeliveryNext]_allVars
DeliverySpec == DeliverySafety /\ DeliveryFairness

-----------------------------------------------------------------------------
(* Properties.                                                             *)

\* A command whose result has arrived is not put back into delivery: the result
\* may overtake the MarkCommandDispatched that follows the Send, whose guard on
\* PENDING must then leave the status alone.
RelayTerminalIsFinal ==
    [][\A c \in Commands : rstatus[c] \in Terminal => rstatus'[c] \in Terminal]_allVars

\* No command falls between a handler that found the agent offline and the flush
\* of the agent that connects meanwhile: while the device has a connection, what
\* is PENDING and past its handler's look-up is still to be flushed on it.
PendingIsScheduled ==
    \A c \in Commands :
        rstatus[c] = "PENDING" /\ handler[c] \in {"offline", "done"} /\ agentConn # NoConn
        => \/ reader[agentConn] \in {"registered", "flush"}
           \/ /\ reader[agentConn] \in {"flushFind", "flushSend", "flushMark"}
              /\ c \in work[agentConn].cmds

\* The agent marks results of a command as synced only when the relay has saved
\* a result of that command, whatever is lost, repeated or delayed.
AckedIsReceived ==
    \A c \in Commands, k \in AttemptNos :
        synced[c][k] => \E j \in AttemptNos : <<c, j>> \in received

\* The audit log says EXEC_CMD only of a run that ended its command: the agent has
\* executed that attempt, it was a success or the last one, and the relay has its
\* result.  A dispatch, a repeated delivery, an attempt that is retried or what
\* a sync brings is no such run.  (A payload that does not decode is reported
\* without a run.)
AuditIsReal ==
    \A c \in Commands :
        audit[c] = "EXEC_CMD" =>
            \E k \in AttemptNos :
                /\ <<c, k>> \in received
                /\ \/ executed[c][k] = 1 /\ (result[c][k] = "zero" \/ k = MaxAttempts)
                   \/ c \in Undecodable

\* Whoever crashes and whatever arrives late or twice, the outcome the relay
\* shows is one that happened: COMPLETED needs a saved run with exit code 0 or an
\* answer of the cloud, FAILED a saved run that failed, a clear-queue or a payload
\* that does not decode (whose result the agent reports although it may not have
\* been saved).
OutcomeIsReal ==
    \A c \in Commands :
        /\ rstatus[c] = "COMPLETED" =>
              <<ById, Cloud>> \in rows[c] \/ \E k \in AttemptNos : result[c][k] = "zero"
        /\ rstatus[c] = "FAILED" =>
              c \in cancelled \cup Undecodable \/ \E k \in AttemptNos : result[c][k] = "nonzero"

\* The result of attempt k of c is in a message, or the worker still has it.
OnItsWay(c, k) ==
    LET Carries(q) == \E i \in DOMAIN q : \E r \in q[i].results : r[1] = c /\ r[2] = k IN
    \/ \E p \in Processes : cur[p] = c
    \/ Carries(asend)
    \/ \E n \in Conns : Carries(up[n])

\* "offline result syncing (Synced = 0 -> 1)" (README.md): once the result of a
\* command's last attempt is marked as synced, and so is not sent again, the
\* relay has received it or a message that carries it is still on its way.
SyncedIsReceived ==
    \A c \in Commands :
        status[c] \in Terminal /\ attempts[c] > 0 /\ synced[c][attempts[c]]
        => <<c, attempts[c]>> \in received \/ OnItsWay(c, attempts[c])

\* "SaveSandboxResult saves a result to CloudResultQueue without changing
\* CloudCommandQueue status from PENDING" (store.go): the sandbox is no substitute
\* for the run on the agent, so a command ends at the relay only by the predefined
\* responder, by clear-queue or by a result of its agent.
EndsOnlyWhenHandled ==
    \A c \in Commands \ Predefined :
        rstatus[c] \in Terminal =>
            c \in cancelled \/ \E k \in AttemptNos : <<c, k>> \in received

\* Somebody has taken command c from the queue and may still send it.
Taken(c) ==
    \/ handler[c] \in {"stored", "found"}
    \/ \E n \in Conns : \/ c \in work[n].cmds
                        \/ \E i \in DOMAIN down[n] : c \in down[n][i].cmds

\* A clear-queue is final for the queue: a cancelled command may reach the agent
\* only from a handler or a flush that held it at that moment, and nobody takes
\* it from the queue afterwards.
CancelledIsNotTaken ==
    [][\A c \in cancelled : ~ Taken(c) => ~ Taken(c)']_allVars

\* "automatic FIFO flushing on agent reconnect" (README.md): a command queued for
\* an agent that comes back is dispatched, answered or cancelled.
PendingIsFlushed ==
    \A c \in Commands : rstatus[c] = "PENDING" ~> rstatus[c] # "PENDING"

\* "commands and results survive network drops" (README.md): a command the relay
\* takes for dispatched reaches the agent's queue.
DispatchedArrives ==
    \A c \in Commands : rstatus[c] = "DISPATCHED" ~> status[c] # "NONE"

\* "commands and results survive network drops, sleep, and reboots" (README.md):
\* when a command has ended on the agent, the relay eventually knows it ended.
OutcomeReachesRelay ==
    \A c \in Commands : status[c] \in Terminal ~> rstatus[c] \in Terminal
=============================================================================
