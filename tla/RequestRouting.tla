---------------------------- MODULE RequestRouting ----------------------------
(***************************************************************************)
(* The requests a controller sends to a device while both are connected:   *)
(* routeToAgent and routeToControllers of internal/hub/hub.go, the         *)
(* handlers of handleIncoming (agent/internal/netclient/client.go) with    *)
(* the operations of filemgr, processmgr and screen, and the CloudFileCache *)
(* of internal/store/store.go.                                             *)
(*                                                                         *)
(* All file requests are about one path of one device.  routeToAgent runs  *)
(* in the readPump of the controller and takes no lock across its steps:   *)
(* it reads the device's row, then the registry, then the cache or sends.  *)
(***************************************************************************)
EXTENDS HubRegistry, FiniteSets

CONSTANTS
    Type,        \* the message type of a request
    From,        \* the controller that sends it
    StartKinds,  \* what may be at the path at first
    MaxAsked,    \* bound: requests that are made
    MaxChanges   \* bound: changes of the path on the device by others

Types == {"LIST", "READ", "WRITE", "CREATE", "DELETE", "KILL", "QUERY"}
\* "large": a file between the relay's read limit and MaxFileTransferBytes;
\* "unread": one whose content is not sent, empty or above MaxFileTransferBytes.
Kinds == {"none", "emptyDir", "dir", "unread", "file", "large"}
Audited == {r \in Requests : Type[r] \in {"WRITE", "CREATE", "DELETE", "KILL"}}

ASSUME RoutingAssumption ==
    /\ Type \in [Requests -> Types]
    /\ From \in [Requests -> Controllers]
    /\ StartKinds \subseteq Kinds
    /\ MaxAsked \in Nat /\ MaxChanges \in Nat

VARIABLES
    pc,        \* where the handler of a request is, or how it ended
    target,    \* the connection getAgentClient returned to it
    runs,      \* how many times the agent has handled it
    reported,  \* the responses routeToControllers has handled
    answered,  \* the requests whose controller got an answer
    audit,     \* the requests with a row in AuditLogs
    disk,      \* what is at the path on the device, and its version
    cache,     \* the row of CloudFileCache for the path
    changes

routeVars == <<pc, target, runs, reported, answered, audit, disk, cache, changes>>
vars == <<regVars, routeVars>>

Handling == {"granted", "found", "away"}

\* cache.kind is the column IsDir; 0 is a NULL column.
NoRow == [kind |-> "none", files |-> 0, content |-> 0]

RoutingTypeOK ==
    /\ RegistryTypeOK
    /\ pc \in [Requests -> {"new", "denied", "cached", "offline", "sent", "dropped", "left", "lost"}
                           \cup Handling]
    /\ target \in [Requests -> Conns \cup {NoConn}]
    /\ runs \in [Requests -> Nat]
    /\ reported \subseteq Requests
    /\ answered \subseteq Requests
    /\ audit \subseteq Requests
    /\ disk \in [kind : Kinds, ver : Nat]
    /\ cache \in [kind : {"none", "dir", "file"}, files : Nat, content : Nat]
    /\ changes \in Nat

RoutingInit ==
    /\ RegistryInit
    /\ pc = [r \in Requests |-> "new"]
    /\ target = [r \in Requests |-> NoConn]
    /\ runs = [r \in Requests |-> 0]
    /\ reported = {} /\ answered = {} /\ audit = {}
    /\ disk \in [kind : StartKinds, ver : {1}]
    /\ cache = NoRow
    /\ changes = 0

-----------------------------------------------------------------------------
(* routeToAgent.                                                           *)

Owned_Always(r) == r \in Requests  \* Mutant: no test of the device's account.

\* A session without an account, and a device without one, match any.
Owned(r) == AccountOf[From[r]] = NoUser \/ owner = NoUser \/ AccountOf[From[r]] = owner

\* The readPump of a controller handles one message at a time.
Busy(k) == \E r \in Requests : From[r] = k /\ pc[r] \in Handling

Check(r) ==
    /\ pc[r] = "new" /\ From[r] \in ctrls /\ ~ Busy(From[r])
    /\ Cardinality({q \in Requests : pc[q] # "new"}) < MaxAsked
    /\ pc' = [pc EXCEPT ![r] = IF Owned(r) THEN "granted" ELSE "denied"]
    /\ answered' = IF Owned(r) THEN answered ELSE answered \cup {r}
    /\ UNCHANGED <<regVars, target, runs, reported, audit, disk, cache, changes>>

\* getAgentClient, under the read lock.
Lookup(r) ==
    /\ pc[r] = "granted"
    /\ target' = [target EXCEPT ![r] = cur]
    /\ pc' = [pc EXCEPT ![r] = IF cur = NoConn THEN "away" ELSE "found"]
    /\ UNCHANGED <<regVars, runs, reported, answered, audit, disk, cache, changes>>

\* Whether the store finds a snapshot: IsDir must be that of the question.
GetCachedDirectoryListing == cache.kind = "dir" /\ cache.files # 0
GetCachedFileContent == cache.kind = "file" /\ cache.content # 0

InCache(r) ==
    \/ Type[r] = "LIST" /\ GetCachedDirectoryListing
    \/ Type[r] = "READ" /\ GetCachedFileContent

AnswerOffline(r) ==
    /\ pc[r] = "away"
    /\ pc' = [pc EXCEPT ![r] = IF InCache(r) THEN "cached" ELSE "offline"]
    /\ answered' = answered \cup {r}
    /\ UNCHANGED <<regVars, target, runs, reported, audit, disk, cache, changes>>

\* agent.Send: the connection found may have been unregistered since.
Forward(r) ==
    /\ pc[r] = "found"
    /\ \/ /\ reader[target[r]] # "closed"
          /\ down' = Sent(target[r], r)
          /\ pc' = [pc EXCEPT ![r] = IF down' = down THEN "dropped" ELSE "sent"]
          /\ UNCHANGED <<hubState, auth, link, up, agentState, faults>>
       \/ /\ reader[target[r]] = "closed"
          /\ RelayDies
          /\ pc' = [q \in Requests |-> IF pc[q] \in Handling THEN "lost" ELSE pc[q]]
    /\ UNCHANGED <<target, runs, reported, answered, audit, disk, cache, changes>>

-----------------------------------------------------------------------------
(* The agent.                                                              *)

\* What the operations leave at the path.
WriteFile(overwrite) ==
    IF disk.kind \in {"dir", "emptyDir"} \/ (~ overwrite /\ disk.kind # "none")
      THEN disk
      ELSE [kind |-> "file", ver |-> disk.ver + 1]

DeleteFile == IF disk.kind = "none" THEN disk ELSE [kind |-> "none", ver |-> disk.ver + 1]

Performed(r) ==
    CASE Type[r] = "WRITE"  -> WriteFile(TRUE)
      [] Type[r] = "CREATE" -> WriteFile(FALSE)
      [] Type[r] = "DELETE" -> DeleteFile
      [] OTHER              -> disk

\* What the responses carry: an error, an empty listing and an empty file are all
\* "none" to the relay.
ListDirectory == IF disk.kind = "dir" THEN "some" ELSE "none"
ReadFile ==
    CASE disk.kind = "file" -> "some" [] disk.kind = "large" -> "large" [] OTHER -> "none"

Body(r) ==
    CASE Type[r] = "LIST"  -> ListDirectory
      [] Type[r] = "READ"  -> ReadFile
      [] Type[r] = "QUERY" -> "some"
      [] OTHER             -> "none"

Response(r) == [req |-> r, body |-> Body(r), ver |-> disk.ver]

\* Mutant: an operation that fails is not answered.
Answers_OnlySuccess(r) ==
    IF Body(r) # "none" /\ Len(asend) < Cap THEN Append(asend, Response(r)) ELSE asend

\* Client.Send of the agent: dropped when the channel is full.
Answers(r) == IF Len(asend) < Cap THEN Append(asend, Response(r)) ELSE asend

HandleRequest ==
    /\ aconn # NoConn /\ serving /\ down[aconn] # << >>
    /\ LET r == Head(down[aconn]) IN
         /\ r \in Requests \ Oversized
         /\ asend' = Answers(r)
         /\ pc' = [pc EXCEPT ![r] = IF Len(asend) < Cap THEN @ ELSE "dropped"]
         /\ runs' = [runs EXCEPT ![r] = @ + 1]
         /\ disk' = Performed(r)
    /\ down' = [down EXCEPT ![aconn] = Tail(@)]
    /\ UNCHANGED <<hubState, auth, link, up, token, aconn, serving, faults,
                   target, reported, answered, audit, cache, changes>>

\* Somebody changes the path on the device.
LocalChange ==
    /\ changes < MaxChanges
    /\ changes' = changes + 1
    /\ \E k \in Kinds : disk' = [kind |-> k, ver |-> disk.ver + 1]
    /\ UNCHANGED <<regVars, pc, target, runs, reported, answered, audit, cache>>

-----------------------------------------------------------------------------
(* routeToControllers.                                                     *)

\* INSERT ... ON CONFLICT DO UPDATE: the insert sets IsDir, the update does not.
CacheDirectoryListing(ver) ==
    [cache EXCEPT !.kind = IF @ = "none" THEN "dir" ELSE @, !.files = ver]
CacheFileContent(ver) ==
    [cache EXCEPT !.kind = IF @ = "none" THEN "file" ELSE @, !.content = ver]

Cached(m) ==
    CASE Type[m.req] = "LIST" /\ m.body = "some" -> CacheDirectoryListing(m.ver)
      [] Type[m.req] = "READ" /\ m.body = "some" -> CacheFileContent(m.ver)
      [] OTHER                                   -> cache

RouteToControllers(n) ==
    /\ reader[n] = "open" /\ up[n] # << >> /\ ~ TooLarge(n)
    /\ LET m == Head(up[n]) IN
         /\ cache' = Cached(m)
         /\ audit' = audit \cup ({m.req} \cap Audited)
         /\ reported' = reported \cup {m.req}
         /\ answered' = answered \cup ({m.req} \cap {r \in Requests : From[r] \in Receivers})
    /\ up' = [up EXCEPT ![n] = Tail(@)]
    /\ UNCHANGED <<hubState, auth, link, down, agentState, faults,
                   pc, target, runs, disk, changes>>

-----------------------------------------------------------------------------
RelayStep(n) == (Register(n) \/ SendAuthAck(n) \/ Unregister(n)) /\ UNCHANGED routeVars

\* A new Client takes the name of one that has ended and that no handler holds.
AgentDials ==
    /\ \E n \in Conns :
          /\ \A r \in Requests : pc[r] = "found" => target[r] # n
          /\ Dial(n)
          /\ target' = [r \in Requests |-> IF target[r] = n THEN NoConn ELSE target[r]]
    /\ UNCHANGED <<pc, runs, reported, answered, audit, disk, cache, changes>>

\* unregister runs when the controller's handler has returned; whoever waits for
\* an answer in the session is gone.
SessionEnds(k) ==
    /\ ~ Busy(k) /\ Leave(k)
    /\ pc' = [r \in Requests |-> IF From[r] = k /\ pc[r] = "sent" THEN "left" ELSE pc[r]]
    /\ UNCHANGED <<target, runs, reported, answered, audit, disk, cache, changes>>

Environment ==
    /\ \/ \E t \in Tokens : Setup(t)
       \/ \E n \in Conns : Break(n)
    /\ UNCHANGED routeVars

RoutingNext ==
    \/ \E n \in Conns : RelayStep(n) \/ RouteToControllers(n)
    \/ \E r \in Requests : Check(r) \/ Lookup(r) \/ AnswerOffline(r) \/ Forward(r)
    \/ AgentDials
    \/ (ReadAuthAck \/ Disconnect \/ WritePump) /\ UNCHANGED routeVars
    \/ HandleRequest
    \/ LocalChange
    \/ \E k \in Controllers : (Join(k) /\ UNCHANGED routeVars) \/ SessionEnds(k)
    \/ Environment

\* Goroutines that can run do: the pumps of the relay and of the agent, the
\* handler of a request once it is read, and the loop that dials again.  The
\* subscript of each is what all its steps change.
RoutingFairness ==
    /\ \A n \in Conns : WF_reader(RelayStep(n)) /\ WF_up(RouteToControllers(n))
    /\ \A r \in Requests : WF_pc(Lookup(r) \/ AnswerOffline(r) \/ Forward(r))
    /\ WF_aconn(AgentDials)
    /\ WF_down(ReadAuthAck /\ UNCHANGED routeVars)
    /\ WF_aconn(Disconnect /\ UNCHANGED routeVars)
    /\ WF_asend(WritePump /\ UNCHANGED routeVars)
    /\ WF_down(HandleRequest)

RoutingSafety == RoutingInit /\ [][RoutingNext]_vars
RoutingSpec == RoutingSafety /\ RoutingFairness

-----------------------------------------------------------------------------
(* Properties.                                                             *)

Operation(r) ==
    IF pc[r] = "new" THEN "idle"
    ELSE IF pc[r] \in {"denied", "cached", "offline"} THEN "refused"
    ELSE IF r \in reported THEN "reported"
    ELSE IF runs[r] > 0 THEN "performed"
    ELSE "granted"

Promise ==
    INSTANCE RemoteOperation
        WITH op <- [r \in Requests |-> Operation(r)], log <- audit, holder <- owner

\* Whatever the connections, the reconnections and the restarts of the relay, a
\* request of routeToAgent is granted against the account the device then has,
\* performed at most once, never after a refusal, and AuditLogs gets a row for an
\* operation only after the agent has performed it.
ImplementsRemoteOperation == Promise!OperationSpec

\* The snapshot that offline browsing serves goes back to an older version only
\* when routeToControllers handles a late response of a replaced connection:
\* the responses of one agent reach the cache in the order they were made.
OnlyOldConnectionsRewind ==
    [][ cache'.files < cache.files \/ cache'.content < cache.content
          => \E n \in Conns \ {cur} : up[n] # << >> /\ up'[n] = Tail(up[n]) ]_vars

\* Sent on the connection the device still has, no channel full, the session and
\* the account that asked still there, and no answer yet.
Waiting(r) ==
    pc[r] = "sent" /\ r \notin answered /\ cur # NoConn /\ cur = target[r] /\ Owned(r)

\* A request that routeToAgent has sent to the device's connection is answered to
\* its controller, an error of the agent included, unless the connection is
\* replaced or removed, a send channel was full, the controller's session ended
\* or the device got another account: the hub sets no timer for a request and
\* sends no error of its own, so nothing else may swallow one.
LiveRequestsAreAnswered == []<>(\A r \in Requests : ~ Waiting(r))
=============================================================================
