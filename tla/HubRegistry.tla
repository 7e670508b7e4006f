----------------------------- MODULE HubRegistry -----------------------------
(***************************************************************************)
(* The hub's registry (internal/hub/hub.go): which connection a device     *)
(* has, which account the device belongs to, which controllers are         *)
(* connected; with the agent's side of a connection                        *)
(* (agent/internal/netclient/client.go) and the messages between them.     *)
(*                                                                         *)
(* One device.  Its agent sends the token of its configuration, which the  *)
(* installer of internal/web/web.go replaces.  A readPump runs handleAuth  *)
(* in two steps: under h.mu, and the Send of AUTH_ACK after the unlock.    *)
(***************************************************************************)
EXTENDS Naturals, Sequences

CONSTANTS
    Conns,        \* connections the device can have open at the relay at a time
    NoConn,
    Users,        \* accounts, each with its token
    NoUser,       \* no account: the empty UserID, and a token of no account
    Invalid,      \* tokens the relay refuses (a global token is configured)
    Configured,   \* tokens the agent's configuration may have at first
    Controllers,
    AccountOf,    \* the account a controller has logged in to, or NoUser
    Requests,     \* the requests of controllers that RequestRouting routes
    Oversized,    \* those that exceed the agent's read limit (10 MB)
    Cap,          \* capacity of a send channel (64)
    MaxBreaks,    \* bound: connections the network breaks
    MaxSetups     \* bound: runs of the installer

ASSUME RegistryAssumption ==
    /\ NoConn \notin Conns
    /\ NoUser \notin Users /\ Invalid \cap (Users \cup {NoUser}) = {}
    /\ Configured \subseteq Users \cup {NoUser} \cup Invalid
    /\ AccountOf \in [Controllers -> Users \cup {NoUser}]
    /\ Oversized \subseteq Requests /\ Requests \cap {"AUTH_ACK", "AUTH_FAIL"} = {}
ASSUME RegistryBounds == Cap \in Nat \ {0} /\ MaxBreaks \in Nat /\ MaxSetups \in Nat

VARIABLES
    cur,       \* h.agents[deviceID]
    owner,     \* Devices.UserId
    ctrls,     \* h.controllers
    reader,    \* where the readPump of a connection is
    connUser,  \* Client.userID of a connection
    auth,      \* the token in the AUTH message of a connection
    link,      \* whether a connection still carries messages
    down, up,  \* messages on their way to and from the agent
    token,     \* AuthToken of the agent's configuration
    aconn,     \* the connection connectAndServe is serving
    serving,   \* whether it has read AUTH_ACK
    asend,     \* Client.send of the netclient, kept across connections
    breaks, setups

hubState == <<cur, owner, ctrls, reader, connUser>>
wires == <<auth, link, down, up>>
agentState == <<token, aconn, serving, asend>>
faults == <<breaks, setups>>
regVars == <<hubState, wires, agentState, faults>>

Accounts == Users \cup {NoUser}
Tokens == Accounts \cup Invalid

\* A response: the request, what it carries and how new that is.
Responses == [req : Requests, body : {"none", "some", "large"}, ver : Nat]
ToAgent == {"AUTH_ACK", "AUTH_FAIL"} \cup Requests

RegistryTypeOK ==
    /\ cur \in Conns \cup {NoConn}
    /\ owner \in Accounts
    /\ ctrls \subseteq Controllers
    /\ reader \in [Conns -> {"closed", "auth", "registered", "open"}]
    /\ connUser \in [Conns -> Accounts]
    /\ auth \in [Conns -> Tokens]
    /\ link \in [Conns -> BOOLEAN]
    /\ down \in [Conns -> Seq(ToAgent)]
    /\ up \in [Conns -> Seq(Responses)]
    /\ token \in Tokens
    /\ aconn \in Conns \cup {NoConn}
    /\ serving \in BOOLEAN
    /\ asend \in Seq(Responses)
    /\ Len(asend) <= Cap /\ \A n \in Conns : Len(down[n]) <= Cap
    /\ breaks \in Nat /\ setups \in Nat

RegistryInit ==
    /\ cur = NoConn
    /\ owner = NoUser
    /\ ctrls = {}
    /\ reader = [n \in Conns |-> "closed"]
    /\ connUser = [n \in Conns |-> NoUser]
    /\ auth = [n \in Conns |-> NoUser]
    /\ link = [n \in Conns |-> FALSE]
    /\ down = [n \in Conns |-> << >>]
    /\ up = [n \in Conns |-> << >>]
    /\ token \in Configured
    /\ aconn = NoConn
    /\ serving = FALSE
    /\ asend = << >>
    /\ breaks = 0 /\ setups = 0

-----------------------------------------------------------------------------
(* The relay.                                                              *)

\* Mutant: the channel grows.
Sent_Unbounded(n, m) == IF link[n] THEN [down EXCEPT ![n] = Append(@, m)] ELSE down

\* Client.Send: dropped when the channel is full; on a broken connection the
\* write pump loses the message.
Sent(n, m) ==
    IF link[n] /\ Len(down[n]) < Cap THEN [down EXCEPT ![n] = Append(@, m)] ELSE down

\* The account of a token, if it is one of an account.
GetUserByToken(t) == IF t \in Users THEN t ELSE NoUser

\* The account handleAuth gives the connection: that of the token, which
\* BindDeviceToUser writes into the row, or else the one the row has.
Authenticated(n) == IF GetUserByToken(auth[n]) # NoUser THEN GetUserByToken(auth[n]) ELSE owner

\* Mutant: UserId = excluded.UserId, with the account of the token only.
UpsertDevice_Overwrites(n) == GetUserByToken(auth[n])

\* UserId = CASE WHEN excluded.UserId != '' THEN excluded.UserId ELSE Devices.UserId
UpsertDevice(n) == IF Authenticated(n) # NoUser THEN Authenticated(n) ELSE owner

\* handleAuth: a refused agent stays unregistered; otherwise, under h.mu, the
\* connection replaces the old one, which is closed.
Register(n) ==
    /\ reader[n] = "auth"
    /\ \/ /\ auth[n] \in Invalid
          /\ down' = Sent(n, "AUTH_FAIL")
          /\ reader' = [reader EXCEPT ![n] = "open"]
          /\ UNCHANGED <<cur, owner, connUser, link>>
       \/ /\ auth[n] \notin Invalid
          /\ cur' = n
          /\ link' = [m \in Conns |-> link[m] /\ (m = n \/ m # cur)]
          /\ connUser' = [connUser EXCEPT ![n] = Authenticated(n)]
          /\ owner' = UpsertDevice(n)
          /\ reader' = [reader EXCEPT ![n] = "registered"]
          /\ UNCHANGED down
    /\ auth' = [auth EXCEPT ![n] = NoUser]
    /\ UNCHANGED <<ctrls, up, agentState, faults>>

SendAuthAck(n) ==
    /\ reader[n] = "registered"
    /\ down' = Sent(n, "AUTH_ACK")
    /\ reader' = [reader EXCEPT ![n] = "open"]
    /\ UNCHANGED <<cur, owner, ctrls, connUser, auth, link, up, agentState, faults>>

\* The next message exceeds SetReadLimit (16 MB): ReadMessage returns an error.
TooLarge(n) == up[n] # << >> /\ Head(up[n]).body = "large"

\* Mutant: unregister without cur == c.
Unregister_Unguarded(n) ==
    /\ reader[n] \in {"auth", "open"} /\ (~ link[n] \/ TooLarge(n))
    /\ cur' = NoConn
    /\ reader' = [reader EXCEPT ![n] = "closed"]
    /\ link' = [link EXCEPT ![n] = FALSE]
    /\ connUser' = [connUser EXCEPT ![n] = NoUser]
    /\ auth' = [auth EXCEPT ![n] = NoUser]
    /\ up' = [up EXCEPT ![n] = << >>]
    /\ UNCHANGED <<owner, ctrls, down, agentState, faults>>

\* readPump ends: the connection is removed if it is still the device's, its
\* channel and the connection are closed.
Unregister(n) ==
    /\ reader[n] \in {"auth", "open"} /\ (~ link[n] \/ TooLarge(n))
    /\ cur' = IF cur = n THEN NoConn ELSE cur
    /\ reader' = [reader EXCEPT ![n] = "closed"]
    /\ link' = [link EXCEPT ![n] = FALSE]
    /\ connUser' = [connUser EXCEPT ![n] = NoUser]
    /\ auth' = [auth EXCEPT ![n] = NoUser]
    /\ up' = [up EXCEPT ![n] = << >>]
    /\ UNCHANGED <<owner, ctrls, down, agentState, faults>>

\* A controller connects with its account's token, or its connection ends.
Join(k) ==
    /\ k \notin ctrls
    /\ ctrls' = ctrls \cup {k}
    /\ UNCHANGED <<cur, owner, reader, connUser, wires, agentState, faults>>

Leave(k) ==
    /\ k \in ctrls
    /\ ctrls' = ctrls \ {k}
    /\ UNCHANGED <<cur, owner, reader, connUser, wires, agentState, faults>>

\* broadcastDeviceResult: the device's account is read from the table.
Receivers ==
    {k \in ctrls : AccountOf[k] = NoUser \/ owner = NoUser \/ AccountOf[k] = owner}

\* A Send on the channel of a connection that has been unregistered panics, and
\* the relay process dies and is started again.
RelayDies ==
    /\ cur' = NoConn
    /\ ctrls' = {}
    /\ reader' = [n \in Conns |-> "closed"]
    /\ connUser' = [n \in Conns |-> NoUser]
    /\ auth' = [n \in Conns |-> NoUser]
    /\ link' = [n \in Conns |-> FALSE]
    /\ up' = [n \in Conns |-> << >>]
    /\ UNCHANGED <<owner, down, agentState, faults>>

-----------------------------------------------------------------------------
(* The agent's netclient.                                                  *)

\* connectAndServe dials and writes AUTH.
Dial(n) ==
    /\ aconn = NoConn /\ reader[n] = "closed"
    /\ aconn' = n
    /\ reader' = [reader EXCEPT ![n] = "auth"]
    /\ auth' = [auth EXCEPT ![n] = token]
    /\ link' = [link EXCEPT ![n] = TRUE]
    /\ down' = [down EXCEPT ![n] = << >>]
    /\ UNCHANGED <<cur, owner, ctrls, connUser, up, token, serving, asend, faults>>

\* connectAndServe returns: the connection is closed.
Closed ==
    /\ aconn' = NoConn
    /\ serving' = FALSE
    /\ link' = [n \in Conns |-> link[n] /\ n # aconn]
    /\ down' = [n \in Conns |-> IF n = aconn THEN << >> ELSE down[n]]

\* Anything but a successful AUTH_ACK is a refusal.
ReadAuthAck ==
    /\ aconn # NoConn /\ ~ serving /\ down[aconn] # << >>
    /\ IF Head(down[aconn]) = "AUTH_ACK"
         THEN /\ serving' = TRUE
              /\ down' = [down EXCEPT ![aconn] = Tail(@)]
              /\ UNCHANGED <<aconn, link>>
         ELSE Closed
    /\ UNCHANGED <<hubState, auth, up, token, asend, faults>>

\* readLoop gets an error, from a broken connection or from a request beyond its
\* read limit.  The write pump may take one more message, and lose it.
Disconnect ==
    /\ aconn # NoConn
    /\ ~ link[aconn] \/ (serving /\ down[aconn] # << >> /\ Head(down[aconn]) \in Oversized)
    /\ Closed
    /\ \/ UNCHANGED asend
       \/ serving /\ asend # << >> /\ asend' = Tail(asend)
    /\ UNCHANGED <<hubState, auth, up, token, faults>>

\* Mutant: the newest message is written first.
WritePump_Newest ==
    /\ aconn # NoConn /\ serving /\ asend # << >>
    /\ up' = IF link[aconn] THEN [up EXCEPT ![aconn] = Append(@, asend[Len(asend)])] ELSE up
    /\ asend' = SubSeq(asend, 1, Len(asend) - 1)
    /\ UNCHANGED <<hubState, auth, link, down, token, aconn, serving, faults>>

WritePump ==
    /\ aconn # NoConn /\ serving /\ asend # << >>
    /\ up' = IF link[aconn] THEN [up EXCEPT ![aconn] = Append(@, Head(asend))] ELSE up
    /\ asend' = Tail(asend)
    /\ UNCHANGED <<hubState, auth, link, down, token, aconn, serving, faults>>

\* The script of handleDownloadInstaller stops the agent, writes a token into
\* its configuration and starts it.
Setup(t) ==
    /\ setups < MaxSetups
    /\ setups' = setups + 1
    /\ token' = t
    /\ Closed
    /\ asend' = << >>
    /\ UNCHANGED <<hubState, auth, up, breaks>>

\* A connection breaks; what was written before may still be read.
Break(n) ==
    /\ link[n] /\ breaks < MaxBreaks
    /\ breaks' = breaks + 1
    /\ link' = [link EXCEPT ![n] = FALSE]
    /\ UNCHANGED <<hubState, auth, down, up, agentState, setups>>

-----------------------------------------------------------------------------
(* Properties.                                                             *)

\* The connection of a device and its row agree on its account, whichever tokens
\* its agent has had and in whichever order late readPumps register them: who
\* gets its heartbeats (Client.userID) is who gets its responses (Devices.UserId).
AccountsAgree == cur # NoConn => connUser[cur] = owner

\* An agent with a token the relay accepts ends connected: the hub's connection is
\* the one the agent serves, although replaced connections unregister late and a
\* request sent before AUTH_ACK makes the agent close a connection.
EndsConnected ==
    <>[](token \notin Invalid) => <>[](cur # NoConn /\ cur = aconn /\ serving)
=============================================================================
