--------------------------- MODULE DeviceLiveness ---------------------------
(***************************************************************************)
(* The status of one device at the relay (internal/hub/hub.go): set by the *)
(* registration of a connection, by heartbeats and by unregister, and      *)
(* revised by the liveness tracker, which works on a snapshot of the       *)
(* Devices table; with what a controller is told of it, by broadcasts and  *)
(* by the device lists it polls (internal/web/static/index.html).          *)
(*                                                                         *)
(* Time passes in periods of the tracker (5 s); a pass of the tracker and  *)
(* the handling of one heartbeat end within a period.  The device is in    *)
(* the table from the start: a command enqueued for it puts it there as    *)
(* OFFLINE, with LastHeartbeat 0.                                          *)
(***************************************************************************)
EXTENDS Naturals

CONSTANTS
    Conns,          \* connections of the device
    NoConn,
    DegradedAfter,  \* HeartbeatDegraded, in periods
    TimeoutAfter    \* HeartbeatTimeout, in periods

ASSUME ConnsAssumption == NoConn \notin Conns
ASSUME ThresholdsAssumption ==
    DegradedAfter \in Nat /\ TimeoutAfter \in Nat /\ 0 < DegradedAfter /\ DegradedAfter < TimeoutAfter

VARIABLES
    cur,       \* h.agents[deviceID]
    conn,      \* where the readPump of each connection is
    dstatus,   \* Devices.Status
    age,       \* periods since LastHeartbeat, up to TimeoutAfter
    view,      \* the status the controller was last sent
    tracker,   \* where the tracker is, with its snapshot and verdict
    due,       \* whether the ticker has fired
    list       \* where the controller's GET_DEVICES is, with the status in it

vars == <<cur, conn, dstatus, age, view, tracker, due, list>>

DeviceStatuses == {"ONLINE", "DEGRADED", "OFFLINE"}
Ages == 0 .. TimeoutAfter
TrackerPhases == {"idle", "listed", "decided", "written"}

LivenessTypeOK ==
    /\ cur \in Conns \cup {NoConn}
    /\ conn \in [Conns -> {"closed", "open", "beating"}]
    /\ dstatus \in DeviceStatuses
    /\ age \in Ages
    /\ view \in DeviceStatuses
    /\ tracker \in [pc : TrackerPhases, status : DeviceStatuses, age : Ages,
                    verdict : DeviceStatuses]
    /\ due \in BOOLEAN
    /\ list \in [pc : {"none", "read", "made"}, status : DeviceStatuses]

NoList == [pc |-> "none", status |-> "OFFLINE"]

Idle == [pc |-> "idle", status |-> "OFFLINE", age |-> 0, verdict |-> "OFFLINE"]

Init ==
    /\ cur = NoConn
    /\ conn = [n \in Conns |-> "closed"]
    /\ dstatus = "OFFLINE"
    /\ age = TimeoutAfter
    /\ view = "OFFLINE"
    /\ tracker = Idle
    /\ due = FALSE
    /\ list = NoList

-----------------------------------------------------------------------------

\* INSERT ... ON CONFLICT(DeviceId) DO UPDATE, with LastHeartbeat now.
UpsertDevice ==
    dstatus' = "ONLINE" /\ age' = 0

\* handleAuth under h.mu; an older connection is closed but its readPump may
\* handle what it has received before it unregisters.
Register(n) ==
    /\ conn[n] = "closed"
    /\ conn' = [conn EXCEPT ![n] = "open"]
    /\ cur' = n
    /\ UpsertDevice
    /\ view' = "ONLINE"
    /\ UNCHANGED <<tracker, due, list>>

\* handleHeartbeat: the store first, the controllers later.
UpdateHeartbeat(n) ==
    /\ conn[n] = "open"
    /\ conn' = [conn EXCEPT ![n] = "beating"]
    /\ dstatus' = "ONLINE"
    /\ age' = 0
    /\ UNCHANGED <<cur, view, tracker, due, list>>

BroadcastHeartbeat(n) ==
    /\ conn[n] = "beating"
    /\ conn' = [conn EXCEPT ![n] = "open"]
    /\ view' = "ONLINE"
    /\ UNCHANGED <<cur, dstatus, age, tracker, due, list>>

\* Mutant: unregister without cur == c.
Unregister_Unguarded(n) ==
    /\ conn[n] = "open"
    /\ conn' = [conn EXCEPT ![n] = "closed"]
    /\ dstatus' = "OFFLINE" /\ view' = "OFFLINE"
    /\ cur' = IF cur = n THEN NoConn ELSE cur
    /\ UNCHANGED <<age, tracker, due, list>>

\* unregister under h.mu: only the device's current connection takes it offline.
Unregister(n) ==
    /\ conn[n] = "open"
    /\ conn' = [conn EXCEPT ![n] = "closed"]
    /\ IF cur = n
         THEN cur' = NoConn /\ dstatus' = "OFFLINE" /\ view' = "OFFLINE"
         ELSE UNCHANGED <<cur, dstatus, view>>
    /\ UNCHANGED <<age, tracker, due, list>>

-----------------------------------------------------------------------------
(* livenessTracker: one pass.                                              *)

ListDevices ==
    /\ tracker.pc = "idle" /\ due
    /\ due' = FALSE
    /\ tracker' = [tracker EXCEPT !.pc = "listed", !.status = dstatus, !.age = age]
    /\ UNCHANGED <<cur, conn, dstatus, age, view, list>>

\* Mutant: no case for the timeout.
StatusOfAge_NoTimeout(a) == IF a >= DegradedAfter THEN "DEGRADED" ELSE "ONLINE"

\* Mutant: no default case, newStatus stays the empty string.
StatusOfAge_NoDefault(a) ==
    CASE a >= TimeoutAfter -> "OFFLINE"
      [] a >= DegradedAfter /\ a < TimeoutAfter -> "DEGRADED"
      [] OTHER -> ""

StatusOfAge(a) ==
    CASE a >= TimeoutAfter -> "OFFLINE"
      [] a >= DegradedAfter /\ a < TimeoutAfter -> "DEGRADED"
      [] OTHER -> "ONLINE"

\* Mutant: only heartbeats count, not the connection.
Decide_HeartbeatOnly ==
    LET verdict == StatusOfAge(tracker.age) IN
    /\ tracker.pc = "listed"
    /\ tracker' = IF verdict = tracker.status THEN Idle
                  ELSE [tracker EXCEPT !.pc = "decided", !.verdict = verdict]
    /\ UNCHANGED <<cur, conn, dstatus, age, view, due, list>>

\* isLiveConn is read under h.mu; the verdict is used after the unlock.  Nothing
\* is written when it equals the status of the snapshot.
Decide ==
    LET verdict == IF cur # NoConn THEN "ONLINE" ELSE StatusOfAge(tracker.age) IN
    /\ tracker.pc = "listed"
    /\ tracker' = IF verdict = tracker.status THEN Idle
                  ELSE [tracker EXCEPT !.pc = "decided", !.verdict = verdict]
    /\ UNCHANGED <<cur, conn, dstatus, age, view, due, list>>

WriteStatus ==
    /\ tracker.pc = "decided"
    /\ dstatus' = tracker.verdict
    /\ tracker' = [tracker EXCEPT !.pc = "written"]
    /\ UNCHANGED <<cur, conn, age, view, due, list>>

BroadcastStatus ==
    /\ tracker.pc = "written"
    /\ view' = tracker.verdict
    /\ tracker' = Idle
    /\ UNCHANGED <<cur, conn, dstatus, age, due, list>>

Track == ListDevices \/ Decide \/ WriteStatus \/ BroadcastStatus

-----------------------------------------------------------------------------
(* handleGetDevices for the controller, which sends GET_DEVICES every 4 s. *)

\* GetDevicesForUser reads the table before it takes h.mu.
ReadList ==
    /\ list.pc = "none"
    /\ list' = [pc |-> "read", status |-> dstatus]
    /\ UNCHANGED <<cur, conn, dstatus, age, view, tracker, due>>

\* Under h.mu a device with a connection becomes ONLINE.
MakeList ==
    /\ list.pc = "read"
    /\ list' = [pc |-> "made", status |-> IF cur # NoConn THEN "ONLINE" ELSE list.status]
    /\ UNCHANGED <<cur, conn, dstatus, age, view, tracker, due>>

\* Sent after the unlock: broadcasts may have come first.
SendList ==
    /\ list.pc = "made"
    /\ view' = list.status
    /\ list' = NoList
    /\ UNCHANGED <<cur, conn, dstatus, age, tracker, due>>

GetDevices == ReadList \/ MakeList \/ SendList

Tick ==
    /\ tracker.pc = "idle" /\ ~ due
    /\ \A n \in Conns : conn[n] # "beating"
    /\ age' = IF age < TimeoutAfter THEN age + 1 ELSE age
    /\ due' = TRUE
    /\ UNCHANGED <<cur, conn, dstatus, view, tracker, list>>

Next ==
    \/ \E n \in Conns : Register(n) \/ UpdateHeartbeat(n) \/ BroadcastHeartbeat(n) \/ Unregister(n)
    \/ Track
    \/ GetDevices
    \/ Tick

\* Time passes, the tracker's goroutine and a handler in progress go on, and the
\* controller polls.
Fairness ==
    /\ WF_vars(Tick) /\ WF_vars(Track) /\ WF_vars(GetDevices)
    /\ \A n \in Conns : WF_vars(BroadcastHeartbeat(n))

Safety == Init /\ [][Next]_vars
Spec == Safety /\ Fairness

-----------------------------------------------------------------------------
(* Properties.                                                             *)

\* Connections that are replaced do not take the device offline when their
\* readPump ends: while the device has a connection only a verdict the tracker
\* reached before it connected can make it other than ONLINE.
OnlyStaleVerdictHides ==
    [][/\ cur # NoConn /\ cur' # NoConn /\ dstatus = "ONLINE" /\ dstatus' # "ONLINE"
          => tracker.pc = "decided" /\ tracker.verdict # "ONLINE"
       /\ tracker.pc # "decided" /\ tracker'.pc = "decided" /\ tracker'.verdict # "ONLINE"
          => cur = NoConn]_vars

\* A device that has gone for good ends OFFLINE, in the table and for the
\* controller, whatever the tracker's snapshot, late broadcasts and lists that
\* were read before said.
GoneIsOffline ==
    <>[](cur = NoConn /\ \A n \in Conns : conn[n] = "closed")
    => <>[](dstatus = "OFFLINE" /\ view = "OFFLINE")

\* A device that stays connected ends ONLINE, in the table and for the controller:
\* the tracker may write and broadcast a verdict reached before the registration,
\* and says nothing when its next verdict agrees with the table.
ConnectedIsOnline ==
    <>[](cur # NoConn) => <>[](dstatus = "ONLINE" /\ view = "ONLINE")
=============================================================================
