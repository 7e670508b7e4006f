------------------------ MODULE DeviceLivenessProofs ------------------------
(***************************************************************************)
(* The safety of DeviceLiveness for every number of connections and every  *)
(* pair of thresholds.                                                     *)
(***************************************************************************)
EXTENDS DeviceLiveness, TLAPS

\* The tracker's case analysis covers every age: newStatus is never empty.
LEMMA StatusOfAgeType == \A a \in Ages : StatusOfAge(a) \in DeviceStatuses
BY ThresholdsAssumption DEF StatusOfAge, DeviceStatuses, Ages

\* handleAuth, handleHeartbeat and unregister keep the types.
LEMMA ConnectionTypes ==
    ASSUME LivenessTypeOK, NEW n \in Conns,
           Register(n) \/ UpdateHeartbeat(n) \/ BroadcastHeartbeat(n) \/ Unregister(n)
    PROVE  LivenessTypeOK'
<1> 0 \in Ages
  BY ThresholdsAssumption DEF Ages
<1>1. CASE Register(n)
  BY <1>1 DEF Register, UpsertDevice, LivenessTypeOK, DeviceStatuses
<1>2. CASE UpdateHeartbeat(n)
  BY <1>2 DEF UpdateHeartbeat, LivenessTypeOK, DeviceStatuses
<1>3. CASE BroadcastHeartbeat(n)
  BY <1>3 DEF BroadcastHeartbeat, LivenessTypeOK, DeviceStatuses
<1>4. CASE Unregister(n)
  BY <1>4 DEF Unregister, LivenessTypeOK, DeviceStatuses
<1> QED
  BY <1>1, <1>2, <1>3, <1>4

\* A pass of the tracker keeps the types.
LEMMA TrackerTypes ==
    ASSUME LivenessTypeOK, Track
    PROVE  LivenessTypeOK'
<1> Idle \in [pc : TrackerPhases, status : DeviceStatuses, age : Ages, verdict : DeviceStatuses]
  BY ThresholdsAssumption DEF Idle, TrackerPhases, DeviceStatuses, Ages
<1>1. CASE ListDevices
  BY <1>1 DEF ListDevices, LivenessTypeOK, TrackerPhases
<1>2. CASE Decide
  <2>1. StatusOfAge(tracker.age) \in DeviceStatuses
    BY StatusOfAgeType DEF LivenessTypeOK
  <2>2. tracker' \in [pc : TrackerPhases, status : DeviceStatuses, age : Ages,
                      verdict : DeviceStatuses]
    BY <1>2, <2>1 DEF Decide, LivenessTypeOK, TrackerPhases, DeviceStatuses
  <2> QED
    BY <1>2, <2>2 DEF Decide, LivenessTypeOK
<1>3. CASE WriteStatus
  BY <1>3 DEF WriteStatus, LivenessTypeOK, TrackerPhases
<1>4. CASE BroadcastStatus
  BY <1>4 DEF BroadcastStatus, LivenessTypeOK
<1> QED
  BY <1>1, <1>2, <1>3, <1>4 DEF Track

\* Every step keeps the types.
LEMMA TypesKept == LivenessTypeOK /\ [Next]_vars => LivenessTypeOK'
<1> SUFFICES ASSUME LivenessTypeOK, [Next]_vars PROVE LivenessTypeOK'
  OBVIOUS
<1>1. CASE GetDevices
  BY <1>1 DEF GetDevices, ReadList, MakeList, SendList, NoList, LivenessTypeOK, DeviceStatuses
<1>2. CASE Tick
  BY <1>2, ThresholdsAssumption DEF Tick, LivenessTypeOK, Ages
<1>3. CASE UNCHANGED vars
  BY <1>3 DEF vars, LivenessTypeOK
<1> QED
  BY <1>1, <1>2, <1>3, ConnectionTypes, TrackerTypes DEF Next

\* The device's row, the registry, the tracker's snapshot and the list under way
\* keep their types: in particular the tracker always reaches a status it can write.
THEOREM LivenessTypes == Safety => []LivenessTypeOK
<1>1. Init => LivenessTypeOK
  <2> SUFFICES ASSUME Init PROVE LivenessTypeOK
    OBVIOUS
  <2>1. 0 \in Ages /\ TimeoutAfter \in Ages
    BY ThresholdsAssumption DEF Ages
  <2>2. tracker \in [pc : TrackerPhases, status : DeviceStatuses, age : Ages,
                     verdict : DeviceStatuses]
    BY <2>1 DEF Init, Idle, DeviceStatuses, TrackerPhases
  <2> QED
    BY <2>1, <2>2 DEF Init, LivenessTypeOK, NoList, DeviceStatuses
<1> QED
  BY <1>1, TypesKept, PTL DEF Safety

-----------------------------------------------------------------------------

Hidden == cur # NoConn /\ cur' # NoConn /\ dstatus = "ONLINE" /\ dstatus' # "ONLINE"
Condemned == tracker.pc # "decided" /\ tracker'.pc = "decided" /\ tracker'.verdict # "ONLINE"

\* What one step does to the table and to the tracker's verdict.
LEMMA HidingStep ==
    ASSUME LivenessTypeOK, [Next]_vars
    PROVE  /\ Hidden => tracker.pc = "decided" /\ tracker.verdict # "ONLINE"
           /\ Condemned => cur = NoConn
<1> DEFINE Goal == /\ Hidden => tracker.pc = "decided" /\ tracker.verdict # "ONLINE"
                   /\ Condemned => cur = NoConn
<1> USE DEF Hidden, Condemned
<1>1. ASSUME NEW n \in Conns, Register(n) \/ UpdateHeartbeat(n) \/ BroadcastHeartbeat(n)
      PROVE  Goal
  BY <1>1 DEF Register, UpsertDevice, UpdateHeartbeat, BroadcastHeartbeat
<1>2. ASSUME NEW n \in Conns, Unregister(n) PROVE Goal
  BY <1>2 DEF Unregister
<1>3. CASE ListDevices
  BY <1>3 DEF ListDevices, LivenessTypeOK
<1>4. CASE Decide
  BY <1>4 DEF Decide, Idle, LivenessTypeOK
<1>5. CASE WriteStatus
  BY <1>5 DEF WriteStatus, LivenessTypeOK
<1>6. CASE BroadcastStatus
  BY <1>6 DEF BroadcastStatus, Idle, LivenessTypeOK
<1>7. CASE GetDevices \/ Tick \/ UNCHANGED vars
  BY <1>7 DEF GetDevices, ReadList, MakeList, SendList, Tick, vars
<1> QED
  BY <1>1, <1>2, <1>3, <1>4, <1>5, <1>6, <1>7 DEF Next, Track

\* While a device stays connected only the tracker can take ONLINE away from its
\* row, with a verdict it reached while the device had no connection: neither
\* the unregister of a replaced connection nor a snapshot can.
THEOREM OnlyStaleVerdictsHide == Safety => OnlyStaleVerdictHides
<1>1. LivenessTypeOK /\ [Next]_vars =>
        [/\ cur # NoConn /\ cur' # NoConn /\ dstatus = "ONLINE" /\ dstatus' # "ONLINE"
            => tracker.pc = "decided" /\ tracker.verdict # "ONLINE"
         /\ tracker.pc # "decided" /\ tracker'.pc = "decided" /\ tracker'.verdict # "ONLINE"
            => cur = NoConn]_vars
  BY HidingStep DEF Hidden, Condemned
<1> QED
  BY <1>1, LivenessTypes, PTL DEF Safety, OnlyStaleVerdictHides
=============================================================================
